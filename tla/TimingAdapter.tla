--------------------------- MODULE TimingAdapter ---------------------------
(***************************************************************************)
(* The DTLS retransmission timer of c/legacy/src/mbedtls_adapter/timing.c: *)
(* two one-shot FreeRTOS timers whose callback writes a state that mbedTLS *)
(* polls.  The timer daemon has the highest priority, so it carries out a  *)
(* command before the caller goes on and runs a callback before the next   *)
(* tick; it may preempt set_delay anywhere.                                *)
(***************************************************************************)
EXTENDS Integers

CONSTANTS FinDelays,    \* fin_ms values mbedTLS asks for; it passes int_ms = fin_ms / 4
          MaxElapsed    \* bound: ticks since a call are counted up to here

ASSUME DelaysOK ==
    /\ MaxElapsed \in Nat
    /\ FinDelays \subseteq 4..MaxElapsed

Inactive == -1          \* a timer that is not running
Unset    == -1          \* no set_delay since the timers were created

\* timer_cancelled, timer_normal, timer_intermediate_passed, timer_final_delay_passed
States == {-1, 0, 1, 2}

VARIABLES
    created,    \* the timers exist
    state,      \* data->state
    int_timer,  \* ticks until int_timer expires, or Inactive
    fin_timer,  \* ticks until fin_timer expires, or Inactive
    pc,         \* where the caller is in set_delay, "idle" outside
    fin_ms,     \* argument of the last set_delay, or Unset
    elapsed,    \* history: ticks since the last set_delay was called
    overrun     \* history: a timer fired inside the set_delay that started it

timers == <<int_timer, fin_timer>>
vars == <<created, state, timers, pc, fin_ms, elapsed, overrun>>

int_ms == fin_ms \div 4

\* Every variable has its type.
TypeOK ==
    /\ created \in BOOLEAN
    /\ state \in States
    /\ int_timer \in Nat \cup {Inactive}
    /\ fin_timer \in Nat \cup {Inactive}
    /\ pc \in {"idle", "stop", "stopFin", "startInt", "startFin", "setState"}
    /\ fin_ms \in FinDelays \cup {0, Unset}
    /\ elapsed \in 0..MaxElapsed
    /\ overrun \in BOOLEAN

\* The state of a timer that was never set is whatever the memory holds.
Init ==
    /\ created = FALSE
    /\ state \in States
    /\ int_timer = Inactive
    /\ fin_timer = Inactive
    /\ pc = "idle"
    /\ fin_ms = Unset
    /\ elapsed = 0
    /\ overrun = FALSE

-----------------------------------------------------------------------------
(* The timer daemon.                                                       *)

\* A timer due is fired before the next tick.
Countdown(timer) == IF timer = Inactive THEN Inactive ELSE timer - 1

Tick ==
    /\ int_timer # 0 /\ fin_timer # 0
    /\ int_timer' = Countdown(int_timer)
    /\ fin_timer' = Countdown(fin_timer)
    /\ elapsed' = IF elapsed = MaxElapsed THEN MaxElapsed ELSE elapsed + 1
    /\ UNCHANGED <<created, state, pc, fin_ms, overrun>>

\* Timers that expire together fire in the order they were started in.
FireInt ==
    /\ int_timer = 0
    /\ int_timer' = Inactive
    /\ state' = 1
    /\ overrun' = (overrun \/ pc = "startFin" \/ pc = "setState")
    /\ UNCHANGED <<created, fin_timer, pc, fin_ms, elapsed>>

FireFin ==
    /\ fin_timer = 0
    /\ int_timer # 0
    /\ fin_timer' = Inactive
    /\ state' = 2
    /\ overrun' = (overrun \/ pc = "setState")
    /\ UNCHANGED <<created, int_timer, pc, fin_ms, elapsed>>

-----------------------------------------------------------------------------
(* The TLS context that owns the timers.                                   *)

\* miso_mbedtls_init_timer
InitTimer ==
    /\ ~created
    /\ created' = TRUE
    /\ UNCHANGED <<state, timers, pc, fin_ms, elapsed, overrun>>

\* miso_mbedtls_deinit_timer: the timers are stopped and freed; the memory
\* of the context is reused.
DeinitTimer ==
    /\ created
    /\ pc = "idle"
    /\ created' = FALSE
    /\ int_timer' = Inactive
    /\ fin_timer' = Inactive
    /\ state' \in States
    /\ fin_ms' = Unset
    /\ overrun' = FALSE
    /\ UNCHANGED <<pc, elapsed>>

CallSetDelay ==
    /\ created
    /\ pc = "idle"
    /\ fin_ms' \in FinDelays \cup {0}
    /\ elapsed' = 0
    /\ overrun' = FALSE
    /\ pc' = "stop"
    /\ UNCHANGED <<created, state, timers>>

\* Mutant: the intermediate timer is left running.
StopIntForgotten ==
    /\ pc = "stop"
    /\ pc' = "stopFin"
    /\ UNCHANGED <<created, state, timers, fin_ms, elapsed, overrun>>

StopInt ==
    /\ pc = "stop"
    /\ int_timer' = Inactive
    /\ pc' = "stopFin"
    /\ UNCHANGED <<created, state, fin_timer, fin_ms, elapsed, overrun>>

StopFin ==
    /\ pc = "stopFin"
    /\ fin_timer' = Inactive
    /\ pc' = IF fin_ms = 0 THEN "setState" ELSE "startInt"
    /\ UNCHANGED <<created, state, int_timer, fin_ms, elapsed, overrun>>

\* Mutant: the intermediate timer runs for the final delay.
StartIntLate ==
    /\ pc = "startInt"
    /\ int_timer' = fin_ms
    /\ pc' = "startFin"
    /\ UNCHANGED <<created, state, fin_timer, fin_ms, elapsed, overrun>>

StartInt ==
    /\ pc = "startInt"
    /\ int_timer' = int_ms
    /\ pc' = "startFin"
    /\ UNCHANGED <<created, state, fin_timer, fin_ms, elapsed, overrun>>

\* Mutant: the final timer is left stopped.
StartFinForgotten ==
    /\ pc = "startFin"
    /\ pc' = "setState"
    /\ UNCHANGED <<created, state, timers, fin_ms, elapsed, overrun>>

\* xTimerChangePeriod(timer->fin_timer, int_ms, ...): the intermediate delay.
StartFin ==
    /\ pc = "startFin"
    /\ fin_timer' = int_ms
    /\ pc' = "setState"
    /\ UNCHANGED <<created, state, int_timer, fin_ms, elapsed, overrun>>

\* Mutant: the state holds the delay asked for.
SetStateRaw ==
    /\ pc = "setState"
    /\ state' = IF fin_ms = 0 THEN -1 ELSE fin_ms
    /\ pc' = "idle"
    /\ UNCHANGED <<created, timers, fin_ms, elapsed, overrun>>

SetState ==
    /\ pc = "setState"
    /\ state' = IF fin_ms = 0 THEN -1 ELSE 0
    /\ pc' = "idle"
    /\ UNCHANGED <<created, timers, fin_ms, elapsed, overrun>>

SetDelayStep == StopInt \/ StopFin \/ StartInt \/ StartFin \/ SetState

Next ==
    \/ Tick \/ FireInt \/ FireFin
    \/ InitTimer \/ DeinitTimer \/ CallSetDelay \/ SetDelayStep

Spec == Init /\ [][Next]_vars

\* The tick interrupt, the daemon and the caller of set_delay do not stop.
FairSpec ==
    /\ Spec
    /\ WF_vars(Tick)
    /\ WF_vars(FireInt \/ FireFin)
    /\ WF_vars(SetDelayStep)

-----------------------------------------------------------------------------
(* Properties.  set_delay has returned and was not overrun: Armed.         *)

Armed == pc = "idle" /\ fin_ms > 0

\* What get_delay returns is what the timers of the last set_delay did: a
\* cancelled timer reads -1, no callback of an earlier set_delay changes the
\* state after set_delay has returned, and "intermediate delay passed" is not
\* reported before that delay has passed.
StateIsCurrent ==
    pc = "idle" /\ fin_ms # Unset =>
        /\ fin_ms = 0 <=> state = -1
        /\ fin_ms = 0 => int_timer = Inactive /\ fin_timer = Inactive
        /\ Armed /\ state = 1 => elapsed >= int_ms
        /\ Armed /\ ~overrun =>
              CASE state = 0 -> int_timer # Inactive /\ fin_timer # Inactive
                [] state = 1 -> int_timer = Inactive /\ fin_timer # Inactive
                [] state = 2 -> int_timer = Inactive /\ fin_timer = Inactive

\* get_delay never goes back from "final delay passed" to "intermediate
\* delay passed": mbedTLS does not miss a retransmission.
FinalStays == [][Armed /\ Armed' /\ state = 2 => state' = 2]_vars

\* An armed timer reaches "final delay passed", unless set_delay was
\* preempted for so long that it overwrote what the callback had written.
FinalReached == Armed ~> (state = 2 \/ ~Armed \/ overrun)

-----------------------------------------------------------------------------
(* The strengthening that makes the invariants inductive.                  *)

\* Both timers run for the intermediate delay from the call on or later, the
\* final one from after the other, so neither fires early and the final one
\* never first; what set_delay has not started yet, or cancelled, does not run.
RunInv ==
    /\ pc # "idle" => fin_ms # Unset
    /\ pc \in {"startInt", "startFin"} => fin_ms # 0 /\ fin_timer = Inactive
    /\ pc \in {"stopFin", "startInt"} => int_timer = Inactive
    /\ pc = "startFin" /\ ~overrun => int_timer # Inactive
    /\ pc = "startFin" => int_timer <= int_ms
    /\ pc \in {"setState", "idle"} =>
        /\ fin_ms \in {0, Unset} => int_timer = Inactive /\ fin_timer = Inactive
        /\ int_timer # Inactive => fin_timer # Inactive /\ int_timer <= fin_timer
    /\ pc \in {"startFin", "setState", "idle"} /\ int_timer # Inactive =>
          int_timer + elapsed >= int_ms
    /\ pc = "setState" /\ fin_ms # 0 /\ ~overrun => int_timer # Inactive
    /\ pc = "idle" /\ fin_ms # Unset /\ state = 2 =>
          int_timer = Inactive /\ fin_timer = Inactive

\* The inductive invariant.
TimerInv == TypeOK /\ RunInv /\ StateIsCurrent
=============================================================================
