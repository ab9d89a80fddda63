------------------------ MODULE TimingAdapterProofs ------------------------
(***************************************************************************)
(* Proofs about the DTLS retransmission timer, for any delays mbedTLS asks *)
(* for and wherever the timer daemon preempts set_delay.                   *)
(***************************************************************************)
EXTENDS TimingAdapter, TLAPS

\* The delays set_delay works with: the intermediate one is within the bound.
LEMMA DelayRange ==
    ASSUME TypeOK
    PROVE  /\ fin_ms \in Int /\ fin_ms <= MaxElapsed /\ MaxElapsed \in Nat
           /\ fin_ms = Unset \/ fin_ms \in Nat
           /\ fin_ms # Unset => int_ms \in Nat /\ int_ms <= MaxElapsed
<1>1. fin_ms \in Int /\ fin_ms <= MaxElapsed /\ MaxElapsed \in Nat /\ (fin_ms = Unset \/ fin_ms \in Nat)
  BY DelaysOK DEF TypeOK, Unset
<1>2. ASSUME fin_ms \in Nat PROVE int_ms \in Nat /\ int_ms <= fin_ms
  BY <1>2 DEF int_ms
<1>3. QED  BY <1>1, <1>2

\* StateIsCurrent without its CASE: what each value of the state says.
CurrentParts ==
    pc = "idle" /\ fin_ms # Unset =>
        /\ fin_ms = 0 => state = -1 /\ int_timer = Inactive /\ fin_timer = Inactive
        /\ fin_ms # 0 =>
            /\ state \in {0, 1, 2}
            /\ state = 1 => elapsed >= int_ms
            /\ state = 0 /\ ~overrun => int_timer # Inactive /\ fin_timer # Inactive
            /\ state = 1 /\ ~overrun => int_timer = Inactive /\ fin_timer # Inactive
            /\ state = 2 /\ ~overrun => int_timer = Inactive /\ fin_timer = Inactive

\* A set_delay is armed exactly when it was called with a delay.
LEMMA CurrentIsParts == TypeOK => (StateIsCurrent <=> CurrentParts)
<1> SUFFICES ASSUME TypeOK, pc = "idle", fin_ms # Unset PROVE StateIsCurrent <=> CurrentParts
    BY DEF StateIsCurrent, CurrentParts
<1>1. Armed <=> fin_ms # 0
  BY DelayRange DEF Armed
<1>2. CASE fin_ms = 0
  BY <1>1, <1>2 DEF StateIsCurrent, CurrentParts
<1>3. CASE fin_ms # 0
  <2>1. CASE state = -1
    <3>1. ~StateIsCurrent
      BY <1>3, <2>1 DEF StateIsCurrent
    <3>2. ~CurrentParts
      BY <1>3, <2>1 DEF CurrentParts
    <3>3. QED  BY <3>1, <3>2
  <2>2. CASE state = 0
    BY <1>1, <1>3, <2>2 DEF StateIsCurrent, CurrentParts
  <2>3. CASE state = 1
    BY <1>1, <1>3, <2>3 DEF StateIsCurrent, CurrentParts
  <2>4. CASE state = 2
    BY <1>1, <1>3, <2>4 DEF StateIsCurrent, CurrentParts
  <2>5. QED  BY <2>1, <2>2, <2>3, <2>4 DEF TypeOK, States
<1>4. QED  BY <1>2, <1>3

\* What a step starts from and has to keep.
Parts == TypeOK /\ RunInv /\ CurrentParts

\* Before the first set_delay nothing runs.
LEMMA TimerInit == Init => Parts
<1> SUFFICES ASSUME Init PROVE Parts
    OBVIOUS
<1> USE DelaysOK DEF Init, Inactive, Unset
<1>1. /\ created \in BOOLEAN /\ overrun \in BOOLEAN
  OBVIOUS
<1>2. TypeOK
  BY <1>1 DEF TypeOK
<1>3. RunInv /\ CurrentParts
  BY DEF RunInv, CurrentParts
<1>4. QED  BY <1>2, <1>3 DEF Parts

\* Every step keeps the types.
LEMMA TypeStep == TypeOK /\ Next => TypeOK'
<1> SUFFICES ASSUME TypeOK, Next PROVE TypeOK'
    OBVIOUS
<1>0. FinDelays \subseteq Nat /\ MaxElapsed \in Nat
  BY DelaysOK
<1> USE <1>0 DEF TypeOK, States, Inactive, Unset, timers
<1>1. CASE Tick
  BY <1>1 DEF Tick, Countdown
<1>2. CASE FireInt \/ FireFin
  BY <1>2 DEF FireInt, FireFin
<1>3. CASE InitTimer
  BY <1>3 DEF InitTimer
<1>4. CASE DeinitTimer
  BY <1>4 DEF DeinitTimer
<1>5. CASE CallSetDelay
  <2>1. fin_ms' \in FinDelays \cup {0, Unset} /\ elapsed' \in 0..MaxElapsed
    BY <1>5 DEF CallSetDelay
  <2>2. overrun' \in BOOLEAN
    BY <1>5 DEF CallSetDelay
  <2>3. QED  BY <1>5, <2>1, <2>2 DEF CallSetDelay
<1>6. CASE StopInt \/ StopFin
  BY <1>6 DEF StopInt, StopFin
<1>7. CASE StartInt
  <2>1. int_ms \in Nat \/ fin_ms = Unset
    BY DelayRange
  <2>2. int_ms \in Nat \cup {Inactive}
    BY <2>1 DEF int_ms
  <2>3. QED  BY <1>7, <2>2 DEF StartInt
<1>8. CASE StartFin
  <2>1. int_ms \in Nat \/ fin_ms = Unset
    BY DelayRange
  <2>2. int_ms \in Nat \cup {Inactive}
    BY <2>1 DEF int_ms
  <2>3. QED  BY <1>8, <2>2 DEF StartFin
<1>9. CASE SetState
  BY <1>9 DEF SetState
<1>10. QED
  BY <1>1, <1>2, <1>3, <1>4, <1>5, <1>6, <1>7, <1>8, <1>9 DEF Next, SetDelayStep

\* A tick brings the timers closer and the caller's clock on.
LEMMA TimerTick == Parts /\ Tick => (RunInv /\ CurrentParts)'
<1> SUFFICES ASSUME Parts, Tick PROVE (RunInv /\ CurrentParts)'
    OBVIOUS
<1>2. /\ int_timer' = Inactive <=> int_timer = Inactive
      /\ fin_timer' = Inactive <=> fin_timer = Inactive
      /\ int_timer # Inactive => int_timer' = int_timer - 1 /\ int_timer' \in Nat
      /\ fin_timer # Inactive => fin_timer' = fin_timer - 1 /\ fin_timer' \in Nat
  BY DEF Parts, TypeOK, Tick, Countdown, Inactive
<1>3. /\ elapsed' = elapsed + 1 \/ (elapsed = MaxElapsed /\ elapsed' = MaxElapsed)
      /\ elapsed \in Nat
      /\ UNCHANGED <<state, pc, fin_ms, overrun, int_ms>>
  BY DelaysOK DEF Parts, TypeOK, Tick, int_ms
<1>4. /\ fin_ms # Unset => int_ms \in Nat /\ int_ms <= MaxElapsed
      /\ MaxElapsed \in Nat
  BY DelayRange DEF Parts
<1>5. pc \in {"startFin", "setState", "idle"} /\ int_timer # Inactive => int_timer' + elapsed' >= int_ms
  BY <1>2, <1>3, <1>4 DEF Parts, RunInv, TypeOK, Unset
<1>6. pc = "idle" /\ fin_ms # Unset /\ elapsed >= int_ms => elapsed' >= int_ms
  BY <1>3, <1>4
<1>7. int_timer # Inactive /\ fin_timer # Inactive /\ int_timer <= fin_timer => int_timer' <= fin_timer'
  BY <1>2 DEF Parts, TypeOK
<1>8. pc = "startFin" => int_timer' <= int_ms'
  BY <1>2, <1>3, <1>4 DEF Parts, RunInv, TypeOK, Inactive, Unset
<1>9. RunInv'
  BY <1>2, <1>3, <1>5, <1>7, <1>8 DEF Parts, RunInv
<1>10. CurrentParts'
  BY <1>2, <1>3, <1>6 DEF Parts, CurrentParts
<1>11. QED  BY <1>9, <1>10

\* The callbacks of the timer daemon, wherever they preempt set_delay.
LEMMA TimerFire == Parts /\ (FireInt \/ FireFin) => (RunInv /\ CurrentParts)'
<1> SUFFICES ASSUME Parts, FireInt \/ FireFin PROVE (RunInv /\ CurrentParts)'
    OBVIOUS
<1>1. /\ int_ms' = int_ms /\ elapsed' = elapsed /\ fin_ms' = fin_ms /\ pc' = pc
      /\ elapsed \in Nat
      /\ fin_ms # Unset => int_ms \in Nat
      /\ int_timer \in Nat \cup {Inactive} /\ fin_timer \in Nat \cup {Inactive}
  BY DelayRange, DelaysOK DEF FireInt, FireFin, int_ms, Parts, TypeOK
<1>2. CASE FireInt
  <2>1. /\ int_timer = 0 /\ int_timer' = Inactive /\ fin_timer' = fin_timer /\ state' = 1
        /\ overrun => overrun'
        /\ pc \in {"startFin", "setState"} => overrun'
    BY <1>2 DEF FireInt
  <2>2. RunInv'
    BY <1>1, <2>1 DEF Parts, RunInv, Inactive
  <2>3. pc = "idle" /\ fin_ms # Unset => fin_ms # 0 /\ fin_timer # Inactive /\ elapsed >= int_ms
    BY <1>1, <2>1 DEF Parts, RunInv, Inactive
  <2>4. CurrentParts'
    BY <1>1, <2>1, <2>3 DEF CurrentParts
  <2>5. QED  BY <2>2, <2>4
<1>3. CASE FireFin
  <2>1. /\ int_timer # 0 /\ int_timer' = int_timer /\ fin_timer = 0 /\ fin_timer' = Inactive
        /\ state' = 2
        /\ overrun => overrun'
    BY <1>3 DEF FireFin
  <2>2. pc \in {"setState", "idle"} => int_timer = Inactive
    BY <1>1, <2>1 DEF Parts, RunInv, Inactive
  <2>3. RunInv'
    BY <1>1, <2>1, <2>2 DEF Parts, RunInv, Inactive
  <2>4. pc = "idle" /\ fin_ms # Unset => fin_ms # 0
    BY <1>1, <2>1 DEF Parts, RunInv, Inactive
  <2>5. CurrentParts'
    BY <1>1, <2>1, <2>2, <2>4 DEF CurrentParts
  <2>6. QED  BY <2>3, <2>5
<1>4. QED  BY <1>2, <1>3

\* miso_mbedtls_init_timer, miso_mbedtls_deinit_timer and every step of set_delay.
LEMMA TimerCaller ==
    Parts /\ (InitTimer \/ DeinitTimer \/ CallSetDelay \/ SetDelayStep) => (RunInv /\ CurrentParts)'
<1> SUFFICES ASSUME Parts, InitTimer \/ DeinitTimer \/ CallSetDelay \/ SetDelayStep
             PROVE  (RunInv /\ CurrentParts)'
    OBVIOUS
<1>0. /\ fin_ms = Unset \/ fin_ms \in Nat
      /\ fin_ms # Unset => int_ms \in Nat
      /\ elapsed \in Nat
      /\ FinDelays \subseteq Nat \ {0}
  BY DelayRange, DelaysOK DEF Parts, TypeOK
<1> USE <1>0 DEF Parts, RunInv, CurrentParts, Inactive, Unset, timers
<1>1. CASE InitTimer
  BY <1>1 DEF InitTimer, int_ms
<1>2. CASE DeinitTimer
  BY <1>2 DEF DeinitTimer
<1>3. CASE CallSetDelay
  BY <1>3 DEF CallSetDelay
<1>4. CASE StopInt \/ StopFin
  BY <1>4 DEF StopInt, StopFin
<1>5. CASE StartInt
  <2>1. int_ms' = int_ms /\ int_ms \in Nat
    BY <1>5 DEF StartInt, int_ms
  <2>2. QED  BY <1>5, <2>1 DEF StartInt
<1>6. CASE StartFin
  <2>1. int_ms' = int_ms /\ int_ms \in Nat /\ (int_timer # Inactive => int_timer <= int_ms)
    BY <1>6 DEF StartFin, int_ms
  <2>2. QED  BY <1>6, <2>1 DEF StartFin
<1>7. CASE SetState
  <2>1. int_ms' = int_ms /\ UNCHANGED <<timers, fin_ms, elapsed, overrun>>
    BY <1>7 DEF SetState, int_ms
  <2>2. RunInv'
    BY <1>7, <2>1 DEF SetState
  <2>3. CurrentParts'
    BY <1>7, <2>1 DEF SetState
  <2>4. QED  BY <2>2, <2>3
<1>8. QED  BY <1>1, <1>2, <1>3, <1>4, <1>5, <1>6, <1>7 DEF SetDelayStep

\* Every step keeps the inductive invariant of the two timers.
LEMMA TimerStep == Parts /\ [Next]_vars => Parts'
<1> SUFFICES ASSUME Parts, [Next]_vars PROVE Parts'
    OBVIOUS
<1>1. CASE UNCHANGED vars
  BY <1>1 DEF vars, timers, Parts, TypeOK, RunInv, CurrentParts, int_ms
<1>2. CASE Next
  <2>1. TypeOK'
    BY <1>2, TypeStep DEF Parts
  <2>2. (RunInv /\ CurrentParts)'
    BY <1>2, TimerTick, TimerFire, TimerCaller DEF Next
  <2>3. QED  BY <2>1, <2>2 DEF Parts
<1>3. QED  BY <1>1, <1>2

\* The inductive invariant of the timer adapter.
THEOREM TimerCorrect == Spec => []TimerInv
<1>1. Spec => []Parts
  BY TimerInit, TimerStep, PTL DEF Spec
<1>2. Parts => TimerInv
  BY CurrentIsParts DEF Parts, TimerInv
<1>3. QED  BY <1>1, <1>2, PTL

\* Type correctness: a running timer never counts below zero.
THEOREM TypeCorrect == Spec => []TypeOK
<1>1. TimerInv => TypeOK
  BY DEF TimerInv
<1>2. QED  BY <1>1, TimerCorrect, PTL

\* What get_delay returns is what the timers of the last set_delay did, for any
\* delay and any preemption: no callback of an earlier set_delay shows through
\* and the intermediate delay is not reported early.
THEOREM StateIsCurrentCorrect == Spec => []StateIsCurrent
<1>1. TimerInv => StateIsCurrent
  BY DEF TimerInv
<1>2. QED  BY <1>1, TimerCorrect, PTL

\* "Final delay passed" is never taken back, by neither callback: although both
\* timers are started with the same delay, the intermediate one has fired before.
THEOREM FinalStaysCorrect == Spec => FinalStays
<1>1. TimerInv /\ [Next]_vars => [Armed /\ Armed' /\ state = 2 => state' = 2]_vars
  <2> SUFFICES ASSUME TimerInv, Next, Armed, Armed', state = 2 PROVE state' = 2
    OBVIOUS
  <2>1. int_timer # 0 /\ fin_timer # 0 /\ pc = "idle" /\ pc' = "idle"
    <3>1. fin_ms # Unset
      BY DEF Armed, Unset
    <3>2. QED  BY <3>1 DEF TimerInv, RunInv, Armed, Inactive
  <2>2. CASE Tick \/ InitTimer
    BY <2>2 DEF Tick, InitTimer
  <2>3. CASE DeinitTimer
    BY <2>3 DEF DeinitTimer, Armed, Unset
  <2>4. CASE CallSetDelay \/ SetDelayStep
    BY <2>1, <2>4 DEF CallSetDelay, SetDelayStep, StopInt, StopFin, StartInt, StartFin, SetState
  <2>5. QED  BY <2>1, <2>2, <2>3, <2>4 DEF Next, FireInt, FireFin
<1>2. QED  BY <1>1, TimerCorrect, PTL DEF Spec, FinalStays
=============================================================================
