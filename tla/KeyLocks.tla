------------------------------ MODULE KeyLocks ------------------------------
(***************************************************************************)
(* What the pool of action objects promises its callers: a call owns its   *)
(* key (a socket, or an action that concerns no socket) alone, from the    *)
(* moment its object is active until it is released.  A call that returns  *)
(* without releasing its object loses the key for good.                    *)
(***************************************************************************)
CONSTANTS Task, Keys, NoKey

VARIABLES held,     \* the key each task owns, or NoKey
          lost      \* the keys nobody will release

Init == held = [t \in Task |-> NoKey] /\ lost = {}

Acquire(t, k) ==
    /\ held[t] = NoKey
    /\ k \notin lost /\ \A u \in Task : held[u] # k
    /\ held' = [held EXCEPT ![t] = k]
    /\ UNCHANGED lost

Release(t) ==
    /\ held[t] # NoKey
    /\ held' = [held EXCEPT ![t] = NoKey]
    /\ UNCHANGED lost

Lose(t) ==
    /\ held[t] # NoKey
    /\ lost' = lost \cup {held[t]}
    /\ held' = [held EXCEPT ![t] = NoKey]

Next == \E t \in Task : Release(t) \/ Lose(t) \/ \E k \in Keys : Acquire(t, k)

Spec == Init /\ [][Next]_<<held, lost>>
=============================================================================
