---------------------------- MODULE MCActionPool ----------------------------
(***************************************************************************)
(* The calls of this firmware on a small pool: each client resolves names  *)
(* and uses a socket of its own, the connection manager selects.           *)
(***************************************************************************)
EXTENDS ActionPool, TLC

CONSTANTS t1, t2, t3, s1, s2, dns, select, connect

MCMay ==
    t1 :> {[act |-> dns, sd |-> NoSocket], [act |-> connect, sd |-> s1], [act |-> Recv, sd |-> s1]}
    @@ t2 :> {[act |-> dns, sd |-> NoSocket], [act |-> Recv, sd |-> s2]}
    @@ t3 :> {[act |-> dns, sd |-> NoSocket], [act |-> select, sd |-> NoSocket]}

\* No socket is used by two tasks: the hypothesis of NoStrandedPendingCorrect.
ASSUME SocketsApart == OneActionPerSocket
=============================================================================
