------------------------ MODULE MCConnectionManager ------------------------
(* Small instances of ConnectionManager for TLC.                           *)
EXTENDS ConnectionManager, TLC

PoolSymmetry == Permutations(Clients) \cup Permutations(Sockets)
=============================================================================
