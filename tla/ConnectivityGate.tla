------------------------- MODULE ConnectivityGate -------------------------
(***************************************************************************)
(* What the services may rely on: the order in which the wifi service      *)
(* announces connectivity to them and stops and starts the network         *)
(* mediator that answers their wait_rx calls.                              *)
(***************************************************************************)
VARIABLES running,  \* the network mediator is not suspended
          online    \* the last event told to the services was connectivity_on

gateVars == <<running, online>>

GateInit == ~running /\ ~online

\* The mediator is started before the services are told of it ...
StartMediator == running' = TRUE /\ UNCHANGED online

Announce == running /\ online' = TRUE /\ UNCHANGED running

\* ... and stopped only after the services have been told.
Withdraw == online' = FALSE /\ UNCHANGED running

StopMediator == ~online /\ running' = FALSE /\ UNCHANGED online

GateNext == StartMediator \/ Announce \/ Withdraw \/ StopMediator

GateSpec == GateInit /\ [][GateNext]_gateVars
=============================================================================
