SPECIFICATION FairSpec
CONSTANT MaxEvents = 2
INVARIANTS LossNotForgotten ConnectedIsTrue
PROPERTIES GateSpec KeepsTrying ComesOnline
