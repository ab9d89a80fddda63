SPECIFICATION Spec
CONSTANTS
  Clients = {c1, c2}
  Sockets = {s1, s2, s3}
  N = 2
  Timeouts = {1}
  TickModulus = 4
  TickWraps = FALSE
  NoSocket = NoSocket
  Free = Free
  Manager = Manager
SYMMETRY PoolSymmetry
INVARIANT ClaimedPositionIsFree
