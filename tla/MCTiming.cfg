SPECIFICATION FairSpec
CONSTANTS
  Clients = {c1}
  Sockets = {s1, s2}
  N = 2
  Timeouts = {1, 2}
  TickModulus = 5
  TickWraps = FALSE
  NoSocket = NoSocket
  Free = Free
  Manager = Manager
PROPERTY WaitReturns
