\* Two services, two sockets, a pool of two: every race on the pool.
\* A call at tick 0 posts the deadline 0, one at tick 1 a deadline that is
\* missed at tick 2.
SPECIFICATION Spec
CONSTANTS
  Clients = {c1, c2}
  Sockets = {s1, s2}
  N = 2
  Timeouts = {0}
  TickModulus = 3
  TickWraps = FALSE
  NoSocket = NoSocket
  Free = Free
  Manager = Manager
SYMMETRY PoolSymmetry
INVARIANTS TypeOK MutexHeld OneSlotPerSocket OneAnswerPerWaiter NoLostWakeup ReadyMeansReadable NoEarlyTimeout
