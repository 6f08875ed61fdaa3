\* Four threads, two on each socket.
SPECIFICATION Spec
CONSTANTS
  a = a  b = b  c = c  d = d  s0 = s0  s1 = s1
  NULL = NULL
  Threads = {a, b, c, d}
  Sockets = {s0, s1}
  Homes <- TwoAndTwo
SYMMETRY TwoAndTwoSymmetry
INVARIANTS
  TypeOK
  MutualExclusion
  QueueIntact
  SingleShuffler
  NodesAlive
  NoLostWakeup
PROPERTY
  Refinement
