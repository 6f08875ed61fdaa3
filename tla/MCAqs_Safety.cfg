\* Four threads, three of one socket, all of which also call trylock.
SPECIFICATION Spec
CONSTANTS
  a = a  b = b  c = c  d = d  s0 = s0  s1 = s1
  NULL = NULL
  Threads = {a, b, c, d}
  Sockets = {s0, s1}
  Homes <- ThreeAndOne
  TryThreads = {a, b, c, d}
SYMMETRY ThreeAndOneSymmetry
INVARIANTS
  TypeOK
  MutualExclusion
  QueueIntact
  SingleShuffler
  NodesAlive
  FastPathRestored
PROPERTIES
  Refinement
  SameSocketFifo
