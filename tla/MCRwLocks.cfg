\* Three threads, one of which may run on either of two nodes.
SPECIFICATION FairSpec
CONSTANTS
  a = a  b = b  c = c
  NULL = NULL
  Threads = {a, b, c}
  CondThreads = {}
  NumaNodes = {0, 1}
  Migrants = {c}
  Algos = {"hmcsrw", "hmcsrw_mutex", "ttasrw", "rwsem"}
  RELEASE_THRESHOLD = 2
  MAX_RW = 3
CHECK_DEADLOCK FALSE
INVARIANT
  RwFreeWhenUnused
PROPERTIES
  ImplementsRwLock
  RwWaitersServed
