\* Two threads at a time, three ever, a mutex and a reader-writer lock.
SPECIFICATION Spec
CONSTANTS
  a = a  b = b  m = m  r = r
  NULL = NULL
  Threads = {a, b}
  Main = a
  Mutexes = {m}
  RwLocks = {r}
  Impls = {1, 2, 3, 4}
  MAX_THREADS = 3
CHECK_DEADLOCK FALSE
INVARIANTS
  LockExclusion
  ImplStable
  ContextsDistinct
