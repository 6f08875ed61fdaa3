\* Four threads that lock, try, wait and broadcast, fairly scheduled.
SPECIFICATION FairSpec
CONSTANTS
  a = a  b = b  c = c  d = d
  NULL = NULL
  Threads = {a, b, c, d}
INVARIANT
  LocksNested
PROPERTIES
  MonitorImplemented
  LockReturns
