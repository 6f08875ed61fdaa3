\* Three threads that may change socket between calls, fairly scheduled.
SPECIFICATION FairSpec
CONSTANTS
  a = a  b = b  c = c  d = d  s0 = s0  s1 = s1
  NULL = NULL
  Threads = {a, b, c}
  Sockets = {s0, s1}
  Homes <- Migrating
PROPERTY
  Progress
