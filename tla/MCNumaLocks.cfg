\* Three threads, one of which may run on either of two nodes at each call and
\* also waits on the condition variable and calls trylock.
SPECIFICATION FairSpec
CONSTANTS
  a = a  b = b  c = c
  NULL = NULL
  Threads = {a, b, c}
  CondThreads = {c}
  NumaNodes = {0, 1}
  Migrants = {c}
  TryThreads = {c}
  Algos = {"cbomcs", "ctkttkt", "cptltkt", "htlockepfl", "hmcs", "hyshmcs"}
  BATCH_COUNT = 1
  RELEASE_THRESHOLD = 2
  NB_TICKETS_LOCAL = 2
  TicketMod = 4
  TicketCap = 5
CHECK_DEADLOCK FALSE
INVARIANT
  BatchBound
PROPERTIES
  ImplementsCondVar
  WaitersServed
