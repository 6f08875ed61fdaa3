\* Three threads, one of which also waits on the condition variable, on two
\* sockets.  Tickets wrap around after four, those of the partitioned lock end
\* before its int overflows, where nobody calls it any more; an unlock of mcstp
\* meets few timeouts, but with one place to scan the treadmill case is reached.
SPECIFICATION FairSpec
CONSTANTS
  a = a  b = b  c = c
  NULL = NULL
  Threads = {a, b, c}
  CondThreads = {a}
  NumaNodes = {0, 1}
  Migrants = {a, b}
  Algos = {"mcs_spin", "mcs_park", "mcsepfl", "clh_spin", "clh_park", "clhepfl", "ticket",
           "ticketepfl", "alockepfl", "partitioned", "spinlock", "spinlockepfl", "ttas",
           "ttasepfl", "backoff", "malthusian_spin", "malthusian_park", "cna", "mcstp",
           "mcstp_short", "mutexee"}
  TicketMod = 4
  Slots = 3
  Recycled = FALSE
  SignBit = 8
  TicketCap = 7
  MAX_THREADS_MCS_TP = 6
  Patience = 2
CHECK_DEADLOCK FALSE
INVARIANT
  FreeWhenUnused
PROPERTIES
  ImplementsCondVar
  FifoOrder
  LockReturns
  WaitersServed
