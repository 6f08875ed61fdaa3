\* MCS-TP with the treadmill case of its unlock within reach.
SPECIFICATION FairSpec
CONSTANTS
  a = a  b = b  c = c
  NULL = NULL
  Threads = {a, b, c}
  CondThreads = {}
  NumaNodes = {0}
  Migrants = {}
  Algos = {"mcstp_short"}
  TicketMod = 4
  Slots = 3
  Recycled = FALSE
  SignBit = 8
  TicketCap = 7
  MAX_THREADS_MCS_TP = 6
  Patience = 2
CHECK_DEADLOCK FALSE
PROPERTY
  OvertakenRestarts
