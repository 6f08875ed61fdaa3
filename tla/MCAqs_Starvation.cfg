\* Two threads, one socket, no trylock: the comment's starvation freedom.
SPECIFICATION FairSpec
CONSTANTS
  a = a  b = b  c = c  d = d  s0 = s0  s1 = s1
  NULL = NULL
  Threads = {a, b}
  Sockets = {s0}
  Homes <- Migrating
  TryThreads = {}
PROPERTY
  HeadNotStarved
