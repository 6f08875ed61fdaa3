------------------------------ MODULE HysHmcs ------------------------------
(***************************************************************************)
(* hyshmcs.c: hmcs.c with a fast path.  A thread that sees no waiter takes *)
(* the global lock itself, with its own node; otherwise it queues at the   *)
(* level cur_depth, which follows the contention it has met.  cur_node is  *)
(* the lock it queued at, GLOBAL for real_depth LEVEL_GLOBAL.              *)
(***************************************************************************)
EXTENDS Hmcs

LEVEL_LOCAL == 1
LEVEL_GLOBAL == 2

\* init_context: every thread starts at the local level.
InitHys ==
  /\ ApiInit /\ hmcs_mutex_create
  /\ nd = [v \in Threads \cup NumaNodes |->
             [next |-> NULL, status |-> LOCKED, took_fast_path |-> FALSE, cur_node |-> GLOBAL,
              cur_depth |-> LEVEL_LOCAL, depth_waited |-> LEVEL_LOCAL]]
  /\ loc = [t \in Threads |-> NULL]

Node(t) == nd[t].cur_node

\* Between the calls of a thread its level counts, and at the global level
\* whether others were behind it.
Forget(n) == [n EXCEPT !.next = IF n.cur_depth = LEVEL_LOCAL THEN NULL ELSE @, !.status = LOCKED,
                       !.cur_node = GLOBAL, !.depth_waited = LEVEL_LOCAL]

Kept(v) == Forget(nd[v])

Go(t, from, to, context) ==
  /\ Step(t, from, to)
  /\ nd' = [nd EXCEPT ![t] = context]
  /\ UNCHANGED <<lk, loc>>

\* An empty queue leads to a look at the global one; a thread whose last stay at
\* the global level had two behind it moves to the local level.
ReadTail(t, n) ==
  LET h == IF nd[t].cur_depth = LEVEL_LOCAL THEN n ELSE GLOBAL
      down == nd[t].cur_depth = LEVEL_GLOBAL /\ nd[t].next \notin {NULL, lk.tail[h]}
  IN  IF lk.tail[h] = NULL
      THEN Go(t, "lock", "root", [nd[t] EXCEPT !.cur_node = h])
      ELSE Go(t, "lock", "enqueue", [nd[t] EXCEPT !.cur_node = IF down THEN n ELSE h])

ReadRoot(t) ==
  IF lk.tail[GLOBAL] = NULL
  THEN Go(t, "root", "fast", [nd[t] EXCEPT !.took_fast_path = TRUE])
  ELSE Go(t, "root", "enqueue", nd[t])

Granted(t, from, level) == Go(t, from, "posix", [nd[t] EXCEPT !.depth_waited = level])

\* The thread's own node in the global queue: on the fast path or at the level.
OwnGlobalLock(t) ==
  \/ Swap(t, t, GLOBAL, Initially(GLOBAL), "fast", "mspin", "mlink")
  \/ Node(t) = GLOBAL /\ Swap(t, t, GLOBAL, Initially(GLOBAL), "enqueue", "mspin", "mlink")
  \/ LinkTo(t, t, "mlink", "mspin")
  \/ /\ pc[t] = "mspin" /\ nd[t].status = UNLOCKED
     /\ Granted(t, "mspin", IF nd[t].took_fast_path THEN nd[t].depth_waited ELSE LEVEL_GLOBAL)

LocalLock(t) ==
  \/ Node(t) # GLOBAL /\ Swap(t, t, Node(t), WAIT, "enqueue", "start", "link")
  \/ LinkTo(t, t, "link", "spin")
  \/ nd[t].status \notin {WAIT, ACQUIRE_PARENT} /\ Granted(t, "spin", LEVEL_LOCAL)
  \/ nd[t].status = ACQUIRE_PARENT /\ Read(t, "spin", "start")
  \/ StartCohort(t, Node(t))
  \/ LinkTo(t, Node(t), "glink", "gspin")
  \/ pc[t] = "gspin" /\ nd[Node(t)].status = UNLOCKED /\ Granted(t, "gspin", LEVEL_GLOBAL)

hyshmcs_mutex_lock(t) ==
  \/ (\E n \in current_numa_node(t) : ReadTail(t, n)) \/ ReadRoot(t) \/ OwnGlobalLock(t) \/ LocalLock(t)
  \/ PosixLock(t)

\* Only the fast path is tried.
FastTry(t) ==
  /\ pc[t] = "trytop"
  /\ LET free == lk.tail[GLOBAL] = NULL
     IN  /\ Step(t, "trytop", IF free THEN "tryposix" ELSE "idle")
         /\ lk' = [lk EXCEPT !.tail[GLOBAL] = IF free THEN t ELSE @]
         /\ nd' = [nd EXCEPT ![t].next = NULL, ![t].status = Initially(GLOBAL),
                             ![t].took_fast_path = free]
  /\ UNCHANGED loc

hyshmcs_mutex_trylock(t) ==
  \/ lk.tail[GLOBAL] = NULL /\ Read(t, "idle", "trytop")
  \/ FastTry(t) \/ PosixTryLock(t)

\* The level for the next call, from where the lock came and where it went.
Adjusted(t, passed) ==
  LET n == nd[t]
  IN  IF n.cur_depth = LEVEL_GLOBAL /\ LEVEL_LOCAL \in {n.depth_waited, passed}
      THEN [n EXCEPT !.cur_depth = LEVEL_LOCAL]
      ELSE IF n.cur_depth = LEVEL_LOCAL /\ {n.depth_waited, passed} = {LEVEL_GLOBAL}
      THEN [n EXCEPT !.cur_depth = LEVEL_GLOBAL] ELSE n

FastUnlock(t) ==
  nd[t].took_fast_path /\ Go(t, "unlock", "fcas", [nd[t] EXCEPT !.took_fast_path = FALSE])

GlobalUnlock(t) ==
  /\ ~nd[t].took_fast_path /\ Node(t) = GLOBAL
  /\ Go(t, "unlock", "fcas", Adjusted(t, LEVEL_GLOBAL))

LocalUnlock(t) ==
  /\ ~nd[t].took_fast_path /\ Node(t) # GLOBAL
  /\ LET full == nd[t].status = RELEASE_THRESHOLD
     IN  \/ /\ full \/ nd[t].next = NULL
            /\ Go(t, "unlock", "gcas", Adjusted(t, IF full THEN LEVEL_LOCAL ELSE LEVEL_GLOBAL))
         \/ /\ ~full /\ nd[t].next # NULL
            /\ Step(t, "unlock", After(t))
            /\ nd' = [nd EXCEPT ![nd[t].next].status = nd[t].status + 1,
                                ![t] = Forget(Adjusted(t, LEVEL_LOCAL))]
            /\ UNCHANGED <<lk, loc>>

hyshmcs_mutex_unlock(t) ==
  \/ PosixUnlock(t) \/ FastUnlock(t) \/ GlobalUnlock(t) \/ LocalUnlock(t)
  \/ release_helper(t, GLOBAL, t, UNLOCKED, Kept(t), "fcas", "fpass", After(t))
  \/ release_helper(t, GLOBAL, Node(t), UNLOCKED, Kept(Node(t)), "gcas", "gpass", "lcas")
  \/ release_helper(t, Node(t), t, ACQUIRE_PARENT, Kept(t), "lcas", "lpass", After(t))

hyshmcs_cond_timedwait(t) == CondTimedwait(t)

hyshmcs(t) ==
  \/ CallLock(t) \/ hyshmcs_mutex_lock(t) \/ hyshmcs_mutex_trylock(t)
  \/ hyshmcs_mutex_unlock(t) \/ hyshmcs_cond_timedwait(t)
=============================================================================
