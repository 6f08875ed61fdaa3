------------------------------- MODULE HmcsRw -------------------------------
(***************************************************************************)
(* hmcsrw.c: writers queue as in hmcs.c, and the one that has both levels  *)
(* then waits until no node has active readers.  A reader announces itself *)
(* on its node and withdraws if there are writers.  The mutex of the same  *)
(* library is the writers' part alone.                                     *)
(***************************************************************************)
EXTENDS Hmcs

WRITE_STATE == 1
READ_STATE == 2
NO_STATE == -1

\* me->lock_status stays with the thread's context and is kept here in lk.
CreateWith(lock_status) ==
  lk = [tail |-> [h \in NumaNodes \cup {GLOBAL} |-> NULL],
        active_readers |-> [n \in NumaNodes |-> 0],
        lock_status |-> [t \in Threads |-> lock_status]]

InitContexts ==
  /\ ApiInit
  /\ nd = [v \in Threads \cup NumaNodes |-> [next |-> NULL, status |-> LOCKED, last_local |-> 0]]
  /\ loc = [t \in Threads |-> NULL]

\* The contexts of a mutex are cleared.  Those of a reader-writer lock are not,
\* but lock_status is written before it is read.
hmcsrw_mutex_create == CreateWith(0) /\ InitContexts
hmcsrw_rwlock_create == CreateWith(NO_STATE) /\ InitContexts

LastNode == Cardinality(NumaNodes) - 1

Add(t, by, from, to) ==
  /\ pc[t] = from
  /\ Step(t, from, to)
  /\ lk' = [lk EXCEPT !.active_readers[Local(t)] = @ + by]
  /\ UNCHANGED <<nd, loc>>

Hold(t, state, from, to) ==
  /\ Step(t, from, to)
  /\ lk' = [lk EXCEPT !.lock_status[t] = state]
  /\ UNCHANGED nd

-----------------------------------------------------------------------------
OnNode(t, n) ==
  /\ Step(t, "rdlock", "rdwait")
  /\ nd' = [nd EXCEPT ![t].last_local = n]
  /\ UNCHANGED <<lk, loc>>

NoWriter(t) == lk.tail[GLOBAL] = NULL /\ Read(t, "rdwait", "rdadd")

\* MUTANT: a reader looks for writers only before its announcement.
RecheckWriter_Skipped(t, from, busy) == Hold(t, READ_STATE, from, "rd") /\ UNCHANGED loc

\* MUTANT: a reader that gives way stays announced.
RecheckWriter_Stays(t, from, busy) ==
  IF lk.tail[GLOBAL] = NULL
  THEN Hold(t, READ_STATE, from, "rd") /\ UNCHANGED loc
  ELSE Read(t, from, IF busy = "rdsub" THEN "rdwait" ELSE "idle")

\* Only now that it is announced does the absence of writers count.
RecheckWriter(t, from, busy) ==
  IF lk.tail[GLOBAL] = NULL
  THEN Hold(t, READ_STATE, from, "rd") /\ UNCHANGED loc ELSE Read(t, from, busy)

hmcsrw_rwlock_rdlock(t) ==
  \/ \E n \in current_numa_node(t) : OnNode(t, n)
  \/ NoWriter(t) \/ Add(t, 1, "rdadd", "rdcheck")
  \/ RecheckWriter(t, "rdcheck", "rdsub") \/ Add(t, -1, "rdsub", "rdwait")

\* last_local is assigned after the check, which nobody can tell.
hmcsrw_rwlock_tryrdlock(t) ==
  \/ \E n \in current_numa_node(t) :
       /\ Step(t, "idle", "trycheck")
       /\ nd' = [nd EXCEPT ![t].last_local = n]
       /\ lk' = [lk EXCEPT !.active_readers[n] = @ + 1]
       /\ UNCHANGED loc
  \/ RecheckWriter(t, "trycheck", "trysub") \/ Add(t, -1, "trysub", "idle")

\* One node after the other is seen without readers; loc[t] is the next one.
ScanReaders(t, from, more, done) ==
  LET i == IF loc[t] = NULL THEN 0 ELSE loc[t]
  IN  /\ pc[t] = from /\ lk.active_readers[i] = 0
      /\ IF i < LastNode
         THEN /\ Step(t, from, more) /\ loc' = [loc EXCEPT ![t] = i + 1]
              /\ UNCHANGED <<lk, nd>>
         ELSE /\ IF done = "wr" THEN Hold(t, WRITE_STATE, from, done)
                                ELSE Step(t, from, done) /\ UNCHANGED <<lk, nd>>
              /\ loc' = [loc EXCEPT ![t] = NULL]

hmcsrw_rwlock_wrlock(t) ==
  \/ (\E n \in current_numa_node(t) : LocalEnqueue(t, n)) \/ LinkTo(t, t, "link", "spin")
  \/ LocalGranted(t) \/ StartCohort(t, Local(t)) \/ LinkTo(t, Local(t), "glink", "gspin")
  \/ GlobalGranted(t) \/ ScanReaders(t, "posix", "posix", "wr")

GiveUpLocal(t) == release_helper(t, Local(t), t, ACQUIRE_PARENT, Left(t), "trycas", "trydrop", "idle")

\* Readers seen at first make it fail; those seen after that it waits for.
hmcsrw_rwlock_trywrlock(t) ==
  \/ ScanReaders(t, "idle", "tryscan", "trylock") \/ ScanReaders(t, "tryscan", "tryscan", "trylock")
  \/ /\ pc[t] = "tryscan" /\ lk.active_readers[loc[t]] # 0
     /\ Step(t, "tryscan", "idle") /\ loc' = [loc EXCEPT ![t] = NULL] /\ UNCHANGED <<lk, nd>>
  \/ (\E n \in current_numa_node(t) : TryLocal(t, n, "trylock")) \/ TryGlobal(t) \/ GiveUpLocal(t)
  \/ ScanReaders(t, "tryposix", "tryposix", "wr")

LocalUnlock(t) ==
  LET full == nd[t].status = RELEASE_THRESHOLD
  IN  \/ ~full /\ PassLocal(t)
      \/ (full \/ nd[t].next = NULL) /\ Read(t, "unlock", "gcas")

\* What kind of lock is released is read from the context.
hmcsrw_rwlock_unlock(t) ==
  \/ /\ pc[t] \in {"rd", "wr"}
     /\ lk' = IF lk.lock_status[t] = READ_STATE
              THEN [lk EXCEPT !.active_readers[Local(t)] = @ - 1, !.lock_status[t] = NO_STATE]
              ELSE [lk EXCEPT !.lock_status[t] = NO_STATE]
     /\ Step(t, pc[t], IF lk.lock_status[t] = READ_STATE THEN "idle" ELSE "unlock")
     /\ UNCHANGED <<nd, loc>>
  \/ LocalUnlock(t)
  \/ release_helper(t, GLOBAL, Local(t), UNLOCKED, Left(Local(t)), "gcas", "gpass", "lcas")
  \/ release_helper(t, Local(t), t, ACQUIRE_PARENT, Left(t), "lcas", "lpass", "idle")

hmcsrw(t) ==
  \/ CallLock(t) \/ Read(t, "idle", "rdlock")
  \/ hmcsrw_rwlock_rdlock(t) \/ hmcsrw_rwlock_wrlock(t) \/ hmcsrw_rwlock_tryrdlock(t)
  \/ hmcsrw_rwlock_trywrlock(t) \/ hmcsrw_rwlock_unlock(t)

\* Neither sets lock_status nor waits for readers, of which a mutex has none.
hmcsrw_rwlock_lock(t) ==
  \/ (\E n \in current_numa_node(t) : LocalEnqueue(t, n)) \/ LinkTo(t, t, "link", "spin")
  \/ LocalGranted(t) \/ StartCohort(t, Local(t)) \/ LinkTo(t, Local(t), "glink", "gspin")
  \/ GlobalGranted(t) \/ Read(t, "posix", "wr")

hmcsrw_rwlock_trylock(t) ==
  \/ (\E n \in current_numa_node(t) : TryLocal(t, n, "idle")) \/ TryGlobal(t) \/ GiveUpLocal(t)
  \/ Read(t, "tryposix", "wr")

hmcsrw_mutex(t) ==
  CallLock(t) \/ hmcsrw_rwlock_lock(t) \/ hmcsrw_rwlock_trylock(t) \/ hmcsrw_rwlock_unlock(t)
=============================================================================
