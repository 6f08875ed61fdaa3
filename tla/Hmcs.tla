-------------------------------- MODULE Hmcs --------------------------------
(***************************************************************************)
(* hmcs.c and hyshmcs.c: a tree of two levels of MCS locks, a local one    *)
(* per NUMA node under a global one, whose queue nodes belong to the local *)
(* locks and are named by them.  A local waiter is told by its status      *)
(* whether the global lock comes with the local one (the count of such     *)
(* passes) or is still to be acquired.                                     *)
(***************************************************************************)
EXTENDS LockApi

CONSTANT RELEASE_THRESHOLD

GLOBAL == NULL   \* the hnode without a parent

\* The highest two of uint64_t, here as negative numbers.
WAIT == -1
ACQUIRE_PARENT == -2
COHORT_START == 1

hmcs_mutex_create == lk = [tail |-> [h \in NumaNodes \cup {GLOBAL} |-> NULL]]

Init ==
  /\ ApiInit /\ hmcs_mutex_create
  /\ nd = [v \in Threads \cup NumaNodes |-> [next |-> NULL, status |-> LOCKED, last_local |-> 0]]
  /\ loc = [t \in Threads |-> NULL]

Local(t) == nd[t].last_local

\* Node v is reset and swapped in as the tail of h; loc[t] is the old tail.
Swap(t, v, h, status, from, first, link) ==
  /\ Step(t, from, IF lk.tail[h] = NULL THEN first ELSE link)
  /\ nd' = [nd EXCEPT ![v].next = NULL, ![v].status = status]
  /\ lk' = [lk EXCEPT !.tail[h] = v]
  /\ loc' = [loc EXCEPT ![t] = lk.tail[h]]

LinkTo(t, v, from, to) ==
  /\ pc[t] = from
  /\ Step(t, from, to)
  /\ nd' = [nd EXCEPT ![loc[t]].next = v]
  /\ loc' = [loc EXCEPT ![t] = NULL]
  /\ UNCHANGED lk

Initially(h) == IF lk.tail[h] = NULL THEN UNLOCKED ELSE LOCKED

\* What a thread leaves in a node it has released is overwritten before it is
\* read again, and not kept.
Left(v) == [next |-> NULL, status |-> LOCKED, last_local |-> 0]

\* __hmcs_release_helper, called at from: v gives up h, or passes it on with a
\* status, and left is what remains of v.  The look at next is one step with the
\* compare-and-swap: a node that is the tail has no next.
release_helper(t, h, v, val, left, from, pass, to) ==
  \/ /\ pc[t] = from
     /\ Step(t, from, IF lk.tail[h] = v THEN to ELSE pass)
     /\ lk' = [lk EXCEPT !.tail[h] = IF @ = v THEN NULL ELSE @]
     /\ nd' = [nd EXCEPT ![v] = IF lk.tail[h] = v THEN left ELSE @]
     /\ UNCHANGED loc
  \/ /\ pc[t] = pass /\ nd[v].next # NULL
     /\ Step(t, pass, to)
     /\ nd' = [nd EXCEPT ![nd[v].next].status = val, ![v] = left]
     /\ UNCHANGED <<lk, loc>>

-----------------------------------------------------------------------------
LocalEnqueue(t, n) ==
  /\ Step(t, "lock", IF lk.tail[n] = NULL THEN "start" ELSE "link")
  /\ nd' = [nd EXCEPT ![t] = [next |-> NULL, status |-> WAIT, last_local |-> n]]
  /\ lk' = [lk EXCEPT !.tail[n] = t]
  /\ loc' = [loc EXCEPT ![t] = lk.tail[n]]

LocalGranted(t) ==
  /\ nd[t].status # WAIT
  /\ Read(t, "spin", IF nd[t].status = ACQUIRE_PARENT THEN "start" ELSE "posix")

\* The local lock is acquired without the global one: a cohort starts, and the
\* node of the local lock is put into the global queue.
StartCohort(t, v) ==
  /\ pc[t] = "start"
  /\ Step(t, "start", IF lk.tail[GLOBAL] = NULL THEN "gspin" ELSE "glink")
  /\ nd' = [nd EXCEPT ![t].status = COHORT_START, ![v].next = NULL, ![v].status = Initially(GLOBAL)]
  /\ lk' = [lk EXCEPT !.tail[GLOBAL] = v]
  /\ loc' = [loc EXCEPT ![t] = lk.tail[GLOBAL]]

GlobalGranted(t) == nd[Local(t)].status = UNLOCKED /\ Read(t, "gspin", "posix")

hmcs_mutex_lock(t) ==
  \/ (\E n \in current_numa_node(t) : LocalEnqueue(t, n)) \/ LinkTo(t, t, "link", "spin") \/ LocalGranted(t)
  \/ StartCohort(t, Local(t)) \/ LinkTo(t, Local(t), "glink", "gspin") \/ GlobalGranted(t) \/ PosixLock(t)

TryLocal(t, n, from) ==
  /\ Step(t, from, IF lk.tail[n] = NULL THEN "trytop" ELSE "idle")
  /\ nd' = [nd EXCEPT ![t] = [next |-> NULL, status |-> WAIT, last_local |-> n]]
  /\ lk' = [lk EXCEPT !.tail[n] = IF @ = NULL THEN t ELSE @]
  /\ UNCHANGED loc

\* MUTANT: without the global lock, the local one is kept.
TryGlobal_KeepsLocal(t) ==
  /\ pc[t] = "trytop"
  /\ LET free == lk.tail[GLOBAL] = NULL
     IN  /\ Step(t, "trytop", IF free THEN "tryposix" ELSE "idle")
         /\ lk' = [lk EXCEPT !.tail[GLOBAL] = IF free THEN Local(t) ELSE @]
         /\ nd' = [nd EXCEPT ![t].status = COHORT_START, ![Local(t)].next = NULL,
                             ![Local(t)].status = Initially(GLOBAL)]
  /\ UNCHANGED loc

TryGlobal(t) ==
  /\ pc[t] = "trytop"
  /\ LET free == lk.tail[GLOBAL] = NULL
     IN  /\ Step(t, "trytop", IF free THEN "tryposix" ELSE "trycas")
         /\ lk' = [lk EXCEPT !.tail[GLOBAL] = IF free THEN Local(t) ELSE @]
         /\ nd' = [nd EXCEPT ![t].status = COHORT_START, ![Local(t)].next = NULL,
                             ![Local(t)].status = Initially(GLOBAL)]
  /\ UNCHANGED loc

\* Without the global lock, the local one is given back.
hmcs_mutex_trylock(t) ==
  \/ (\E n \in current_numa_node(t) : TryLocal(t, n, "idle")) \/ TryGlobal(t)
  \/ release_helper(t, Local(t), t, ACQUIRE_PARENT, Left(t), "trycas", "trydrop", "idle") \/ PosixTryLock(t)

\* keep_lock_local is random in hmcs.c, and the count only ever compared with
\* ACQUIRE_PARENT: it is not counted further than RELEASE_THRESHOLD.
CountPass(c) == IF c < RELEASE_THRESHOLD THEN c + 1 ELSE c

PassLocal(t) ==
  /\ nd[t].next # NULL
  /\ Step(t, "unlock", After(t))
  /\ nd' = [nd EXCEPT ![nd[t].next].status = CountPass(nd[t].status),
                     ![t] = Left(t)]
  /\ UNCHANGED <<lk, loc>>

hmcs_mutex_unlock(t) ==
  \/ PosixUnlock(t) \/ PassLocal(t) \/ Read(t, "unlock", "gcas")
  \/ release_helper(t, GLOBAL, Local(t), UNLOCKED, Left(Local(t)), "gcas", "gpass", "lcas")
  \/ release_helper(t, Local(t), t, ACQUIRE_PARENT, Left(t), "lcas", "lpass", After(t))

hmcs_cond_timedwait(t) == CondTimedwait(t)

hmcs(t) ==
  \/ CallLock(t) \/ hmcs_mutex_lock(t) \/ hmcs_mutex_trylock(t) \/ hmcs_mutex_unlock(t)
  \/ hmcs_cond_timedwait(t)
=============================================================================
