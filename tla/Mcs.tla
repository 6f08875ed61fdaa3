--------------------------------- MODULE Mcs ---------------------------------
(* The MCS queue locks: mcs.c, over a waiting policy, and its EPFL copy      *)
(* mcsepfl.c, which spins.  A node is named by the thread it belongs to.     *)
EXTENDS Waiting

mcs_mutex_create == lk = [tail |-> NULL]

Init ==
  /\ ApiInit /\ mcs_mutex_create
  /\ nd = [t \in Threads |-> [next |-> NULL, spin |-> LOCKED]]
  /\ loc = [t \in Threads |-> NULL]

\* The node is reset, and swapped in as the tail; loc[t] is the old tail.
Enqueue(t) ==
  /\ Step(t, "lock", IF lk.tail = NULL THEN "posix" ELSE "link")
  /\ nd' = [nd EXCEPT ![t] = [next |-> NULL, spin |-> LOCKED]]
  /\ lk' = [lk EXCEPT !.tail = t]
  /\ loc' = [loc EXCEPT ![t] = lk.tail]

Link(t) ==
  /\ Step(t, "link", "sleep")
  /\ nd' = [nd EXCEPT ![loc[t]].next = t]
  /\ loc' = [loc EXCEPT ![t] = NULL]
  /\ UNCHANGED lk

mcs_mutex_lock(t) ==
  Enqueue(t) \/ Link(t) \/ waiting_policy_sleep(t, t, "posix") \/ PosixLock(t)

\* A compare-and-swap of an empty tail; a call that fails leaves a reset node.
TryEnqueue(t) ==
  /\ Step(t, "idle", IF lk.tail = NULL THEN "tryposix" ELSE "idle")
  /\ nd' = [nd EXCEPT ![t] = [next |-> NULL, spin |-> LOCKED]]
  /\ lk' = [lk EXCEPT !.tail = IF @ = NULL THEN t ELSE @]
  /\ UNCHANGED loc

mcs_mutex_trylock(t) == TryEnqueue(t) \/ PosixTryLock(t)

CheckNext(t) ==
  Read(t, "unlock", IF nd[t].next = NULL THEN "castail" ELSE "handover")

CasTail(t) ==
  /\ Step(t, "castail", IF lk.tail = t THEN After(t) ELSE "awaitnext")
  /\ lk' = [lk EXCEPT !.tail = IF @ = t THEN NULL ELSE @]
  /\ UNCHANGED <<nd, loc>>

AwaitNext(t) == nd[t].next # NULL /\ Read(t, "awaitnext", "handover")

mcs_mutex_unlock(t) ==
  \/ PosixUnlock(t) \/ CheckNext(t) \/ CasTail(t) \/ AwaitNext(t)
  \/ waiting_policy_wake(t, nd[t].next, Own, "handover", "futexwake", After(t))

mcs_cond_timedwait(t) == CondTimedwait(t)
mcs_cond_signal(t) == CondSignal(t)
mcs_cond_broadcast(t) == CondBroadcast(t)

mcs(t) ==
  \/ CallLock(t) \/ mcs_mutex_lock(t) \/ mcs_mutex_trylock(t) \/ mcs_mutex_unlock(t)
  \/ mcs_cond_timedwait(t) \/ mcs_cond_signal(t) \/ mcs_cond_broadcast(t)

-----------------------------------------------------------------------------
(* mcsepfl.c: the node is marked LOCKED after it is enqueued, before it is   *)
(* linked, and the waiter spins.                                             *)

EpflEnqueue(t) ==
  /\ Step(t, "lock", IF lk.tail = NULL THEN "posix" ELSE "mark")
  /\ nd' = [nd EXCEPT ![t].next = NULL]
  /\ lk' = [lk EXCEPT !.tail = t]
  /\ loc' = [loc EXCEPT ![t] = lk.tail]

EpflMark(t) ==
  /\ Step(t, "mark", "link")
  /\ nd' = [nd EXCEPT ![t].spin = LOCKED]
  /\ UNCHANGED <<lk, loc>>

mcsepfl_mutex_lock(t) ==
  EpflEnqueue(t) \/ EpflMark(t) \/ Link(t) \/ Spinning(t, t, "posix") \/ PosixLock(t)

EpflTryEnqueue(t) ==
  /\ Step(t, "idle", IF lk.tail = NULL THEN "tryposix" ELSE "idle")
  /\ nd' = [nd EXCEPT ![t].next = NULL]
  /\ lk' = [lk EXCEPT !.tail = IF @ = NULL THEN t ELSE @]
  /\ UNCHANGED loc

mcsepfl_mutex_trylock(t) == EpflTryEnqueue(t) \/ PosixTryLock(t)

mcsepfl_mutex_unlock(t) ==
  \/ PosixUnlock(t) \/ CheckNext(t) \/ CasTail(t) \/ AwaitNext(t)
  \/ WakeStore(t, nd[t].next, "handover", "futexwake", After(t))

mcsepfl_cond_timedwait(t) == CondTimedwait(t)
mcsepfl_cond_signal(t) == CondSignal(t)
mcsepfl_cond_broadcast(t) == CondBroadcast(t)

mcsepfl(t) ==
  \/ CallLock(t) \/ mcsepfl_mutex_lock(t) \/ mcsepfl_mutex_trylock(t)
  \/ mcsepfl_mutex_unlock(t) \/ mcsepfl_cond_timedwait(t)
  \/ mcsepfl_cond_signal(t) \/ mcsepfl_cond_broadcast(t)
=============================================================================
