--------------------------------- MODULE Clh ---------------------------------
(***************************************************************************)
(* The CLH queue locks: clh.c, over a waiting policy, and clhepfl.c, which *)
(* spins.  A thread waits on its predecessor's node and keeps that node    *)
(* for its next call.  A node is named by the thread whose context it was  *)
(* first; NULL names the dummy of the lock.  lk.current is the field       *)
(* current of the contexts.  trylock is an assertion failure in both.      *)
(***************************************************************************)
EXTENDS Waiting

clh_mutex_create == [head |-> NULL, tail |-> NULL]

clh_init_context == [t \in Threads |-> t]

Init ==
  /\ ApiInit
  /\ lk = [head |-> clh_mutex_create.head, tail |-> clh_mutex_create.tail,
           current |-> clh_init_context]
  /\ nd = [n \in Threads \cup {NULL} |-> [spin |-> UNLOCKED]]
  /\ loc = [t \in Threads |-> NULL]

Enqueue(t) ==
  /\ Step(t, "lock", "sleep")
  /\ nd' = [nd EXCEPT ![lk.current[t]].spin = LOCKED]
  /\ lk' = [lk EXCEPT !.tail = lk.current[t]]
  /\ loc' = [loc EXCEPT ![t] = lk.tail]

\* The lock is held: the node becomes the head, and the predecessor's is kept.
TakeNode(t) ==
  /\ Step(t, "enter", "posix")
  /\ lk' = [lk EXCEPT !.head = lk.current[t], !.current[t] = loc[t]]
  /\ loc' = [loc EXCEPT ![t] = NULL]
  /\ UNCHANGED nd

clh_mutex_lock(t) ==
  \/ Enqueue(t) \/ waiting_policy_sleep(t, loc[t], "enter") \/ TakeNode(t)
  \/ PosixLock(t)

ReadHead(t) == Read(t, "unlock", "handover")

clh_mutex_unlock(t) ==
  \/ PosixUnlock(t) \/ ReadHead(t)
  \/ waiting_policy_wake(t, lk.head, loc, "handover", "futexwake", After(t))

clh_cond_timedwait(t) == CondTimedwait(t)

clh(t) ==
  CallLock(t) \/ clh_mutex_lock(t) \/ clh_mutex_unlock(t) \/ clh_cond_timedwait(t)

-----------------------------------------------------------------------------
clhepfl_mutex_lock(t) ==
  Enqueue(t) \/ Spinning(t, loc[t], "enter") \/ TakeNode(t) \/ PosixLock(t)

clhepfl_mutex_unlock(t) ==
  PosixUnlock(t) \/ ReadHead(t) \/ WakeStore(t, lk.head, "handover", "futexwake", After(t))

clhepfl_cond_timedwait(t) == CondTimedwait(t)

clhepfl(t) ==
  \/ CallLock(t) \/ clhepfl_mutex_lock(t) \/ clhepfl_mutex_unlock(t)
  \/ clhepfl_cond_timedwait(t)
=============================================================================
