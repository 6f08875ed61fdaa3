----------------------------- MODULE Malthusian -----------------------------
(***************************************************************************)
(* malthusian.c: MCS with a passive set, a list of waiters that the holder *)
(* has taken out of the queue.  lk.passive is that list, front first (its  *)
(* prev fields); the next fields of its nodes are kept as the code has     *)
(* them.  Only the holder touches it.                                      *)
(***************************************************************************)
EXTENDS Mcs

malthusian_mutex_create == lk = [tail |-> NULL, passive |-> <<>>]

InitMalthusian ==
  /\ ApiInit /\ malthusian_mutex_create
  /\ nd = [t \in Threads |-> [next |-> NULL, spin |-> LOCKED]]
  /\ loc = [t \in Threads |-> NULL]

malthusian_mutex_lock(t) ==
  Enqueue(t) \/ Link(t) \/ waiting_policy_sleep(t, t, "posix") \/ PosixLock(t)

malthusian_mutex_trylock(t) == TryEnqueue(t) \/ PosixTryLock(t)

-----------------------------------------------------------------------------
Last(s) == s[Len(s)]

\* The element taken out is loc[t]; the new last one has no next.
passive_set_pop_back(t) ==
  LET rest == SubSeq(lk.passive, 1, Len(lk.passive) - 1)
      ends == {Last(lk.passive)} \cup (IF rest = <<>> THEN {} ELSE {Last(rest)})
  IN  /\ lk.passive # <<>>
      /\ lk' = [lk EXCEPT !.passive = rest]
      /\ nd' = [v \in Threads |-> IF v \in ends THEN [nd[v] EXCEPT !.next = NULL] ELSE nd[v]]
      /\ loc' = [loc EXCEPT ![t] = Last(lk.passive)]

passive_set_pop_front(t) ==
  /\ lk.passive # <<>>
  /\ lk' = [lk EXCEPT !.passive = Tail(@)]
  /\ nd' = [nd EXCEPT ![Head(lk.passive)].next = NULL]
  /\ loc' = [loc EXCEPT ![t] = Head(lk.passive)]

\* The node v in front of the passive set, in a step that also sets t's next.
passive_set_push_front(t, v, next) ==
  /\ lk' = [lk EXCEPT !.passive = <<v>> \o @]
  /\ nd' = [nd EXCEPT ![v].next = IF lk.passive = <<>> THEN NULL ELSE Head(lk.passive),
                      ![t].next = next]
  /\ UNCHANGED loc

-----------------------------------------------------------------------------
\* Now and then the longest passive waiter is made the successor.
PickBack(t) == Step(t, "unlock", "graft") /\ passive_set_pop_back(t)

\* Nobody is queued: a passive waiter is reactivated.
PickFront(t) == nd[t].next = NULL /\ Step(t, "unlock", "graft") /\ passive_set_pop_front(t)

NobodyWaits(t) == nd[t].next = NULL /\ lk.passive = <<>> /\ Read(t, "unlock", "castail")

\* A successor that is not the last in the queue is surplus.
HasNext(t) ==
  /\ nd[t].next # NULL
  /\ Read(t, "unlock", IF nd[t].next # lk.tail THEN "cull" ELSE "handover")

\* It is moved to the passive set once the node behind it is linked.
Cull(t) ==
  /\ pc[t] = "cull" /\ nd[nd[t].next].next # NULL
  /\ Step(t, "cull", "handover")
  /\ passive_set_push_front(t, nd[t].next, nd[nd[t].next].next)

\* __malthusian_insert_at_head: loc[t] goes right behind the holder, at the end
\* of the queue ...
GraftTail(t) ==
  /\ Step(t, "graft", IF lk.tail = t THEN "graftlink" ELSE "graftwait")
  /\ lk' = [lk EXCEPT !.tail = IF @ = t THEN loc[t] ELSE @]
  /\ UNCHANGED <<nd, loc>>

GraftLink(t) ==
  /\ Step(t, "graftlink", "handover")
  /\ nd' = [nd EXCEPT ![t].next = loc[t]]
  /\ loc' = [loc EXCEPT ![t] = NULL]
  /\ UNCHANGED lk

\* ... or in front of the threads that came in the meantime.
GraftBefore(t) ==
  /\ nd[t].next # NULL
  /\ Step(t, "graftwait", "handover")
  /\ nd' = [nd EXCEPT ![loc[t]].next = nd[t].next, ![t].next = loc[t]]
  /\ loc' = [loc EXCEPT ![t] = NULL]
  /\ UNCHANGED lk

malthusian_mutex_unlock(t) ==
  \/ PosixUnlock(t) \/ PickBack(t) \/ PickFront(t) \/ NobodyWaits(t) \/ HasNext(t) \/ Cull(t)
  \/ GraftTail(t) \/ GraftLink(t) \/ GraftBefore(t) \/ CasTail(t) \/ AwaitNext(t)
  \/ waiting_policy_wake(t, nd[t].next, Own, "handover", "futexwake", After(t))

malthusian_cond_timedwait(t) == CondTimedwait(t)

malthusian(t) ==
  \/ CallLock(t) \/ malthusian_mutex_lock(t) \/ malthusian_mutex_trylock(t)
  \/ malthusian_mutex_unlock(t) \/ malthusian_cond_timedwait(t)
=============================================================================
