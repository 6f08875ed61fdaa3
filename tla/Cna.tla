--------------------------------- MODULE Cna ---------------------------------
(***************************************************************************)
(* cna.c: MCS whose holder passes the lock to a waiter on its own socket   *)
(* and keeps the waiters it skipped in a secondary queue.  The field spin  *)
(* of a node is 0 while it waits, then 1 or the head of the secondary      *)
(* queue, whose secTail is its last node.  Waiters spin.                   *)
(***************************************************************************)
EXTENDS LockApi

cna_mutex_create == lk = [tail |-> NULL]

\* Contexts are zeroed when the lock is made.
Fresh == [next |-> NULL, secTail |-> NULL, spin |-> 0, socket |-> 0]

Init ==
  /\ ApiInit /\ cna_mutex_create
  /\ nd = [t \in Threads |-> Fresh]
  /\ loc = [t \in Threads |-> NULL]

Enqueue(t) ==
  /\ Step(t, "lock", IF lk.tail = NULL THEN "posix" ELSE "link")
  /\ nd' = [nd EXCEPT ![t].next = NULL, ![t].spin = 0, ![t].socket = -1]
  /\ lk' = [lk EXCEPT !.tail = t]
  /\ loc' = [loc EXCEPT ![t] = lk.tail]

\* The socket is noted only by a thread that has to wait.
Link(t, socket) ==
  /\ pc[t] = "link"
  /\ Step(t, "link", "sleep")
  /\ nd' = [nd EXCEPT ![t].socket = socket, ![loc[t]].next = t]
  /\ loc' = [loc EXCEPT ![t] = NULL]
  /\ UNCHANGED lk

AwaitSpin(t) == nd[t].spin # 0 /\ Read(t, "sleep", "posix")

cna_mutex_lock(t) ==
  Enqueue(t) \/ (\E s \in current_numa_node(t) : Link(t, s)) \/ AwaitSpin(t) \/ PosixLock(t)

TryEnqueue(t) ==
  /\ Step(t, "idle", IF lk.tail = NULL THEN "tryposix" ELSE "idle")
  /\ nd' = [nd EXCEPT ![t].next = NULL, ![t].spin = 0]
  /\ lk' = [lk EXCEPT !.tail = IF @ = NULL THEN t ELSE @]
  /\ UNCHANGED loc

cna_mutex_trylock(t) == TryEnqueue(t) \/ PosixTryLock(t)

-----------------------------------------------------------------------------
HasSecondary(t) == nd[t].spin \in Threads

\* The threads linked behind t, up to the first next that is not set.
Queue(t) ==
  LET at[i \in 0..Cardinality(Threads)] ==
        IF i = 0 THEN t ELSE IF at[i - 1] = NULL THEN NULL ELSE nd[at[i - 1]].next
  IN  SelectSeq([i \in 1..Cardinality(Threads) |-> at[i]], LAMBDA v : v # NULL)

\* The place in q of the first waiter on a socket, 0 if there is none.
find_successor(q, socket) ==
  LET here == {i \in DOMAIN q : nd[q[i]].socket = socket}
  IN  IF here = {} THEN 0 ELSE CHOOSE i \in here : \A j \in here : i <= j

\* The k first threads of q go to the end of t's secondary queue, whose head is h.
Splice(t, q, k) ==
  LET h == IF HasSecondary(t) THEN nd[t].spin ELSE q[1]
      linked == IF HasSecondary(t) THEN [nd EXCEPT ![nd[h].secTail].next = q[1]] ELSE nd
  IN  [linked EXCEPT ![t].spin = h, ![q[k]].next = NULL, ![h].secTail = q[k]]

\* The last store of an unlock.  What it leaves in t's own node, other than the
\* socket, is read by nobody before it is set again, and not kept.
Release(t, from, new) ==
  /\ Step(t, from, After(t))
  /\ nd' = [new EXCEPT ![t] = [Fresh EXCEPT !.socket = nd[t].socket]]
  /\ UNCHANGED <<lk, loc>>

\* The lock stays on the socket; what lies between the holder and its successor
\* was waited for by nobody but the holder, and is stored before the last store.
PassLocal(t, socket) ==
  LET q == Queue(t)
      k == find_successor(q, socket)
      spliced == IF k = 1 THEN nd ELSE Splice(t, q, k - 1)
  IN  /\ k # 0
      /\ Release(t, "handover", [spliced EXCEPT ![q[k]].spin =
                       IF spliced[t].spin = 0 THEN 1 ELSE spliced[t].spin])

\* The secondary queue goes in front of the rest, or the next thread is granted.
PassRemote(t) ==
  IF HasSecondary(t)
  THEN Release(t, "handover", [nd EXCEPT ![nd[nd[t].spin].secTail].next = nd[t].next,
                             ![nd[t].spin].spin = 1])
  ELSE Release(t, "handover", [nd EXCEPT ![nd[t].next].spin = 1])

\* keep_lock_local is random.  A holder that did not wait reads its socket here.
Handover(t) ==
  /\ pc[t] = "handover"
  /\ \/ PassRemote(t)
     \/ \E s \in IF nd[t].socket = -1 THEN current_numa_node(t) ELSE {nd[t].socket} : PassLocal(t, s)

-----------------------------------------------------------------------------
CheckNext(t) ==
  Read(t, "unlock", IF nd[t].next = NULL THEN "castail" ELSE "handover")

\* Nobody in the queue: it is emptied, or the secondary queue becomes the queue.
CasTail(t) ==
  /\ pc[t] = "castail"
  /\ LET done == IF HasSecondary(t) THEN "grant" ELSE After(t)
         tail == IF HasSecondary(t) THEN nd[nd[t].spin].secTail ELSE NULL
     IN  /\ Step(t, "castail", IF lk.tail = t THEN done ELSE "awaitnext")
         /\ lk' = [lk EXCEPT !.tail = IF @ = t THEN tail ELSE @]
  /\ UNCHANGED <<nd, loc>>

GrantSecondary(t) ==
  pc[t] = "grant" /\ Release(t, "grant", [nd EXCEPT ![nd[t].spin].spin = 1])

AwaitNext(t) == nd[t].next # NULL /\ Read(t, "awaitnext", "handover")

cna_mutex_unlock(t) ==
  \/ PosixUnlock(t) \/ CheckNext(t) \/ CasTail(t) \/ GrantSecondary(t) \/ AwaitNext(t)
  \/ Handover(t)

cna_cond_timedwait(t) == CondTimedwait(t)

cna(t) ==
  \/ CallLock(t) \/ cna_mutex_lock(t) \/ cna_mutex_trylock(t) \/ cna_mutex_unlock(t)
  \/ cna_cond_timedwait(t)
=============================================================================
