-------------------------------- MODULE McsTp --------------------------------
(***************************************************************************)
(* mcstp.c: MCS whose waiters time out.  mutex_lock repeats the timed      *)
(* trylock until it succeeds; a waiter that has timed out keeps its place  *)
(* in the queue until an unlocker passes over it.  Clocks are left open: a *)
(* waiter may time out, and its time may look stale to the unlocker, at    *)
(* any moment, but for a bound: at most Patience of an unlock's scanned    *)
(* nodes are passed over before the waiters are patient again.             *)
(***************************************************************************)
EXTENDS LockApi

CONSTANTS MAX_THREADS_MCS_TP, Patience

mcs_tp_mutex_create == lk = [tail |-> NULL]

NoScan == [curr |-> NULL, succ |-> NULL, scanned |-> 0, last |-> NULL]

Init ==
  /\ ApiInit /\ mcs_tp_mutex_create
  /\ nd = [t \in Threads |-> [next |-> NULL, status |-> "INIT"]]
  /\ loc = [t \in Threads |-> NoScan]

Impatient == \A u \in Threads : loc[u].scanned < Patience

-----------------------------------------------------------------------------
Reclaim(t) ==
  /\ nd[t].status = "TIMED_OUT"
  /\ Step(t, "lock", "wait")
  /\ nd' = [nd EXCEPT ![t].status = "WAITING"]
  /\ UNCHANGED <<lk, loc>>

Enqueue(t) ==
  /\ nd[t].status # "TIMED_OUT"
  /\ Step(t, "lock", IF lk.tail = NULL THEN "posix" ELSE "link")
  /\ nd' = [nd EXCEPT ![t] = [next |-> NULL, status |-> "WAITING"]]
  /\ lk' = [lk EXCEPT !.tail = t]
  /\ loc' = [loc EXCEPT ![t].curr = lk.tail]

Link(t) ==
  /\ pc[t] = "link"
  /\ Step(t, "link", "wait")
  /\ nd' = [nd EXCEPT ![loc[t].curr].next = t]
  /\ loc' = [loc EXCEPT ![t] = NoScan]
  /\ UNCHANGED lk

Available(t) == nd[t].status = "AVAILABLE" /\ Read(t, "wait", "posix")

\* Passed over: EBUSY, and the next attempt starts afresh.
Overtaken(t) == nd[t].status = "FAILED" /\ Read(t, "wait", "lock")

TimeOut(t) ==
  /\ nd[t].status = "WAITING" /\ Impatient
  /\ Step(t, "wait", "lock")
  /\ nd' = [nd EXCEPT ![t].status = "TIMED_OUT"]
  /\ UNCHANGED <<lk, loc>>

mcs_tp_mutex_trylock(t) ==
  Reclaim(t) \/ Enqueue(t) \/ Link(t) \/ Available(t) \/ Overtaken(t) \/ TimeOut(t)

mcs_tp_mutex_lock(t) == mcs_tp_mutex_trylock(t) \/ PosixLock(t)

\* pthread_mutex_trylock; a call that fails leaves a node WAITING in no queue.
mcs_tp_mutex_trylock_oneshot(t) ==
  /\ Step(t, "idle", IF lk.tail = NULL THEN "tryposix" ELSE "idle")
  /\ nd' = [nd EXCEPT ![t] = [next |-> NULL, status |-> "WAITING"]]
  /\ lk' = [lk EXCEPT !.tail = IF @ = NULL THEN t ELSE @]
  /\ UNCHANGED loc

-----------------------------------------------------------------------------
(* The unlocker scans the queue from its own node for a thread that waits.   *)

ScanFrom(t, from, curr) ==
  /\ Step(t, from, IF nd[curr].next = NULL THEN "castail" ELSE "fail")
  /\ loc' = [loc EXCEPT ![t].curr = curr, ![t].succ = nd[curr].next]
  /\ UNCHANGED <<lk, nd>>

CasTail(t) ==
  /\ Step(t, "castail", IF lk.tail = loc[t].curr THEN "faillast" ELSE "awaitnext")
  /\ lk' = [lk EXCEPT !.tail = IF @ = loc[t].curr THEN NULL ELSE @]
  /\ UNCHANGED <<nd, loc>>

FailLast(t) ==
  /\ pc[t] = "faillast"
  /\ Step(t, "faillast", After(t))
  /\ nd' = [nd EXCEPT ![loc[t].curr].status = "FAILED"]
  /\ loc' = [loc EXCEPT ![t] = NoScan]
  /\ UNCHANGED lk

AwaitSucc(t) ==
  /\ pc[t] = "awaitnext" /\ nd[loc[t].curr].next # NULL
  /\ Step(t, "awaitnext", "fail")
  /\ loc' = [loc EXCEPT ![t].succ = nd[loc[t].curr].next]
  /\ UNCHANGED <<lk, nd>>

\* After MAX_THREADS_MCS_TP nodes the scan may be following threads that come
\* back: from there on the nodes are failed when it is over.
FailCurr(t) ==
  /\ pc[t] = "fail"
  /\ Step(t, "fail", "grant")
  /\ LET l == loc[t]
         many == l.scanned + 1 >= MAX_THREADS_MCS_TP
     IN  /\ nd' = IF many THEN nd ELSE [nd EXCEPT ![l.curr].status = "FAILED"]
         /\ loc' = [loc EXCEPT ![t].last = IF many /\ @ = NULL THEN l.curr ELSE @,
                               ![t].scanned = IF many THEN @ ELSE @ + 1]
  /\ UNCHANGED lk

MakeAvailable(t) ==
  /\ pc[t] = "grant" /\ nd[loc[t].succ].status = "WAITING"
  /\ LET over == loc[t].last \in {NULL, loc[t].curr}
     IN  /\ Step(t, "grant", IF over THEN After(t) ELSE "failrest")
         /\ loc' = [loc EXCEPT ![t] = IF over THEN NoScan ELSE @]
  /\ nd' = [nd EXCEPT ![loc[t].succ].status = "AVAILABLE"]
  /\ UNCHANGED lk

\* A successor that has timed out, or whose time is stale.
PassOver(t) ==
  /\ pc[t] = "grant"
  /\ nd[loc[t].succ].status # "WAITING" \/ Impatient
  /\ Step(t, "grant", "scan")
  /\ loc' = [loc EXCEPT ![t].curr = loc[t].succ]
  /\ UNCHANGED <<lk, nd>>

FailRest(t) ==
  /\ pc[t] = "failrest"
  /\ Step(t, "failrest", "failnext")
  /\ nd' = [nd EXCEPT ![loc[t].last].status = "FAILED"]
  /\ UNCHANGED <<lk, loc>>

FailNext(t) ==
  /\ pc[t] = "failnext"
  /\ LET next == nd[loc[t].last].next
         over == next \in {NULL, loc[t].curr}
     IN  /\ Step(t, "failnext", IF over THEN After(t) ELSE "failrest")
         /\ loc' = [loc EXCEPT ![t] = IF over THEN NoScan ELSE [@ EXCEPT !.last = next]]
  /\ UNCHANGED <<lk, nd>>

mcs_tp_mutex_unlock(t) ==
  \/ PosixUnlock(t) \/ ScanFrom(t, "unlock", t) \/ CasTail(t) \/ FailLast(t) \/ AwaitSucc(t)
  \/ (pc[t] = "scan" /\ ScanFrom(t, "scan", loc[t].curr))
  \/ FailCurr(t) \/ MakeAvailable(t) \/ PassOver(t) \/ FailRest(t) \/ FailNext(t)

mcs_tp_cond_timedwait(t) == CondTimedwait(t)

mcstp(t) ==
  \/ CallLock(t) \/ mcs_tp_mutex_lock(t) \/ mcs_tp_mutex_trylock_oneshot(t) \/ PosixTryLock(t)
  \/ mcs_tp_mutex_unlock(t) \/ mcs_tp_cond_timedwait(t)
=============================================================================
