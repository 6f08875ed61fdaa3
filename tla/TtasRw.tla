------------------------------- MODULE TtasRw -------------------------------
(***************************************************************************)
(* ttasrw.c, the reader-writer lock: lock_data counts the readers in its   *)
(* low byte and has W_MASK for a writer.  Under it is the real             *)
(* reader-writer lock, which lk.rd and lk.wr stand for.                    *)
(***************************************************************************)
EXTENDS LockApi

CONSTANT MAX_RW   \* the greatest rw_data_t, in the code 255

W_MASK == MAX_RW + 1
Word == W_MASK * W_MASK   \* all_data_t has twice the bits of rw_data_t

ttasrw_rwlock_create == lk = [lock_data |-> 0, rd |-> {}, wr |-> NULL]

Init == ApiInit /\ ttasrw_rwlock_create /\ nd = NULL /\ loc = [t \in Threads |-> NULL]

\* aux is a rw_data_t: what it is compared with MAX_RW for has been cut off, and
\* it is the compare-and-swap that keeps readers out.
ReadData(t, from, to) ==
  /\ Step(t, from, to)
  /\ loc' = [loc EXCEPT ![t] = lk.lock_data % W_MASK]
  /\ UNCHANGED <<lk, nd>>

RdCas(t, from, to, again) ==
  /\ Step(t, from, IF lk.lock_data = loc[t] THEN to ELSE again)
  /\ lk' = [lk EXCEPT !.lock_data = IF @ = loc[t] THEN @ + 1 ELSE @]
  /\ loc' = [loc EXCEPT ![t] = NULL]
  /\ UNCHANGED nd

WrCas(t, from, to, again) ==
  /\ Step(t, from, IF lk.lock_data = 0 THEN to ELSE again)
  /\ lk' = [lk EXCEPT !.lock_data = IF @ = 0 THEN W_MASK ELSE @]
  /\ UNCHANGED <<nd, loc>>

RealRdlock(t, from) ==
  /\ lk.wr = NULL
  /\ Step(t, from, "rd")
  /\ lk' = [lk EXCEPT !.rd = @ \cup {t}]
  /\ UNCHANGED <<nd, loc>>

RealWrlock(t, from) ==
  /\ lk.wr = NULL /\ lk.rd = {}
  /\ Step(t, from, "wr")
  /\ lk' = [lk EXCEPT !.wr = t]
  /\ UNCHANGED <<nd, loc>>

ttasrw_rwlock_rdlock(t) ==
  ReadData(t, "rdlock", "rdcas") \/ RdCas(t, "rdcas", "rdposix", "rdlock") \/ RealRdlock(t, "rdposix")

ttasrw_rwlock_wrlock(t) ==
  \/ lk.lock_data = 0 /\ Read(t, "lock", "wrcas")
  \/ WrCas(t, "wrcas", "wrposix", "lock") \/ RealWrlock(t, "wrposix")

ttasrw_rwlock_tryrdlock(t) ==
  ReadData(t, "idle", "trycas") \/ RdCas(t, "trycas", "rdtryposix", "idle") \/ RealRdlock(t, "rdtryposix")

ttasrw_rwlock_trywrlock(t) == WrCas(t, "idle", "wrtryposix", "idle") \/ RealWrlock(t, "wrtryposix")

RealUnlock(t, from, to) ==
  /\ Step(t, from, to)
  /\ lk' = [lk EXCEPT !.rd = @ \ {t}, !.wr = IF @ = t THEN NULL ELSE @]
  /\ UNCHANGED <<nd, loc>>

\* Whether a writer or a reader has called is read from lock_data ...
Dispatch(t, from, to) ==
  /\ Step(t, from, to)
  /\ loc' = [loc EXCEPT ![t] = lk.lock_data > MAX_RW]
  /\ UNCHANGED <<lk, nd>>

\* ... __ttasrw_rwlock_wrunlock or __ttasrw_rwlock_rdunlock.
Release(t, from) ==
  /\ pc[t] = from
  /\ Step(t, from, "idle")
  /\ lk' = [lk EXCEPT !.lock_data = IF loc[t] THEN 0 ELSE (@ + Word - 1) % Word]
  /\ loc' = [loc EXCEPT ![t] = NULL]
  /\ UNCHANGED nd

ttasrw_rwlock_unlock(t) ==
  \/ RealUnlock(t, "rd", "rdunlock") \/ Dispatch(t, "rdunlock", "rdrelease") \/ Release(t, "rdrelease")
  \/ RealUnlock(t, "wr", "wrunlock") \/ Dispatch(t, "wrunlock", "wrrelease") \/ Release(t, "wrrelease")

ttasrw(t) ==
  \/ CallLock(t) \/ Read(t, "idle", "rdlock")
  \/ ttasrw_rwlock_rdlock(t) \/ ttasrw_rwlock_wrlock(t) \/ ttasrw_rwlock_tryrdlock(t)
  \/ ttasrw_rwlock_trywrlock(t) \/ ttasrw_rwlock_unlock(t)
=============================================================================
