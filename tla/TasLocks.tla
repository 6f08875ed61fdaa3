------------------------------ MODULE TasLocks ------------------------------
(***************************************************************************)
(* The locks on one word: spinlock.c (compare-and-swap), spinlockepfl.c    *)
(* (test-and-set), ttas.c, ttasepfl.c and backoff.c (test, then            *)
(* test-and-set; the last two only differ in how long they pause, which    *)
(* the model leaves open).  The test-and-set stores 0xff, TAKEN.           *)
(***************************************************************************)
EXTENDS LockApi

TAKEN == 255

spinlock_mutex_create == lk = [spin_lock |-> UNLOCKED]

Init ==
  /\ ApiInit /\ spinlock_mutex_create
  /\ nd = [t \in Threads |-> NULL]
  /\ loc = [t \in Threads |-> NULL]

SetLock(v) == lk' = [lk EXCEPT !.spin_lock = v] /\ UNCHANGED <<nd, loc>>

\* The compare-and-swap or test-and-set that succeeds; one that fails changes
\* nothing, and is tried again or reported as EBUSY.
AtomicTake(t, from, v, to) ==
  /\ lk.spin_lock = UNLOCKED
  /\ Step(t, from, to) /\ SetLock(v)

ReadFree(t) == lk.spin_lock = UNLOCKED /\ Read(t, "lock", "tas")

\* The test-and-set after a read, which may have become too late.
TestAndSet(t) ==
  /\ Step(t, "tas", IF lk.spin_lock = UNLOCKED THEN "posix" ELSE "lock")
  /\ SetLock(TAKEN)

Release(t) == Step(t, "unlock", After(t)) /\ SetLock(UNLOCKED)

-----------------------------------------------------------------------------
spinlock_mutex_lock(t) == AtomicTake(t, "lock", LOCKED, "posix") \/ PosixLock(t)

spinlock_mutex_trylock(t) == AtomicTake(t, "idle", LOCKED, "tryposix") \/ PosixTryLock(t)

CasRelease(t) ==
  /\ Step(t, "unlock", After(t))
  /\ SetLock(IF lk.spin_lock = LOCKED THEN UNLOCKED ELSE lk.spin_lock)

spinlock_mutex_unlock(t) == PosixUnlock(t) \/ CasRelease(t)
spinlock_cond_timedwait(t) == CondTimedwait(t)
spinlock_cond_signal(t) == CondSignal(t)
spinlock_cond_broadcast(t) == CondBroadcast(t)

spinlock(t) ==
  \/ CallLock(t) \/ spinlock_mutex_lock(t) \/ spinlock_mutex_trylock(t)
  \/ spinlock_mutex_unlock(t) \/ spinlock_cond_timedwait(t)
  \/ spinlock_cond_signal(t) \/ spinlock_cond_broadcast(t)

-----------------------------------------------------------------------------
spinlockepfl_mutex_lock(t) == AtomicTake(t, "lock", TAKEN, "posix") \/ PosixLock(t)
spinlockepfl_mutex_trylock(t) == AtomicTake(t, "idle", TAKEN, "tryposix") \/ PosixTryLock(t)
spinlockepfl_mutex_unlock(t) == PosixUnlock(t) \/ Release(t)
spinlockepfl_cond_timedwait(t) == CondTimedwait(t)

spinlockepfl(t) ==
  \/ CallLock(t) \/ spinlockepfl_mutex_lock(t) \/ spinlockepfl_mutex_trylock(t)
  \/ spinlockepfl_mutex_unlock(t) \/ spinlockepfl_cond_timedwait(t)

-----------------------------------------------------------------------------
ttas_mutex_lock(t) == ReadFree(t) \/ TestAndSet(t) \/ PosixLock(t)
ttas_mutex_trylock(t) == AtomicTake(t, "idle", TAKEN, "tryposix") \/ PosixTryLock(t)
ttas_mutex_unlock(t) == PosixUnlock(t) \/ Release(t)
ttas_cond_timedwait(t) == CondTimedwait(t)

ttas(t) ==
  \/ CallLock(t) \/ ttas_mutex_lock(t) \/ ttas_mutex_trylock(t)
  \/ ttas_mutex_unlock(t) \/ ttas_cond_timedwait(t)

-----------------------------------------------------------------------------
ttasepfl_mutex_lock(t) == ReadFree(t) \/ TestAndSet(t) \/ PosixLock(t)
ttasepfl_mutex_trylock(t) == AtomicTake(t, "idle", TAKEN, "tryposix") \/ PosixTryLock(t)
ttasepfl_mutex_unlock(t) == PosixUnlock(t) \/ Release(t)
ttasepfl_cond_timedwait(t) == CondTimedwait(t)

ttasepfl(t) ==
  \/ CallLock(t) \/ ttasepfl_mutex_lock(t) \/ ttasepfl_mutex_trylock(t)
  \/ ttasepfl_mutex_unlock(t) \/ ttasepfl_cond_timedwait(t)

-----------------------------------------------------------------------------
backoff_mutex_lock(t) == ReadFree(t) \/ TestAndSet(t) \/ PosixLock(t)
backoff_mutex_trylock(t) == AtomicTake(t, "idle", TAKEN, "tryposix") \/ PosixTryLock(t)
backoff_mutex_unlock(t) == PosixUnlock(t) \/ Release(t)
backoff_cond_timedwait(t) == CondTimedwait(t)

backoff(t) ==
  \/ CallLock(t) \/ backoff_mutex_lock(t) \/ backoff_mutex_trylock(t)
  \/ backoff_mutex_unlock(t) \/ backoff_cond_timedwait(t)
=============================================================================
