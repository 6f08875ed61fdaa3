------------------------------- MODULE Mutexee -------------------------------
(***************************************************************************)
(* mutexee.c over mutexee_in.h (MUTEXEE_FAIR off): a word of two bytes,    *)
(* locked and contended, and a futex on it.  How long a thread spins       *)
(* before it sleeps or wakes another one, and the statistics that tune     *)
(* it (mutexee_lock_training), are left open.                              *)
(***************************************************************************)
EXTENDS LockApi

mutexee_init == lk = [locked |-> 0, contended |-> 0]

Init ==
  /\ ApiInit /\ mutexee_init
  /\ nd = [t \in Threads |-> NULL]
  /\ loc = [t \in Threads |-> NULL]

Store(new) == lk' = new /\ UNCHANGED <<nd, loc>>

Held == [locked |-> 1, contended |-> 1]   \* 257

\* A swap of the byte locked that finds 0; one that finds 1 changes nothing.
SwapLocked(t, from, to) ==
  /\ lk.locked = 0
  /\ Step(t, from, to) /\ Store([lk EXCEPT !.locked = 1])

SpinOver(t) == lk.locked = 1 /\ Read(t, "lock", "swap")

SwapHeld(t) == Step(t, "swap", IF lk.locked = 0 THEN "posix" ELSE "futex") /\ Store(Held)

FutexWait(t) == Read(t, "futex", IF lk = Held THEN "asleep" ELSE "swap")

Interrupt(t) == Read(t, "asleep", "swap")

mutexee_lock(t) ==
  SwapLocked(t, "lock", "posix") \/ SpinOver(t) \/ SwapHeld(t) \/ FutexWait(t) \/ Interrupt(t)

mutexee_mutex_lock(t) == mutexee_lock(t) \/ PosixLock(t)

mutexee_mutex_trylock(t) == SwapLocked(t, "idle", "tryposix") \/ PosixTryLock(t)

-----------------------------------------------------------------------------
\* The compare-and-swap of 1 by 0: nobody sleeps.
Uncontended(t) ==
  LET alone == lk = [locked |-> 1, contended |-> 0]
  IN  /\ Step(t, "unlock", IF alone THEN After(t) ELSE "release")
      /\ Store(IF alone THEN [lk EXCEPT !.locked = 0] ELSE lk)

Release(t) == Step(t, "release", "check") /\ Store([lk EXCEPT !.locked = 0])

\* Somebody else has it already, and will wake the sleepers: read twice, with a
\* delay in between.
CheckTaken(t) ==
  \/ Read(t, "check", IF lk.locked = 1 THEN After(t) ELSE "recheck")
  \/ Read(t, "recheck", IF lk.locked = 1 THEN After(t) ELSE "clear")

ClearContended(t) == Step(t, "clear", "futexwake") /\ Store([lk EXCEPT !.contended = 0])

\* MUTANT: the thread that clears contended returns without waking a sleeper.
FutexWake_None(t) == Read(t, "futexwake", After(t))

FutexWake(t) ==
  /\ pc[t] = "futexwake"
  /\ LET sleepers == {u \in Threads : pc[u] = "asleep"}
     IN  \/ \E u \in sleepers : pc' = [pc EXCEPT ![t] = After(t), ![u] = "swap"]
         \/ sleepers = {} /\ pc' = [pc EXCEPT ![t] = After(t)]
  /\ UNCHANGED <<mem, posix_lock, inWait>>

mutexee_unlock(t) ==
  Uncontended(t) \/ Release(t) \/ CheckTaken(t) \/ ClearContended(t) \/ FutexWake(t)

mutexee_mutex_unlock(t) == PosixUnlock(t) \/ mutexee_unlock(t)

mutexee_cond_timedwait(t) == CondTimedwait(t)

mutexee(t) ==
  \/ CallLock(t) \/ mutexee_mutex_lock(t) \/ mutexee_mutex_trylock(t)
  \/ mutexee_mutex_unlock(t) \/ mutexee_cond_timedwait(t)
=============================================================================
