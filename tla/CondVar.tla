------------------------------- MODULE CondVar -------------------------------
(***************************************************************************)
(* The condition-variable support that every lock of ulocks is wrapped in  *)
(* (COND_VAR; lines of aqs.c): a second, real pthread mutex is taken       *)
(* inside the optimised lock, so that the real pthread_cond_wait has a     *)
(* mutex to release.  The optimised lock is what its algorithm promises, a *)
(* lock that one thread holds at a time, in no particular order; the real  *)
(* pthread primitives are external, and their condition waits may end by a *)
(* signal, a broadcast, a timeout or spuriously.                           *)
(***************************************************************************)
CONSTANTS
  Threads,      \* the threads that use the mutex and the condition variable
  NULL          \* nobody

ASSUME CondVarAssumption == NULL \notin Threads

VARIABLES
  opt,          \* the holder of the optimised lock
  posix_lock,   \* the holder of the real mutex
  pc,           \* the threads' program counters
  inWait        \* the threads inside cond_timedwait

vars == <<opt, posix_lock, pc, inWait>>

\* "waiting" and "woken" are inside the real pthread_cond_timedwait.
Pcs == {"idle", "lock", "posix", "tryposix", "cs", "optunlock",
        "condwait", "waiting", "woken", "unwait"}

Goto(t, l) == pc' = [pc EXCEPT ![t] = l]

Init ==
  /\ opt = NULL
  /\ posix_lock = NULL
  /\ pc = [t \in Threads |-> "idle"]
  /\ inWait = {}

-----------------------------------------------------------------------------
(* aqs_mutex_lock *)

CallLock(t) ==
  /\ pc[t] = "idle"
  /\ Goto(t, "lock")
  /\ UNCHANGED <<opt, posix_lock, inWait>>

\* __aqs_mutex_lock
OptLock(t) ==
  /\ pc[t] = "lock"
  /\ opt = NULL
  /\ opt' = t
  /\ Goto(t, "posix")
  /\ UNCHANGED <<posix_lock, inWait>>

\* REAL(pthread_mutex_lock); the call returns, or the cond_timedwait that
\* made it does.
PosixLock(t) ==
  /\ pc[t] = "posix"
  /\ posix_lock = NULL
  /\ posix_lock' = t
  /\ inWait' = inWait \ {t}
  /\ Goto(t, "cs")
  /\ UNCHANGED opt

-----------------------------------------------------------------------------
(* aqs_mutex_trylock *)

\* The optimised lock is free; a call that finds it taken (EBUSY) changes
\* nothing.
TryLock(t) ==
  /\ pc[t] = "idle"
  /\ opt = NULL
  /\ opt' = t
  /\ Goto(t, "tryposix")
  /\ UNCHANGED <<posix_lock, inWait>>

\* MUTANT: the loop gives up when the posix lock is busy.
PosixTryLock_NoLoop(t) ==
  /\ pc[t] = "tryposix"
  /\ posix_lock' = IF posix_lock = NULL THEN t ELSE posix_lock
  /\ Goto(t, "cs")
  /\ UNCHANGED <<opt, inWait>>

\* while (REAL(pthread_mutex_trylock) == EBUSY): the attempt that succeeds.
PosixTryLock(t) ==
  /\ pc[t] = "tryposix"
  /\ posix_lock = NULL
  /\ posix_lock' = t
  /\ Goto(t, "cs")
  /\ UNCHANGED <<opt, inWait>>

-----------------------------------------------------------------------------
(* aqs_mutex_unlock *)

PosixUnlock(t) ==
  /\ pc[t] = "cs"
  /\ posix_lock' = NULL
  /\ Goto(t, "optunlock")
  /\ UNCHANGED <<opt, inWait>>

\* __aqs_mutex_unlock
OptUnlock(t) ==
  /\ pc[t] = "optunlock"
  /\ opt' = NULL
  /\ Goto(t, "idle")
  /\ UNCHANGED <<posix_lock, inWait>>

-----------------------------------------------------------------------------
(* aqs_cond_timedwait and aqs_cond_wait *)

\* MUTANT: both locks are released before the real wait.
WaitOptUnlock_Both(t) ==
  /\ pc[t] = "cs"
  /\ opt' = NULL
  /\ posix_lock' = NULL
  /\ inWait' = inWait \cup {t}
  /\ Goto(t, "condwait")

\* __aqs_mutex_unlock: others may take the optimised lock from here on.
WaitOptUnlock(t) ==
  /\ pc[t] = "cs"
  /\ opt' = NULL
  /\ inWait' = inWait \cup {t}
  /\ Goto(t, "condwait")
  /\ UNCHANGED posix_lock

\* REAL(pthread_cond_timedwait): atomically releases the real mutex and waits.
RealWait(t) ==
  /\ pc[t] = "condwait"
  /\ posix_lock' = NULL
  /\ Goto(t, "waiting")
  /\ UNCHANGED <<opt, inWait>>

\* The wait is over: ETIMEDOUT, a signal, or a spurious wake-up ...
RealWake(t) ==
  /\ pc[t] = "waiting"
  /\ Goto(t, "woken")
  /\ UNCHANGED <<opt, posix_lock, inWait>>

\* ... and the real mutex is taken again, without the optimised lock.
RealReturn(t) ==
  /\ pc[t] = "woken"
  /\ posix_lock = NULL
  /\ posix_lock' = t
  /\ Goto(t, "unwait")
  /\ UNCHANGED <<opt, inWait>>

\* MUTANT: the real mutex is kept while aqs_mutex_lock is called.
WaitPosixUnlock_Kept(t) ==
  /\ pc[t] = "unwait"
  /\ Goto(t, "lock")
  /\ UNCHANGED <<opt, posix_lock, inWait>>

\* REAL(pthread_mutex_unlock), and aqs_mutex_lock is called.
WaitPosixUnlock(t) ==
  /\ pc[t] = "unwait"
  /\ posix_lock' = NULL
  /\ Goto(t, "lock")
  /\ UNCHANGED <<opt, inWait>>

\* aqs_cond_broadcast (aqs_cond_signal is one RealWake), by any thread, with
\* the mutex or without.
Broadcast ==
  /\ \E t \in Threads : pc[t] = "waiting"
  /\ pc' = [t \in Threads |-> IF pc[t] = "waiting" THEN "woken" ELSE pc[t]]
  /\ UNCHANGED <<opt, posix_lock, inWait>>

\* The steps of a call that has been made, up to its return; a thread in the
\* real wait is not among them.
Finish(t) ==
  \/ OptLock(t) \/ PosixLock(t) \/ PosixTryLock(t) \/ OptUnlock(t)
  \/ RealWait(t) \/ RealReturn(t) \/ WaitPosixUnlock(t)

Next ==
  \/ \E t \in Threads :
       \/ CallLock(t) \/ TryLock(t) \/ PosixUnlock(t) \/ WaitOptUnlock(t)
       \/ RealWake(t) \/ Finish(t)
  \/ Broadcast

Spec == Init /\ [][Next]_vars

\* A call that has been made is carried on.  The optimised lock is given to no
\* thread in particular, and no thread has to leave its critical section.
FairSpec ==
  Spec /\ \A t \in Threads : WF_vars(Finish(t))

-----------------------------------------------------------------------------
(* Properties *)

\* The type of every variable.
TypeOK ==
  /\ opt \in Threads \cup {NULL}
  /\ posix_lock \in Threads \cup {NULL}
  /\ pc \in [Threads -> Pcs]
  /\ inWait \in SUBSET Threads

\* Both locks are held together where the application owns the mutex, and each
\* of them by nobody else: the optimised lock is given up first in cond_wait
\* and last in unlock, and woken threads take the real one alone.
LocksNested ==
  \A t \in Threads :
    /\ opt = t <=> pc[t] \in {"posix", "tryposix", "cs", "optunlock"}
    /\ posix_lock = t <=> pc[t] \in {"cs", "condwait", "unwait"}

\* Whoever has the optimised lock gets the real one, although threads woken by
\* a broadcast barge in for it: neither aqs_mutex_lock nor the busy-waiting
\* trylock is kept waiting by them for ever.
LockReturns ==
  \A t \in Threads : (pc[t] \in {"posix", "tryposix"}) ~> (pc[t] = "cs")

-----------------------------------------------------------------------------
(* The promise: Monitor.  A thread owns the mutex until it releases the real *)
(* one, and a thread woken in cond_wait asks for the mutex again until it    *)
(* has both.                                                                 *)

Owners == {t \in Threads : pc[t] \in {"cs", "condwait"}}

Owner == IF Owners = {} THEN NULL ELSE CHOOSE t \in Owners : TRUE

InRealWait == {t \in Threads : pc[t] = "waiting"}

Woken == {t \in inWait : pc[t] \in {"woken", "unwait", "lock", "posix"}}

Mon == INSTANCE Monitor WITH owner <- Owner, waiting <- InRealWait, woken <- Woken

\* cond_wait releases the mutex and starts waiting atomically, although the
\* wrapper gives up its two locks in two steps: nobody owns the mutex, and
\* can change the condition and signal it, before the thread is waiting.
MonitorImplemented == Mon!Spec
=============================================================================
