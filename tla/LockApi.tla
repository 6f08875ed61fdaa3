------------------------------- MODULE LockApi -------------------------------
(***************************************************************************)
(* What the lock algorithms of ulocks share: the memory they work on, the  *)
(* program counters of the threads, and the code around every algorithm    *)
(* that adds condition variables (COND_VAR, see CondVar).  An algorithm    *)
(* adds the steps from "lock" to "posix", the optimised lock acquired, and *)
(* from "unlock" to After(t), the optimised lock released.                 *)
(***************************************************************************)
EXTENDS Integers, Sequences, FiniteSets

CONSTANTS
  Threads,      \* the threads that use the mutex
  NULL,         \* no thread, no node
  CondThreads,  \* those of them that also call cond_wait
  NumaNodes,    \* the NUMA nodes the threads run on
  Migrants      \* the threads that may run on another node at every call

ASSUME LockApiAssumption ==
  /\ NULL \notin Threads \cup NumaNodes /\ Threads \cap NumaNodes = {}
  /\ CondThreads \subseteq Threads
  /\ 0 \in NumaNodes
  /\ Migrants \subseteq Threads

VARIABLES
  lk,           \* the lock: the fields of its struct
  nd,           \* the queue nodes or contexts, one per thread, or per thread and NUMA node
  loc,          \* the local variables of the calls in progress
  pc,           \* the threads' program counters
  posix_lock,   \* the holder of the real mutex in the lock struct
  inWait        \* the threads inside cond_timedwait

mem == <<lk, nd, loc>>
apiVars == <<lk, nd, loc, pc, posix_lock, inWait>>

LOCKED == 0
UNLOCKED == 1

ApiInit ==
  /\ pc = [t \in Threads |-> "idle"]
  /\ posix_lock = NULL
  /\ inWait = {}

\* current_numa_node, as far as t goes.
current_numa_node(t) == IF t \in Migrants THEN NumaNodes ELSE {0}

\* Thread t goes from one program point to another without the real mutex.
Step(t, from, to) ==
  /\ pc[t] = from
  /\ pc' = [pc EXCEPT ![t] = to]
  /\ UNCHANGED <<posix_lock, inWait>>

\* A step that reads shared memory and writes none.
Read(t, from, to) == Step(t, from, to) /\ UNCHANGED mem

\* Where __mutex_unlock returns to.
After(t) == IF t \in inWait THEN "condwait" ELSE "idle"

-----------------------------------------------------------------------------
(* The calls, and the real mutex that is taken inside the optimised lock.   *)

CallLock(t) == Read(t, "idle", "lock")

PosixLock(t) ==
  /\ pc[t] = "posix" /\ posix_lock = NULL
  /\ posix_lock' = t
  /\ inWait' = inWait \ {t}
  /\ pc' = [pc EXCEPT ![t] = "cs"]
  /\ UNCHANGED mem

\* The busy-waiting loop of trylock, which has the optimised lock.
PosixTryLock(t) ==
  /\ pc[t] = "tryposix" /\ posix_lock = NULL
  /\ posix_lock' = t
  /\ pc' = [pc EXCEPT ![t] = "cs"]
  /\ UNCHANGED <<mem, inWait>>

PosixUnlock(t) ==
  /\ pc[t] = "cs"
  /\ posix_lock' = NULL
  /\ pc' = [pc EXCEPT ![t] = "unlock"]
  /\ UNCHANGED <<mem, inWait>>

-----------------------------------------------------------------------------
(* cond_timedwait and cond_wait: the optimised lock is released first, the   *)
(* real wait releases the real mutex, and after it both are taken afresh.    *)

CallWait(t) ==
  /\ pc[t] = "cs" /\ t \in CondThreads
  /\ inWait' = inWait \cup {t}
  /\ pc' = [pc EXCEPT ![t] = "unlock"]
  /\ UNCHANGED <<mem, posix_lock>>

RealWait(t) ==
  /\ pc[t] = "condwait"
  /\ posix_lock' = NULL
  /\ pc' = [pc EXCEPT ![t] = "waiting"]
  /\ UNCHANGED <<mem, inWait>>

\* A timeout, a signal, or nothing in particular.
RealWake(t) == Read(t, "waiting", "woken")

RealReturn(t) ==
  /\ pc[t] = "woken" /\ posix_lock = NULL
  /\ posix_lock' = t
  /\ pc' = [pc EXCEPT ![t] = "unwait"]
  /\ UNCHANGED <<mem, inWait>>

\* ... and the mutex is locked as by any caller.
WaitPosixUnlock(t) ==
  /\ pc[t] = "unwait"
  /\ posix_lock' = NULL
  /\ pc' = [pc EXCEPT ![t] = "lock"]
  /\ UNCHANGED <<mem, inWait>>

CondTimedwait(t) ==
  CallWait(t) \/ RealWait(t) \/ RealWake(t) \/ RealReturn(t) \/ WaitPosixUnlock(t)

\* A call by any thread, with the mutex or without.
CondSignal(t) == pc[t] \in {"idle", "cs"} /\ \E u \in Threads : RealWake(u)

CondBroadcast(t) ==
  /\ pc[t] \in {"idle", "cs"}
  /\ \E u \in Threads : pc[u] = "waiting"
  /\ pc' = [u \in Threads |-> IF pc[u] = "waiting" THEN "woken" ELSE pc[u]]
  /\ UNCHANGED <<mem, posix_lock, inWait>>
=============================================================================
