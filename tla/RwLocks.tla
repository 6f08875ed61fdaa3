------------------------------- MODULE RwLocks -------------------------------
(***************************************************************************)
(* The reader-writer locks.  algo is the one the library was built with,   *)
(* or the kernel's; "hmcsrw_mutex" is a mutex in a library built with      *)
(* hmcsrw.c.                                                               *)
(***************************************************************************)
EXTENDS LockApi

CONSTANTS
  Algos,      \* the algorithms to check
  RELEASE_THRESHOLD, MAX_RW

\* There are never more readers than lock_data can count.
ASSUME RwLocksAssumption ==
  /\ Algos \subseteq {"hmcsrw", "hmcsrw_mutex", "ttasrw", "rwsem"}
  /\ IsFiniteSet(NumaNodes) /\ NumaNodes = 0 .. Cardinality(NumaNodes) - 1
  /\ RELEASE_THRESHOLD \in Nat \ {0}
  /\ IsFiniteSet(Threads) /\ MAX_RW \in Nat /\ Cardinality(Threads) <= MAX_RW

VARIABLE algo

vars == <<algo, apiVars>>

Hmcs == INSTANCE HmcsRw
Ttas == INSTANCE TtasRw
Sem == INSTANCE Rwsem

Init ==
  /\ algo \in Algos
  /\ CASE algo = "hmcsrw" -> Hmcs!hmcsrw_rwlock_create
       [] algo = "hmcsrw_mutex" -> Hmcs!hmcsrw_mutex_create
       [] algo = "ttasrw" -> Ttas!Init
       [] algo = "rwsem" -> Sem!Init

ThreadStep(t) ==
  /\ \/ algo = "hmcsrw" /\ Hmcs!hmcsrw(t)
     \/ algo = "hmcsrw_mutex" /\ Hmcs!hmcsrw_mutex(t)
     \/ algo = "ttasrw" /\ Ttas!ttasrw(t)
     \/ algo = "rwsem" /\ Sem!rwsem(t)
  /\ UNCHANGED algo

Next == \E t \in Threads : ThreadStep(t)

\* A call in progress goes on, and the lock is given up at some time.
Running(t) == pc[t] # "idle" /\ ThreadStep(t)

FairSpec == Init /\ [][Next]_vars /\ \A t \in Threads : WF_vars(Running(t))

-----------------------------------------------------------------------------
(* Properties *)

Reading == {"rd", "rdposix", "rdtryposix", "rdunlock", "rdrelease", "rdmunlock"}
Writing == {"wr", "wrposix", "wrtryposix", "wrunlock", "wrrelease", "unlock", "gcas", "gpass",
            "wrmunlock", "downgrade"}
RdWaiting == {"rdlock", "rdwait", "rdadd", "rdcheck", "rdsub", "rdcas", "rdmutex"}
Trying == {"trycas", "trycheck", "trysub", "tryscan", "trylock", "trytop", "trydrop", "tryposix",
           "tryadd", "trywcas"}

RwPc ==
  [t \in Threads |->
     CASE pc[t] \in Reading -> "rd"
       [] pc[t] \in Writing -> "wr"
       [] pc[t] \in RdWaiting -> "rdlock"
       [] pc[t] \in Trying \cup {"idle", "lcas", "lpass"} -> "idle"
       [] OTHER -> "wrlock"]

RW == INSTANCE RwLock WITH state <- RwPc

\* The locks keep the promise of RwLock by themselves, without the real lock
\* under ttasrw.c: a reader that is let in while a writer scans, or a writer that
\* takes the place of one that has just left, never has company it must not have,
\* and the semaphore's writer becomes a reader without letting a writer in between.
ImplementsRwLock == RW!Spec

\* Once nobody uses the lock it is free, no reader counted and no node queued,
\* whichever calls failed half-way.
RwFreeWhenUnused ==
  (\A t \in Threads : pc[t] = "idle") =>
    CASE algo = "ttasrw" -> lk.lock_data = 0 /\ lk.rd = {} /\ lk.wr = NULL
      [] algo = "rwsem" -> lk = [wlocked |-> FALSE, readers |-> 0, wait_lock |-> NULL]
      [] OTHER -> /\ \A h \in DOMAIN lk.tail : lk.tail[h] = NULL
                  /\ \A n \in NumaNodes : lk.active_readers[n] = 0

\* While there are waiters somebody gets the lock, unless tryrdlock calls that
\* count themselves for a moment come without end.
RwWaitersServed ==
  (\E t \in Threads : RwPc[t] \in {"rdlock", "wrlock"})
    ~> (\E t \in Threads : RwPc[t] \in {"rd", "wr"} \/ pc[t] \in {"trycheck", "trysub"})
=============================================================================
