------------------------------ MODULE NumaLocks ------------------------------
(***************************************************************************)
(* The locks that pass a global lock on among the threads of a NUMA node.  *)
(* algo is the one the library was built with; batch is a history          *)
(* variable, how often the global lock has been passed on like that since  *)
(* it was last acquired.                                                   *)
(***************************************************************************)
EXTENDS LockMapping

CONSTANTS
  Algos,      \* the algorithms to check
  TryThreads, \* the threads that also call trylock
  BATCH_COUNT, RELEASE_THRESHOLD, NB_TICKETS_LOCAL, TicketMod, TicketCap

ASSUME NumaLocksAssumption ==
  /\ IsFiniteSet(Threads) /\ IsFiniteSet(NumaNodes) /\ NumaNodes = 0 .. Cardinality(NumaNodes) - 1
  /\ BATCH_COUNT \in Nat \ {0} /\ RELEASE_THRESHOLD \in Nat \ {0} /\ NB_TICKETS_LOCAL \in Nat \ {0}
  /\ TicketMod \in Nat /\ Cardinality(Threads) < TicketMod
  /\ TicketCap \in Nat /\ TryThreads \subseteq Threads

VARIABLES algo, batch

vars == <<algo, batch, apiVars>>

\* The algorithms with the most states are checked without cond_wait, which
\* calls their unlock and lock like anybody else.
Co == INSTANCE Cohort WITH Policy <- "park", CondThreads <- {}
Ht == INSTANCE HtLock
H == INSTANCE Hmcs
Hys == INSTANCE HysHmcs WITH CondThreads <- {}

Init ==
  /\ algo \in Algos /\ batch = 0
  /\ CASE algo = "cbomcs"     -> Co!cbomcs_mutex_create
       [] algo = "ctkttkt"    -> Co!ctkt_mutex_create
       [] algo = "cptltkt"    -> Co!cpt_mutex_create
       [] algo = "htlockepfl" -> Ht!Init
       [] algo = "hmcs"       -> H!Init
       [] algo = "hyshmcs"    -> Hys!InitHys

Calls(t) ==
  \/ algo = "cbomcs"      /\ Co!cbomcs(t)
  \/ algo = "ctkttkt"     /\ Co!ctkttkt(t)
  \/ algo = "cptltkt"     /\ Co!cptltkt(t)
  \/ algo = "htlockepfl"  /\ Ht!htlockepfl(t)
  \/ algo = "hmcs"        /\ H!hmcs(t)
  \/ algo = "hyshmcs"     /\ Hys!hyshmcs(t)

Acquires(t) == pc[t] \notin {"posix", "tryposix"} /\ pc'[t] \in {"posix", "tryposix"}

\* The points at which the global lock is still to be acquired.
TopPcs == {"toptas", "topspin", "trytop", "trywait", "gspin", "mspin"}

\* How often the global lock may be passed on.
Limit == CASE algo = "htlockepfl" -> NB_TICKETS_LOCAL
           [] algo = "hyshmcs"    -> RELEASE_THRESHOLD - 1
           [] OTHER -> BATCH_COUNT

ThreadStep(t) ==
  /\ Calls(t)
  /\ pc[t] = "idle" => (pc'[t] = "lock" \/ t \in TryThreads)
  /\ batch' = IF ~Acquires(t) \/ batch > Limit THEN batch ELSE IF pc[t] \in TopPcs THEN 0 ELSE batch + 1
  /\ UNCHANGED algo

Next == \E t \in Threads : ThreadStep(t)

\* As for FlatLocks.
Running(t) == pc[t] \notin {"idle", "asleep", "waiting"} /\ ThreadStep(t)

FairSpec == Init /\ [][Next]_vars /\ \A t \in Threads : WF_vars(Running(t))

-----------------------------------------------------------------------------
(* Properties *)

\* Every algorithm is the optimised lock of the condition-variable code: one
\* holder at a time on all nodes together, whichever of its two locks is
\* released first and wherever the threads run next.
ImplementsCondVar == CV!Spec

\* Waiters at either level are served, whatever was left behind by a trylock
\* that got the local lock only, or by a batch that ended.
WaitersServed == (\E t \in Threads : AbsPc[t] = "lock") ~> (\E t \in Threads : pc[t] = "cs")

\* The other nodes wait for a bounded number of passes: the global lock is
\* released after at most BATCH_COUNT, NB_TICKETS_LOCAL or RELEASE_THRESHOLD
\* local ones.  hmcs.c has replaced its threshold by a random choice.
BatchBound == algo # "hmcs" => batch <= Limit
=============================================================================
