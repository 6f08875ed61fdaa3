------------------------------ MODULE FlatLocks ------------------------------
(***************************************************************************)
(* The locks with one level, whatever the NUMA node.  algo is the one the  *)
(* library was built with; order is a history variable, for the locks that *)
(* are first come, first served: the threads in mutex_lock in the order of *)
(* their first atomic step (the swap of the tail, the ticket), which       *)
(* decides their turn.  The others choose who is next: whoever swaps the   *)
(* word first, the thread that is awake, on the same socket, or still has  *)
(* patience.                                                               *)
(***************************************************************************)
EXTENDS LockMapping

CONSTANTS
  Algos,      \* the algorithms to check
  TicketMod, Slots, Recycled, SignBit, TicketCap, MAX_THREADS_MCS_TP, Patience

\* More tickets and array slots than threads.
ASSUME FlatLocksAssumption ==
  /\ IsFiniteSet(Threads)
  /\ TicketMod \in Nat \ {0, 1} /\ Cardinality(Threads) < TicketMod
  /\ Slots \in Nat \ {0} /\ Cardinality(Threads) <= Slots
  /\ Recycled \in BOOLEAN
  /\ SignBit \in Nat \ {0} /\ Cardinality(Threads) < 2 * SignBit /\ TicketCap \in Nat
  /\ MAX_THREADS_MCS_TP \in Nat \ {0} /\ Patience \in Nat
  /\ -1 \notin NumaNodes

VARIABLES algo, order

vars == <<algo, order, apiVars>>

McsSpin == INSTANCE Mcs WITH Policy <- "spin"
McsPark == INSTANCE Mcs WITH Policy <- "park"
ClhSpin == INSTANCE Clh WITH Policy <- "spin"
ClhPark == INSTANCE Clh WITH Policy <- "park"
Ticket == INSTANCE TicketLocks
Array == INSTANCE ArrayLock
Ptl == INSTANCE Partitioned
Tas == INSTANCE TasLocks
MalthusianSpin == INSTANCE Malthusian WITH Policy <- "spin"
MalthusianPark == INSTANCE Malthusian WITH Policy <- "park"
Cna == INSTANCE Cna
McsTp == INSTANCE McsTp
\* Every node an unlock passes over is already one too many for its scan.
McsTpShort == INSTANCE McsTp WITH MAX_THREADS_MCS_TP <- 1, Patience <- 1
Mutexee == INSTANCE Mutexee

McsAlgos == {"mcs_spin", "mcs_park", "mcsepfl"}
ClhAlgos == {"clh_spin", "clh_park", "clhepfl"}
FifoAlgos == McsAlgos \cup ClhAlgos \cup {"ticket", "ticketepfl", "alockepfl", "partitioned"}
TasAlgos == {"spinlock", "spinlockepfl", "ttas", "ttasepfl", "backoff"}
MalthusianAlgos == {"malthusian_spin", "malthusian_park"}
McsTpAlgos == {"mcstp", "mcstp_short"}

Init ==
  /\ algo \in Algos /\ order = <<>>
  /\ CASE algo \in McsAlgos        -> McsSpin!Init
       [] algo \in ClhAlgos        -> ClhSpin!Init
       [] algo = "ticket"          -> Ticket!Init
       [] algo = "ticketepfl"      -> Ticket!InitEpfl
       [] algo = "alockepfl"       -> Array!Init
       [] algo = "partitioned"     -> Ptl!Init
       [] algo \in TasAlgos        -> Tas!Init
       [] algo \in MalthusianAlgos -> MalthusianSpin!InitMalthusian
       [] algo = "cna"             -> Cna!Init
       [] algo \in McsTpAlgos      -> McsTp!Init
       [] algo = "mutexee"         -> Mutexee!Init

Calls(t) ==
  \/ algo = "mcs_spin"        /\ McsSpin!mcs(t)
  \/ algo = "mcs_park"        /\ McsPark!mcs(t)
  \/ algo = "mcsepfl"         /\ McsSpin!mcsepfl(t)
  \/ algo = "clh_spin"        /\ ClhSpin!clh(t)
  \/ algo = "clh_park"        /\ ClhPark!clh(t)
  \/ algo = "clhepfl"         /\ ClhSpin!clhepfl(t)
  \/ algo = "ticket"          /\ Ticket!ticket(t)
  \/ algo = "ticketepfl"      /\ Ticket!ticketepfl(t)
  \/ algo = "alockepfl"       /\ Array!alockepfl(t)
  \/ algo = "partitioned"     /\ Ptl!partitioned(t)
  \/ algo = "spinlock"        /\ Tas!spinlock(t)
  \/ algo = "spinlockepfl"    /\ Tas!spinlockepfl(t)
  \/ algo = "ttas"            /\ Tas!ttas(t)
  \/ algo = "ttasepfl"        /\ Tas!ttasepfl(t)
  \/ algo = "backoff"         /\ Tas!backoff(t)
  \/ algo = "malthusian_spin" /\ MalthusianSpin!malthusian(t)
  \/ algo = "malthusian_park" /\ MalthusianPark!malthusian(t)
  \/ algo = "cna"             /\ Cna!cna(t)
  \/ algo = "mcstp"           /\ McsTp!mcstp(t)
  \/ algo = "mcstp_short"     /\ McsTpShort!mcstp(t)
  \/ algo = "mutexee"         /\ Mutexee!mutexee(t)

Joins(t) == algo \in FifoAlgos /\ pc[t] = "lock" /\ pc'[t] # "lock"

Granted(t) == algo \in FifoAlgos /\ pc[t] # "posix" /\ pc'[t] = "posix"

Joined(t) == IF Joins(t) THEN Append(order, t) ELSE order

ThreadStep(t) ==
  /\ Calls(t)
  /\ order' = IF Granted(t) THEN Tail(Joined(t)) ELSE Joined(t)
  /\ UNCHANGED algo

Next == \E t \in Threads : ThreadStep(t)

\* A thread inside a call goes on, and one in its critical section leaves it;
\* nobody has to call, nor to be woken from a futex or from the real wait.
Running(t) == pc[t] \notin {"idle", "asleep", "waiting"} /\ ThreadStep(t)

FairSpec == Init /\ [][Next]_vars /\ \A t \in Threads : WF_vars(Running(t))

-----------------------------------------------------------------------------
(* Properties *)

\* Every algorithm is the optimised lock that the condition-variable code is
\* built on: one holder at a time, acquired before the real mutex and released
\* where __mutex_unlock makes its last store, in mutex_unlock and in cond_wait,
\* whoever it is passed to, in turn, out of turn or after a timeout.
ImplementsCondVar == CV!Spec

\* mutex_lock of the queue and ticket locks is first come, first served: the
\* threads get the lock in the order in which they swapped the tail or took
\* their tickets, trylocks or not.
FifoOrder ==
  [][\A t \in Threads : Granted(t) => t = Head(Joined(t))]_vars

\* With those, a call of mutex_lock always returns, and so does the cond_wait
\* around it.
LockReturns ==
  \A t \in Threads : (algo \in FifoAlgos /\ AbsPc[t] = "lock") ~> (pc[t] = "cs")

Served == (\E t \in Threads : AbsPc[t] = "lock") ~> (\E t \in Threads : pc[t] = "cs")

\* No waiter is forgotten, in a passive set, a secondary queue, a futex or a
\* place it timed out of: while there are waiters, somebody gets the lock.
WaitersServed == algo # "mcstp_short" => Served

\* A thread that an MCS-TP unlock has passed over notices, and starts again, also
\* when the unlock has scanned many nodes.
OvertakenRestarts == algo = "mcstp_short" => Served

\* The state of a lock that a single lock call can take, as mutex_create left it.
Free ==
  CASE algo \in McsAlgos \cup McsTpAlgos \cup {"cna"} -> lk.tail = NULL
    [] algo \in ClhAlgos        ->
         /\ nd[lk.tail].spin = UNLOCKED
         /\ {lk.tail} \cup {lk.current[t] : t \in Threads} = Threads \cup {NULL}
    [] algo = "ticket"          -> lk.grant = lk.request
    [] algo = "ticketepfl"      -> lk.grant = (lk.request + 1) % TicketMod
    [] algo = "alockepfl"       ->
         \A i \in DOMAIN lk.flags : lk.flags[i] = UNLOCKED <=> i = lk.tail
    [] algo = "partitioned"     -> lk.grants[lk.request % 2] = lk.request
    [] algo \in TasAlgos        -> lk.spin_lock = UNLOCKED
    [] algo \in MalthusianAlgos -> lk = [tail |-> NULL, passive |-> <<>>]
    [] algo = "mutexee"         -> lk.locked = 0

\* When nobody is in a lock call or holds the lock, it is free, whatever calls,
\* failed trylocks and late wake-ups came before: no node is left in a queue or
\* a passive set, and a CLH lock and its threads have a node each.
FreeWhenUnused ==
  (\A t \in Threads : pc[t] \in ReleasedPcs \cup {"idle", "condwait", "waiting", "woken", "unwait"})
    => Free
=============================================================================
