--------------------------------- MODULE Aqs ---------------------------------
(***************************************************************************)
(* The non-blocking ShflLock of ulocks/src/aqs.c (and aqswonode.c, the     *)
(* same algorithm with the queue node on the caller's stack): a test-and-  *)
(* set word that is taken on the fast path, and a queue of waiters behind  *)
(* it that one of them, the shuffle leader, reorders by NUMA socket.       *)
(*                                                                         *)
(* A queue node belongs to one thread, so a node is named by its thread    *)
(* and a node pointer is a thread or NULL.  Every action is one step of    *)
(* one thread that makes at most one access to memory another thread can   *)
(* be racing on.  Memory is sequentially consistent.                       *)
(***************************************************************************)
EXTENDS Naturals, Sequences, FiniteSets, NodeList

CONSTANTS
  Threads,      \* the threads that use the lock
  NULL,         \* the null node pointer
  Sockets,      \* the NUMA sockets of the machine
  Homes,        \* Homes[t]: the sockets t may be running on when it enqueues
  TryThreads    \* the threads that also call aqs_mutex_trylock

ASSUME AqsAssumption ==
  /\ NULL \notin Threads
  /\ Homes \in [Threads -> SUBSET Sockets]
  /\ TryThreads \subseteq Threads

VARIABLES
  \* aqs_mutex_t
  locked, no_stealing, tail,
  \* aqs_node_t, field by field
  next, lstatus, sleader, wcount, nid, last_visited,
  \* the threads: program counter, `prev' of __aqs_mutex_lock, and the
  \* locals of shuffle_waiters
  pc, pred, sh

lockVars == <<locked, no_stealing, tail>>
nodeVars == <<next, lstatus, sleader, wcount, nid, last_visited>>
vars == <<lockVars, nodeVars, pc, pred, sh>>

Ptr == Threads \cup {NULL}

\* The locals of shuffle_waiters; `leader' is the local named sleader there.
Frame == [prev : Ptr, last : Ptr, curr : Ptr, nxt : Ptr, leader : Ptr,
          qend : Ptr, one_shuffle : {0, 1}, is_next_waiter : {0, 1}]
NoFrame == [prev |-> NULL, last |-> NULL, curr |-> NULL, nxt |-> NULL,
            leader |-> NULL, qend |-> NULL,
            one_shuffle |-> 0, is_next_waiter |-> 0]

ShufflePcs == {"pass", "scan", "tailcheck", "getnext",
               "unlink", "relink", "insert", "ready", "appoint"}
QueuedPcs  == {"link", "disable", "wait", "waitleader", "head", "headleader",
               "visited", "acquire", "getsucc", "castail", "waitsucc", "notify"}
              \cup ShufflePcs
HoldPcs    == {"getsucc", "castail", "waitsucc", "notify", "enable", "cs"}
Pcs        == {"idle", "swap"} \cup QueuedPcs \cup HoldPcs

Goto(t, l) == pc' = [pc EXCEPT ![t] = l]

(***************************************************************************)
(* A node that has left the queue is dead: in aqswonode.c its stack frame  *)
(* is gone.  NodesAlive below shows that nobody follows a pointer to it,   *)
(* so its stale contents are replaced by the ones aqs_mutex_create's       *)
(* zeroed context array starts from.                                       *)
(***************************************************************************)
NodeReset(t, n) ==
  /\ next'         = [next EXCEPT ![t] = NULL]
  /\ lstatus'      = [lstatus EXCEPT ![t] = 0]
  /\ sleader'      = [sleader EXCEPT ![t] = 0]
  /\ wcount'       = [wcount EXCEPT ![t] = 0]
  /\ last_visited' = [last_visited EXCEPT ![t] = NULL]
  /\ nid'          = [nid EXCEPT ![t] = n]

aqs_mutex_create ==
  /\ locked = 0
  /\ no_stealing = 0
  /\ tail = NULL

Init ==
  /\ aqs_mutex_create
  /\ next         = [t \in Threads |-> NULL]
  /\ lstatus      = [t \in Threads |-> 0]
  /\ sleader      = [t \in Threads |-> 0]
  /\ wcount       = [t \in Threads |-> 0]
  /\ nid          = [t \in Threads |-> NULL]
  /\ last_visited = [t \in Threads |-> NULL]
  /\ pc           = [t \in Threads |-> "idle"]
  /\ pred         = [t \in Threads |-> NULL]
  /\ sh           = [t \in Threads |-> NoFrame]

-----------------------------------------------------------------------------
(* __aqs_mutex_lock, up to the queue *)

\* The fast path: cmpxchg of the 16-bit locked_no_stealing from 0 to 1.
FastPath(t) ==
  /\ pc[t] = "idle"
  /\ locked = 0 /\ no_stealing = 0
  /\ locked' = 1
  /\ Goto(t, "cs")
  /\ UNCHANGED <<no_stealing, tail, nodeVars, pred, sh>>

\* The fast path fails and the node, still private, is initialised.
SlowPath(t) ==
  /\ pc[t] = "idle"
  /\ locked # 0 \/ no_stealing # 0
  /\ \E n \in Homes[t] : NodeReset(t, n)
  /\ Goto(t, "swap")
  /\ UNCHANGED <<lockVars, pred, sh>>

\* prev = smp_swap(&impl->tail, me)
SwapTail(t) ==
  /\ pc[t] = "swap"
  /\ tail' = t
  /\ pred' = [pred EXCEPT ![t] = tail]
  /\ Goto(t, IF tail = NULL THEN "disable" ELSE "link")
  /\ UNCHANGED <<locked, no_stealing, nodeVars, sh>>

\* WRITE_ONCE(prev->next, me)
LinkPrev(t) ==
  /\ pc[t] = "link"
  /\ next' = [next EXCEPT ![pred[t]] = t]
  /\ pred' = [pred EXCEPT ![t] = NULL]
  /\ Goto(t, "wait")
  /\ UNCHANGED <<lockVars, lstatus, sleader, wcount, nid, last_visited, sh>>

DisableStealing(t) ==
  /\ pc[t] = "disable"
  /\ no_stealing' = 1
  /\ Goto(t, "head")
  /\ UNCHANGED <<locked, tail, nodeVars, pred, sh>>

-----------------------------------------------------------------------------
(* shuffle_waiters *)

\* MUTANT: the wait count is bumped at every round, not only from 0.
StartShuffle_AlwaysCount(t, isNext) ==
  /\ wcount'  = [wcount EXCEPT ![t] = wcount[t] + 1]
  /\ sleader' = [sleader EXCEPT ![t] = 0]
  /\ sh' = [sh EXCEPT ![t] = [NoFrame EXCEPT !.prev = t, !.last = t,
                                            !.is_next_waiter = isNext]]
  /\ Goto(t, "scan")
  /\ UNCHANGED <<lockVars, next, lstatus, nid, last_visited, pred>>

\* Entry: the saved position is read, wcount becomes 1, the leadership is
\* given up, and keep_lock_local() draws whether to shuffle or to pass on.
StartShuffle(t, isNext) ==
  /\ wcount'  = [wcount EXCEPT ![t] = 1]
  /\ sleader' = [sleader EXCEPT ![t] = 0]
  /\ sh' = [sh EXCEPT ![t] =
              [NoFrame EXCEPT
                !.prev = IF last_visited[t] = NULL THEN t ELSE last_visited[t],
                !.last = t,
                !.is_next_waiter = isNext]]
  /\ \/ Goto(t, "scan")
     \/ Goto(t, "pass")
  /\ UNCHANGED <<lockVars, next, lstatus, nid, last_visited, pred>>

\* Where shuffle_waiters returns to, and with which locals.
Return(t) ==
  /\ Goto(t, IF sh[t].is_next_waiter = 1 THEN "head" ELSE "wait")
  /\ sh' = [sh EXCEPT ![t] = NoFrame]

\* MUTANT: the two are swapped.
Leave_Swapped(t, frame) ==
  /\ sh' = [sh EXCEPT ![t] = [frame EXCEPT !.leader = frame.prev,
                                           !.qend = frame.last]]
  /\ Goto(t, "appoint")

\* `sleader = last; qend = prev;' on the way out of the loop.
Leave(t, frame) ==
  /\ sh' = [sh EXCEPT ![t] = [frame EXCEPT !.leader = frame.last,
                                           !.qend = frame.prev]]
  /\ Goto(t, "appoint")

\* keep_lock_local() returned 0: sleader = READ_ONCE(node->next).
PassLeadership(t) ==
  /\ pc[t] = "pass"
  /\ IF next[t] = NULL
       THEN Return(t)
       ELSE /\ sh' = [sh EXCEPT ![t].leader = next[t]]
            /\ Goto(t, "appoint")
  /\ UNCHANGED <<lockVars, nodeVars, pred>>

\* MUTANT: waits for a successor instead of leaving.
Scan_Spin(t) ==
  /\ pc[t] = "scan"
  /\ next[sh[t].prev] # NULL
  /\ sh' = [sh EXCEPT ![t].curr = next[sh[t].prev]]
  /\ Goto(t, "tailcheck")
  /\ UNCHANGED <<lockVars, nodeVars, pred>>

\* curr = READ_ONCE(prev->next)
Scan(t) ==
  /\ pc[t] = "scan"
  /\ LET curr == next[sh[t].prev]
     IN  IF curr = NULL
           THEN Leave(t, sh[t])
           ELSE /\ sh' = [sh EXCEPT ![t].curr = curr]
                /\ Goto(t, "tailcheck")
  /\ UNCHANGED <<lockVars, nodeVars, pred>>

\* MUTANT: a waiter that extends the batch in place is not marked.
TailCheck_NoCount(t) ==
  /\ pc[t] = "tailcheck"
  /\ LET curr == sh[t].curr
         local == nid[curr] = nid[t]
     IN  \/ curr = tail /\ Leave(t, sh[t])
         \/ /\ curr # tail
            /\ local => nid[sh[t].prev] = nid[t]
            /\ sh' = [sh EXCEPT ![t].last = IF local THEN curr ELSE @,
                                ![t].prev = curr, ![t].one_shuffle = IF local THEN 1 ELSE @]
            /\ Goto(t, "ready")
         \/ /\ curr # tail
            /\ local /\ nid[sh[t].prev] # nid[t]
            /\ Goto(t, "getnext")
            /\ UNCHANGED sh
  /\ UNCHANGED <<lockVars, nodeVars, pred>>

\* MUTANT: the socket of curr is not compared before it is moved.
TailCheck_MoveAny(t) ==
  /\ pc[t] = "tailcheck"
  /\ LET curr == sh[t].curr
     IN  \/ curr = tail /\ Leave(t, sh[t])
         \/ /\ curr # tail /\ nid[sh[t].prev] = nid[t]
            /\ sh' = [sh EXCEPT ![t].prev = curr]
            /\ Goto(t, "ready")
         \/ /\ curr # tail /\ nid[sh[t].prev] # nid[t]
            /\ Goto(t, "getnext")
            /\ UNCHANGED sh
  /\ UNCHANGED <<lockVars, nodeVars, pred>>

\* curr is the tail; or it is of another socket; or it extends the batch in
\* place, marked by its wait count; or it has to be moved.
TailCheck(t) ==
  /\ pc[t] = "tailcheck"
  /\ LET curr == sh[t].curr
         prev == sh[t].prev
     IN  \/ /\ curr = tail
            /\ Leave(t, sh[t])
            /\ UNCHANGED wcount
         \/ /\ curr # tail
            /\ nid[curr] # nid[t]
            /\ sh' = [sh EXCEPT ![t].prev = curr]
            /\ Goto(t, "ready")
            /\ UNCHANGED wcount
         \/ /\ curr # tail
            /\ nid[curr] = nid[t] /\ nid[prev] = nid[t]
            /\ wcount' = [wcount EXCEPT ![curr] = wcount[t]]
            /\ sh' = [sh EXCEPT ![t] = [@ EXCEPT !.last = curr, !.prev = curr,
                                                 !.one_shuffle = 1]]
            /\ Goto(t, "ready")
         \/ /\ curr # tail
            /\ nid[curr] = nid[t] /\ nid[prev] # nid[t]
            /\ Goto(t, "getnext")
            /\ UNCHANGED <<wcount, sh>>
  /\ UNCHANGED <<lockVars, next, lstatus, sleader, nid, last_visited, pred>>

\* MUTANT: `if (!next)' is dropped.
GetNext_NoCheck(t) ==
  /\ pc[t] = "getnext"
  /\ wcount' = [wcount EXCEPT ![sh[t].curr] = wcount[t]]
  /\ sh' = [sh EXCEPT ![t].nxt = next[sh[t].curr]]
  /\ Goto(t, "unlink")
  /\ UNCHANGED <<lockVars, next, lstatus, sleader, nid, last_visited, pred>>

\* next = READ_ONCE(curr->next); a successor that has not linked itself yet
\* ends the shuffling.
GetNext(t) ==
  /\ pc[t] = "getnext"
  /\ LET curr == sh[t].curr
     IN  IF next[curr] = NULL
           THEN Leave(t, sh[t]) /\ UNCHANGED wcount
           ELSE /\ wcount' = [wcount EXCEPT ![curr] = wcount[t]]
                /\ sh' = [sh EXCEPT ![t].nxt = next[curr]]
                /\ Goto(t, "unlink")
  /\ UNCHANGED <<lockVars, next, lstatus, sleader, nid, last_visited, pred>>

\* MUTANT: the moved waiter stays linked where it was.
Unlink_Skipped(t) ==
  /\ pc[t] = "unlink"
  /\ Goto(t, "relink")
  /\ UNCHANGED <<lockVars, nodeVars, pred, sh>>

\* prev->next = next
Unlink(t) ==
  /\ pc[t] = "unlink"
  /\ next' = [next EXCEPT ![sh[t].prev] = sh[t].nxt]
  /\ Goto(t, "relink")
  /\ UNCHANGED <<lockVars, lstatus, sleader, wcount, nid, last_visited, pred, sh>>

\* curr->next = last->next
Relink(t) ==
  /\ pc[t] = "relink"
  /\ next' = [next EXCEPT ![sh[t].curr] = next[sh[t].last]]
  /\ Goto(t, "insert")
  /\ UNCHANGED <<lockVars, lstatus, sleader, wcount, nid, last_visited, pred, sh>>

\* last->next = curr; last = curr; one_shuffle = 1
Insert(t) ==
  /\ pc[t] = "insert"
  /\ next' = [next EXCEPT ![sh[t].last] = sh[t].curr]
  /\ sh' = [sh EXCEPT ![t] = [@ EXCEPT !.last = sh[t].curr, !.one_shuffle = 1]]
  /\ Goto(t, "ready")
  /\ UNCHANGED <<lockVars, lstatus, sleader, wcount, nid, last_visited, pred>>

\* One waiter found and the leader's own turn has come: stop; else scan on.
Ready(t) ==
  /\ pc[t] = "ready"
  /\ IF /\ sh[t].one_shuffle = 1
        /\ IF sh[t].is_next_waiter = 1 THEN locked = 0 ELSE lstatus[t] # 0
       THEN Leave(t, sh[t])
       ELSE Goto(t, "scan") /\ UNCHANGED sh
  /\ UNCHANGED <<lockVars, nodeVars, pred>>

\* set_sleader, first store: the appointed leader may start at once ...
Appoint(t) ==
  /\ pc[t] = "appoint"
  /\ sleader' = [sleader EXCEPT ![sh[t].leader] = 1]
  /\ IF sh[t].qend = sh[t].leader
       THEN Return(t)
       ELSE Goto(t, "visited") /\ UNCHANGED sh
  /\ UNCHANGED <<lockVars, next, lstatus, wcount, nid, last_visited, pred>>

\* ... and the second store, its starting position, may reach it late.
SetLastVisited(t) ==
  /\ pc[t] = "visited"
  /\ last_visited' = [last_visited EXCEPT ![sh[t].leader] = sh[t].qend]
  /\ Return(t)
  /\ UNCHANGED <<lockVars, next, lstatus, sleader, wcount, nid, pred>>

-----------------------------------------------------------------------------
(* __aqs_mutex_lock, in the queue *)

\* READ_ONCE(me->lstatus) of the waiting loop
CheckTurn(t) ==
  /\ pc[t] = "wait"
  /\ Goto(t, IF lstatus[t] = 1 THEN "head" ELSE "waitleader")
  /\ UNCHANGED <<lockVars, nodeVars, pred, sh>>

\* READ_ONCE(me->sleader) of the waiting loop, and its shuffling
WaiterShuffle(t) ==
  /\ pc[t] = "waitleader"
  /\ IF sleader[t] = 1
       THEN StartShuffle(t, 0)
       ELSE Goto(t, "wait") /\ UNCHANGED <<lockVars, nodeVars, pred, sh>>

\* The very next waiter reads impl->locked.
CheckLocked(t) ==
  /\ pc[t] = "head"
  /\ Goto(t, IF locked = 0 THEN "acquire" ELSE "headleader")
  /\ UNCHANGED <<lockVars, nodeVars, pred, sh>>

\* It shuffles if nobody batched it (wcount = 0) or somebody appointed it.
HeadShuffle(t) ==
  /\ pc[t] = "headleader"
  /\ IF wcount[t] = 0 \/ sleader[t] = 1
       THEN StartShuffle(t, 1)
       ELSE Goto(t, "head") /\ UNCHANGED <<lockVars, nodeVars, pred, sh>>

\* MUTANT: having read locked = 0, the head stores 1 without a cmpxchg.
Acquire_Store(t) ==
  /\ pc[t] = "acquire"
  /\ locked' = 1
  /\ Goto(t, "getsucc")
  /\ UNCHANGED <<no_stealing, tail, nodeVars, pred, sh>>

\* The cmpxchg of locked that succeeds.  One that fails changes nothing and
\* is followed by spinning until locked is 0 and another attempt.
Acquire(t) ==
  /\ pc[t] = "acquire"
  /\ locked = 0
  /\ locked' = 1
  /\ Goto(t, "getsucc")
  /\ UNCHANGED <<no_stealing, tail, nodeVars, pred, sh>>

\* if (!READ_ONCE(me->next))
GetSuccessor(t) ==
  /\ pc[t] = "getsucc"
  /\ Goto(t, IF next[t] = NULL THEN "castail" ELSE "notify")
  /\ UNCHANGED <<lockVars, nodeVars, pred, sh>>

\* MUTANT: enable_stealing is forgotten.
CasTail_NoEnable(t) ==
  /\ pc[t] = "castail"
  /\ IF tail = t
       THEN tail' = NULL /\ NodeReset(t, NULL) /\ Goto(t, "cs")
       ELSE Goto(t, "waitsucc") /\ UNCHANGED <<tail, nodeVars>>
  /\ UNCHANGED <<locked, no_stealing, pred, sh>>

\* MUTANT: a successor that has not linked itself yet is not waited for.
CasTail_NoWait(t) ==
  /\ pc[t] = "castail"
  /\ IF tail = t
       THEN tail' = NULL /\ NodeReset(t, NULL) /\ Goto(t, "enable")
       ELSE NodeReset(t, NULL) /\ Goto(t, "cs") /\ UNCHANGED tail
  /\ UNCHANGED <<locked, no_stealing, pred, sh>>

\* cmpxchg of tail from me to NULL: the queue is empty again, or somebody
\* has swapped the tail and will link.
CasTail(t) ==
  /\ pc[t] = "castail"
  /\ IF tail = t
       THEN tail' = NULL /\ NodeReset(t, NULL) /\ Goto(t, "enable")
       ELSE Goto(t, "waitsucc") /\ UNCHANGED <<tail, nodeVars>>
  /\ UNCHANGED <<locked, no_stealing, pred, sh>>

EnableStealing(t) ==
  /\ pc[t] = "enable"
  /\ no_stealing' = 0
  /\ Goto(t, "cs")
  /\ UNCHANGED <<locked, tail, nodeVars, pred, sh>>

\* while (!READ_ONCE(me->next))
WaitSuccessor(t) ==
  /\ pc[t] = "waitsucc"
  /\ next[t] # NULL
  /\ Goto(t, "notify")
  /\ UNCHANGED <<lockVars, nodeVars, pred, sh>>

\* WRITE_ONCE(me->next->lstatus, 1), the last access to the queue; the node
\* is dead when the call returns.
Notify(t) ==
  /\ pc[t] = "notify"
  /\ lstatus'      = [lstatus EXCEPT ![next[t]] = 1, ![t] = 0]
  /\ next'         = [next EXCEPT ![t] = NULL]
  /\ sleader'      = [sleader EXCEPT ![t] = 0]
  /\ wcount'       = [wcount EXCEPT ![t] = 0]
  /\ last_visited' = [last_visited EXCEPT ![t] = NULL]
  /\ nid'          = [nid EXCEPT ![t] = NULL]
  /\ Goto(t, "cs")
  /\ UNCHANGED <<lockVars, pred, sh>>

-----------------------------------------------------------------------------
\* aqs_mutex_trylock: cmpxchg of locked alone, so it takes a free lock even
\* when stealing is disabled.  A failing call (EBUSY) changes nothing.
TryLock(t) ==
  /\ t \in TryThreads
  /\ pc[t] = "idle"
  /\ locked = 0
  /\ locked' = 1
  /\ Goto(t, "cs")
  /\ UNCHANGED <<no_stealing, tail, nodeVars, pred, sh>>

\* __aqs_mutex_unlock
Unlock(t) ==
  /\ pc[t] = "cs"
  /\ locked' = 0
  /\ Goto(t, "idle")
  /\ UNCHANGED <<no_stealing, tail, nodeVars, pred, sh>>

\* The steps of shuffle_waiters and those of the rest of a lock call.
Shuffle(t) ==
  \/ PassLeadership(t) \/ Scan(t) \/ TailCheck(t) \/ GetNext(t)
  \/ Unlink(t) \/ Relink(t) \/ Insert(t) \/ Ready(t)
  \/ Appoint(t) \/ SetLastVisited(t)

InLock(t) ==
  \/ SwapTail(t) \/ LinkPrev(t) \/ DisableStealing(t)
  \/ CheckTurn(t) \/ WaiterShuffle(t) \/ CheckLocked(t) \/ HeadShuffle(t)
  \/ Acquire(t) \/ GetSuccessor(t) \/ CasTail(t) \/ EnableStealing(t)
  \/ WaitSuccessor(t) \/ Notify(t)

Next ==
  \E t \in Threads :
    FastPath(t) \/ SlowPath(t) \/ TryLock(t) \/ InLock(t) \/ Shuffle(t) \/ Unlock(t)

Spec == Init /\ [][Next]_vars

\* A thread inside lock or in its critical section keeps being scheduled; a
\* thread outside need never call lock again.
FairSpec ==
  Spec /\ \A t \in Threads : WF_vars(InLock(t) \/ Shuffle(t) \/ Unlock(t))

-----------------------------------------------------------------------------
(***************************************************************************)
(* The waiting queue.  A thread that has swapped the tail and not linked   *)
(* itself yet counts as linked, and a waiter being moved counts as moved   *)
(* from the store that unlinks it on.                                      *)
(***************************************************************************)
Queued == {t \in Threads : pc[t] \in QueuedPcs}

PendingStores ==
  LET Movers == {m \in Threads : pc[m] \in {"relink", "insert"}}
  IN  {[at |-> pred[v], to |-> v] : v \in {u \in Threads : pc[u] = "link"}}
      \cup {[at |-> sh[m].last, to |-> sh[m].curr] : m \in Movers}
      \cup {[at |-> sh[m].curr, to |-> next[sh[m].last]] : m \in Movers}

\* The very next waiter, by where it is in __aqs_mutex_lock or because its
\* predecessor told it so.
IsHead(t) ==
  \/ pc[t] \in {"disable", "head", "headleader", "acquire",
                "getsucc", "castail", "waitsucc", "notify"}
  \/ pc[t] \in ShufflePcs \cup {"visited"} /\ sh[t].is_next_waiter = 1
  \/ lstatus[t] = 1

Heads == {t \in Queued : IsHead(t)}

\* The queue from front to back.
QueueOrder ==
  LET front == IF Heads = {} THEN NULL ELSE CHOOSE t \in Heads : TRUE
      succ  == WithStores(next, PendingStores, Ptr)
      n     == Cardinality(Queued)
  IN  ListFrom(succ, front, n)

-----------------------------------------------------------------------------
(* Properties *)

\* The type of every variable, and which shuffling locals are set where.
TypeOK ==
  /\ locked \in {0, 1} /\ no_stealing \in {0, 1} /\ tail \in Ptr
  /\ next \in [Threads -> Ptr]
  /\ lstatus \in [Threads -> {0, 1}]
  /\ sleader \in [Threads -> {0, 1}]
  /\ wcount \in [Threads -> {0, 1}]
  /\ nid \in [Threads -> Sockets \cup {NULL}]
  /\ last_visited \in [Threads -> Ptr]
  /\ pc \in [Threads -> Pcs]
  /\ pred \in [Threads -> Ptr]
  /\ sh \in [Threads -> Frame]

Holders == {t \in Threads : pc[t] \in HoldPcs}

\* Mutual exclusion: the fast path, the stealing trylock and the queue head
\* all race on impl->locked, and at most one of them holds the lock, exactly
\* while the word is set.
MutualExclusion ==
  /\ \A t, u \in Holders : t = u
  /\ locked = 1 <=> Holders # {}

\* No waiter is lost or duplicated, whatever shuffle_waiters does to the list
\* while threads enqueue and leave: there is one very next waiter, and from
\* it the list runs through all the queued nodes and ends at the tail.
QueueIntact ==
  LET q == QueueOrder
      n == Cardinality(Queued)
  IN  IF n = 0 THEN tail = NULL
      ELSE /\ Cardinality(Heads) = 1
           /\ {q[i] : i \in 1..n} = Queued
           /\ q[n] = tail

\* shuffle_waiters takes no lock, so at most one thread may be in it or be
\* appointed to enter it (`Currently, only one shuffle leader is chosen'),
\* and the very next waiter must not start a second one by itself (wcount 0).
SingleShuffler ==
  \A t, u \in Queued :
    LET Leads(x) == pc[x] \in ShufflePcs \/ sleader[x] = 1
                    \/ (x \in Heads /\ wcount[x] = 0)
    IN  Leads(t) /\ Leads(u) => t = u

\* The shuffle leader reads and writes only nodes that are still queued, at or
\* behind itself, among them the position saved in last_visited by an earlier
\* leader: it never touches the node of a thread that has left lock (whose
\* stack frame is gone in aqswonode.c) nor that of a waiter ahead of it.
NodesAlive ==
  LET q == QueueOrder
  IN  \A t \in Queued :
    LET mine == FromOn(q, t)
    IN  /\ pc[t] \in ShufflePcs \cup {"visited"} =>
             {sh[t].prev, sh[t].last, sh[t].curr, sh[t].nxt, sh[t].leader,
              sh[t].qend} \subseteq mine \cup {NULL}
        /\ last_visited[t] \in mine \cup {NULL}

\* Whatever the order of one thread's disable_stealing and of its
\* predecessor's late enable_stealing, an empty queue ends up with the fast
\* path open.
FastPathRestored ==
  tail = NULL /\ ~(\E t \in Threads : pc[t] = "enable") => no_stealing = 0

\* Somebody who waits is followed by somebody who holds: there is no state in
\* which the lock is free and everybody waits for everybody.
Progress ==
  (\E t \in Threads : pc[t] \in QueuedPcs \ HoldPcs) ~> (Holders # {})

\* The unbounded loop of shuffle_waiters ends although waiters keep arriving
\* behind the leader: leaders come back to look at their lock.
ShuffleTerminates ==
  \A t \in Threads : pc[t] \in ShufflePcs ~> pc[t] \notin ShufflePcs

\* The comment of __aqs_mutex_lock: stealing is disabled `to ensure starvation
\* freedom', so the very next waiter gets the lock.
HeadNotStarved ==
  \A t \in Threads : pc[t] = "head" ~> pc[t] = "cs"

-----------------------------------------------------------------------------
(* What the lock promises: ShflQueue, with the queue head out of the queue  *)
(* from the cmpxchg that gives it the lock.                                 *)

WaitQueue ==
  LET q == QueueOrder
  IN  IF Heads \cap Holders # {} THEN Tail(q) ELSE q

Owner == IF Holders = {} THEN NULL ELSE CHOOSE t \in Holders : TRUE

Abs == INSTANCE ShflQueue WITH owner <- Owner, queue <- WaitQueue, socket <- nid

\* The lock implements the abstract shuffled queue: whatever the interleaving
\* of enqueuing, shuffling, stealing and handing over, every step is one of
\* ShflQueue's or changes neither the owner nor the queue.
Refinement == Abs!Spec

\* Two waiters of one socket are served in the order they enqueued in, although
\* successive leaders resume each other's half-done shuffling (last_visited).
SameSocketFifo == Abs!SocketFifo
=============================================================================
