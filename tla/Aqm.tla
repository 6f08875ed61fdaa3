--------------------------------- MODULE Aqm ---------------------------------
(***************************************************************************)
(* The blocking ShflLock of ulocks/src/aqm.c (and aqmwonode.c, the same    *)
(* algorithm with the queue node on the caller's stack): the shuffled      *)
(* queue of Aqs, whose waiters park themselves on a futex after spinning   *)
(* for a while and are woken by the shuffle leader that batches them or by *)
(* the predecessor that hands them the head of the queue.                  *)
(*                                                                         *)
(* Nodes are named by their threads.  An action is one step of one thread  *)
(* with at most one access to memory another thread can be racing on.      *)
(* Memory is sequentially consistent.                                      *)
(***************************************************************************)
EXTENDS Naturals, Sequences, FiniteSets, NodeList

CONSTANTS
  Threads,      \* the threads that use the lock
  NULL,         \* the null node pointer
  Sockets,      \* the NUMA sockets of the machine
  Homes         \* Homes[t]: the sockets t may be running on when it enqueues

ASSUME AqmAssumption ==
  /\ NULL \notin Threads
  /\ Homes \in [Threads -> SUBSET Sockets]

VARIABLES
  \* aqm_mutex_t
  locked, no_stealing, tail,
  \* aqm_node_t, field by field; pstate is the futex word
  next, lstatus, sleader, wcount, nid, pstate,
  \* the threads: program counter, `pred' and later `succ' of
  \* __aqm_mutex_lock, its should_park, and the locals of shuffle_waiters
  pc, peer, should_park, sh

lockVars == <<locked, no_stealing, tail>>
nodeVars == <<next, lstatus, sleader, wcount, nid, pstate>>
vars == <<lockVars, nodeVars, pc, peer, should_park, sh>>

Ptr == Threads \cup {NULL}

\* _AQ_MCS_STATUS_*
PARKED == 0
PWAIT == 1
LOCKED == 2
UNPWAIT == 4

Frame == [prev : Ptr, last : Ptr, curr : Ptr, nxt : Ptr, leader : Ptr,
          one_shuffle : {0, 1}, is_next_waiter : {0, 1}]
NoFrame == [prev |-> NULL, last |-> NULL, curr |-> NULL, nxt |-> NULL,
            leader |-> NULL, one_shuffle |-> 0, is_next_waiter |-> 0]

ParkPcs    == {"sleep", "futex", "asleep", "awake"}
ShufflePcs == {"pass", "scan", "tailcheck", "getnext", "unpark", "swake", "sfutex",
               "mark", "unlink", "relink", "insert", "ready", "appoint"}
QueuedPcs  == {"link", "spin", "park", "head", "steal", "free", "acquire",
               "getsucc", "castail", "waitsucc", "notify"}
              \cup ParkPcs \cup ShufflePcs
HoldPcs    == {"getsucc", "castail", "waitsucc", "notify", "enable",
               "hwake", "hfutex", "cs"}
Pcs        == {"idle", "swap"} \cup QueuedPcs \cup HoldPcs

Goto(t, l) == pc' = [pc EXCEPT ![t] = l]

\* A node outside the queue is dead, and takes the values it is created with.
NodeReset(t, s, n) ==
  /\ next'    = [next EXCEPT ![t] = NULL]
  /\ lstatus' = [lstatus EXCEPT ![t] = s]
  /\ sleader' = [sleader EXCEPT ![t] = 0]
  /\ wcount'  = [wcount EXCEPT ![t] = 0]
  /\ nid'     = [nid EXCEPT ![t] = n]
  /\ pstate'  = [pstate EXCEPT ![t] = 0]

aqm_mutex_create ==
  /\ locked = 0
  /\ no_stealing = 0
  /\ tail = NULL

Init ==
  /\ aqm_mutex_create
  /\ next        = [t \in Threads |-> NULL]
  /\ lstatus     = [t \in Threads |-> PARKED]
  /\ sleader     = [t \in Threads |-> 0]
  /\ wcount      = [t \in Threads |-> 0]
  /\ nid         = [t \in Threads |-> NULL]
  /\ pstate      = [t \in Threads |-> 0]
  /\ pc          = [t \in Threads |-> "idle"]
  /\ peer        = [t \in Threads |-> NULL]
  /\ should_park = [t \in Threads |-> 0]
  /\ sh          = [t \in Threads |-> NoFrame]

-----------------------------------------------------------------------------
(* __aqm_mutex_lock, up to the queue *)

\* cmpxchg of locked_no_stealing from 0 to 1; so does aqm_mutex_trylock with
\* the whole of val, whose other half is never written.
FastPath(t) ==
  /\ pc[t] = "idle"
  /\ locked = 0 /\ no_stealing = 0
  /\ locked' = 1
  /\ Goto(t, "cs")
  /\ UNCHANGED <<no_stealing, tail, nodeVars, peer, should_park, sh>>

\* The fast path fails and the node, still private, is initialised.
SlowPath(t) ==
  /\ pc[t] = "idle"
  /\ locked # 0 \/ no_stealing # 0
  /\ \E n \in Homes[t] : NodeReset(t, PWAIT, n)
  /\ Goto(t, "swap")
  /\ UNCHANGED <<lockVars, peer, should_park, sh>>

\* pred = smp_swap(&lock->tail, node); without a predecessor there is neither
\* parking nor shuffling.
SwapTail(t) ==
  /\ pc[t] = "swap"
  /\ tail' = t
  /\ peer' = [peer EXCEPT ![t] = tail]
  /\ should_park' = [should_park EXCEPT ![t] = 0]
  /\ Goto(t, IF tail = NULL THEN "steal" ELSE "link")
  /\ UNCHANGED <<locked, no_stealing, nodeVars, sh>>

\* WRITE_ONCE(pred->next, node)
LinkPrev(t) ==
  /\ pc[t] = "link"
  /\ next' = [next EXCEPT ![peer[t]] = t]
  /\ peer' = [peer EXCEPT ![t] = NULL]
  /\ Goto(t, "spin")
  /\ UNCHANGED <<lockVars, lstatus, sleader, wcount, nid, pstate, should_park, sh>>

-----------------------------------------------------------------------------
(* shuffle_waiters *)

\* MUTANT: the wait count is bumped at every round, not only from 0.
StartShuffle_AlwaysCount(t, isNext) ==
  /\ wcount'  = [wcount EXCEPT ![t] = wcount[t] + 1]
  /\ sleader' = [sleader EXCEPT ![t] = 0]
  /\ sh' = [sh EXCEPT ![t] = [NoFrame EXCEPT !.prev = t, !.last = t,
                                            !.is_next_waiter = isNext]]
  /\ Goto(t, "scan")
  /\ UNCHANGED <<lockVars, next, lstatus, nid, pstate, peer>>

\* MUTANT: the leader does not give up its appointment.
StartShuffle_KeepLeader(t, isNext) ==
  /\ wcount'  = [wcount EXCEPT ![t] = 1]
  /\ sh' = [sh EXCEPT ![t] = [NoFrame EXCEPT !.prev = t, !.last = t,
                                            !.is_next_waiter = isNext]]
  /\ Goto(t, "scan") \/ Goto(t, "pass")
  /\ UNCHANGED <<lockVars, next, lstatus, sleader, nid, pstate, peer>>

\* Entry: wcount becomes 1, the leadership is given up, and keep_lock_local()
\* draws whether to shuffle or to pass on.
StartShuffle(t, isNext) ==
  /\ wcount'  = [wcount EXCEPT ![t] = 1]
  /\ sleader' = [sleader EXCEPT ![t] = 0]
  /\ sh' = [sh EXCEPT ![t] = [NoFrame EXCEPT !.prev = t, !.last = t,
                                            !.is_next_waiter = isNext]]
  /\ \/ Goto(t, "scan")
     \/ Goto(t, "pass")
  /\ UNCHANGED <<lockVars, next, lstatus, nid, pstate, peer>>

Return(t) ==
  /\ Goto(t, IF sh[t].is_next_waiter = 1 THEN "head" ELSE "spin")
  /\ sh' = [sh EXCEPT ![t] = NoFrame]

Leave(t) ==
  /\ sh' = [sh EXCEPT ![t].leader = sh[t].last]
  /\ Goto(t, "appoint")

PassLeadership(t) ==
  /\ pc[t] = "pass"
  /\ IF next[t] = NULL
       THEN Return(t)
       ELSE /\ sh' = [sh EXCEPT ![t].leader = next[t]]
            /\ Goto(t, "appoint")
  /\ UNCHANGED <<lockVars, nodeVars, peer, should_park>>

Scan(t) ==
  /\ pc[t] = "scan"
  /\ LET curr == next[sh[t].prev]
     IN  IF curr = NULL
           THEN Leave(t)
           ELSE /\ sh' = [sh EXCEPT ![t].curr = curr]
                /\ Goto(t, "tailcheck")
  /\ UNCHANGED <<lockVars, nodeVars, peer, should_park>>

\* curr is the tail; or it is of another socket; or it extends the batch in
\* place; or it has to be moved.
TailCheck(t) ==
  /\ pc[t] = "tailcheck"
  /\ LET curr == sh[t].curr
     IN  \/ curr = tail /\ Leave(t)
         \/ /\ curr # tail
            /\ nid[curr] # nid[t]
            /\ sh' = [sh EXCEPT ![t].prev = curr]
            /\ Goto(t, "ready")
         \/ /\ curr # tail
            /\ nid[curr] = nid[t]
            /\ Goto(t, IF nid[sh[t].prev] = nid[t] THEN "unpark" ELSE "getnext")
            /\ UNCHANGED sh
  /\ UNCHANGED <<lockVars, nodeVars, peer, should_park>>

\* MUTANT: `if (!next)' is dropped.
GetNext_NoCheck(t) ==
  /\ pc[t] = "getnext"
  /\ sh' = [sh EXCEPT ![t].nxt = next[sh[t].curr]]
  /\ Goto(t, "unpark")
  /\ UNCHANGED <<lockVars, nodeVars, peer, should_park>>

\* next = READ_ONCE(curr->next), which ends the shuffling when it is not set.
GetNext(t) ==
  /\ pc[t] = "getnext"
  /\ LET nxt == next[sh[t].curr]
     IN  IF nxt = NULL
           THEN Leave(t)
           ELSE /\ sh' = [sh EXCEPT ![t].nxt = nxt]
                /\ Goto(t, "unpark")
  /\ UNCHANGED <<lockVars, nodeVars, peer, should_park>>

\* MUTANT: the status of a parked waiter changes but it is not woken.
Unpark_NoWake(t) ==
  /\ pc[t] = "unpark"
  /\ LET curr == sh[t].curr
     IN  lstatus' = [lstatus EXCEPT ![curr] = IF @ = PARKED THEN UNPWAIT ELSE @]
  /\ Goto(t, "mark")
  /\ UNCHANGED <<lockVars, next, sleader, wcount, nid, pstate, peer, should_park, sh>>

\* force_update_node: a waiter that is parked will be needed soon.  One that
\* is not parked yet stays PWAIT, and may still park itself.
Unpark(t) ==
  /\ pc[t] = "unpark"
  /\ LET curr == sh[t].curr
     IN  IF lstatus[curr] = PARKED
           THEN /\ lstatus' = [lstatus EXCEPT ![curr] = UNPWAIT]
                /\ Goto(t, "swake")
           ELSE Goto(t, "mark") /\ UNCHANGED lstatus
  /\ UNCHANGED <<lockVars, next, sleader, wcount, nid, pstate, peer, should_park, sh>>

\* WRITE_ONCE(curr->wcount, curr_locked_count)
Mark(t) ==
  /\ pc[t] = "mark"
  /\ LET curr == sh[t].curr
     IN  /\ wcount' = [wcount EXCEPT ![curr] = wcount[t]]
         /\ IF nid[sh[t].prev] = nid[t]
              THEN /\ sh' = [sh EXCEPT ![t] = [@ EXCEPT !.last = curr, !.prev = curr,
                                                       !.one_shuffle = 1]]
                   /\ Goto(t, "ready")
              ELSE Goto(t, "unlink") /\ UNCHANGED sh
  /\ UNCHANGED <<lockVars, next, lstatus, sleader, nid, pstate, peer, should_park>>

\* MUTANT: the moved waiter stays linked where it was.
Unlink_Skipped(t) ==
  /\ pc[t] = "unlink"
  /\ Goto(t, "relink")
  /\ UNCHANGED <<lockVars, nodeVars, peer, should_park, sh>>

\* prev->next = next
Unlink(t) ==
  /\ pc[t] = "unlink"
  /\ next' = [next EXCEPT ![sh[t].prev] = sh[t].nxt]
  /\ Goto(t, "relink")
  /\ UNCHANGED <<lockVars, lstatus, sleader, wcount, nid, pstate, peer, should_park, sh>>

\* curr->next = last->next
Relink(t) ==
  /\ pc[t] = "relink"
  /\ next' = [next EXCEPT ![sh[t].curr] = next[sh[t].last]]
  /\ Goto(t, "insert")
  /\ UNCHANGED <<lockVars, lstatus, sleader, wcount, nid, pstate, peer, should_park, sh>>

\* last->next = curr; last = curr; one_shuffle = 1
Insert(t) ==
  /\ pc[t] = "insert"
  /\ next' = [next EXCEPT ![sh[t].last] = sh[t].curr]
  /\ sh' = [sh EXCEPT ![t] = [@ EXCEPT !.last = sh[t].curr, !.one_shuffle = 1]]
  /\ Goto(t, "ready")
  /\ UNCHANGED <<lockVars, lstatus, sleader, wcount, nid, pstate, peer, should_park>>

\* Only the very next waiter stops early, when it sees the lock free.
Ready(t) ==
  /\ pc[t] = "ready"
  /\ IF sh[t].one_shuffle = 1 /\ sh[t].is_next_waiter = 1 /\ locked = 0
       THEN Leave(t)
       ELSE Goto(t, "scan") /\ UNCHANGED sh
  /\ UNCHANGED <<lockVars, nodeVars, peer, should_park>>

\* WRITE_ONCE(sleader->sleader, 1)
Appoint(t) ==
  /\ pc[t] = "appoint"
  /\ sleader' = [sleader EXCEPT ![sh[t].leader] = 1]
  /\ Return(t)
  /\ UNCHANGED <<lockVars, next, lstatus, wcount, nid, pstate, peer, should_park>>

-----------------------------------------------------------------------------
(* Waking: __waiting_policy_wake, for the shuffle leader (s...) and for the  *)
(* thread that hands over the head of the queue (h...).                      *)

Wakee(t) == IF pc[t] \in ShufflePcs THEN sh[t].curr ELSE peer[t]

\* *var = 1
SetPstate(t) ==
  /\ pc[t] \in {"swake", "hwake"}
  /\ pstate' = [pstate EXCEPT ![Wakee(t)] = 1]
  /\ Goto(t, IF pc[t] = "swake" THEN "sfutex" ELSE "hfutex")
  /\ UNCHANGED <<lockVars, next, lstatus, sleader, wcount, nid, peer, should_park, sh>>

\* futex(FUTEX_WAKE): wakes the thread if it is in FUTEX_WAIT by now.
FutexWake(t) ==
  /\ pc[t] \in {"sfutex", "hfutex"}
  /\ LET u == Wakee(t)
         l == IF pc[t] = "sfutex" THEN "mark" ELSE "cs"
     IN  pc' = [pc EXCEPT ![t] = l, ![u] = IF @ = "asleep" THEN "awake" ELSE @]
  /\ peer' = [peer EXCEPT ![t] = NULL]
  /\ UNCHANGED <<lockVars, nodeVars, should_park, sh>>

-----------------------------------------------------------------------------
(* __aqm_mutex_lock, in the queue *)

\* One READ_ONCE(node->locked) of the spinning loop: the very next waiter
\* leaves it, the appointed leader shuffles and will not park any more, the
\* others spin on, or park when SPINNING_THRESHOLD rounds are over.
Spin(t) ==
  /\ pc[t] = "spin"
  /\ \/ /\ lstatus[t] = LOCKED
        /\ Goto(t, "head")
        /\ UNCHANGED <<lockVars, nodeVars, peer, should_park, sh>>
     \/ /\ lstatus[t] # LOCKED /\ sleader[t] = 1
        /\ should_park' = [should_park EXCEPT ![t] = 1]
        /\ StartShuffle(t, 0)
     \/ /\ lstatus[t] # LOCKED /\ sleader[t] = 0 /\ should_park[t] = 0
        /\ Goto(t, "park")
        /\ UNCHANGED <<lockVars, nodeVars, peer, should_park, sh>>

\* MUTANT: PARKED is stored without a cmpxchg, over a LOCKED just received.
Park_Store(t) ==
  /\ pc[t] = "park"
  /\ lstatus' = [lstatus EXCEPT ![t] = PARKED]
  /\ Goto(t, "sleep")
  /\ UNCHANGED <<lockVars, next, sleader, wcount, nid, pstate, peer, should_park, sh>>

\* park_waiter: cmpxchg of lstatus from PWAIT to PARKED
Park(t) ==
  /\ pc[t] = "park"
  /\ IF lstatus[t] = PWAIT
       THEN lstatus' = [lstatus EXCEPT ![t] = PARKED] /\ Goto(t, "sleep")
       ELSE Goto(t, "spin") /\ UNCHANGED lstatus
  /\ UNCHANGED <<lockVars, next, sleader, wcount, nid, pstate, peer, should_park, sh>>

\* __waiting_policy_sleep: if (*var == 1) return
Sleep(t) ==
  /\ pc[t] = "sleep"
  /\ Goto(t, IF pstate[t] = 1 THEN "spin" ELSE "futex")
  /\ UNCHANGED <<lockVars, nodeVars, peer, should_park, sh>>

\* futex(FUTEX_WAIT): the word is compared and the thread put to sleep in one
\* step; EAGAIN if the word is not 0 any more.
FutexWait(t) ==
  /\ pc[t] = "futex"
  /\ Goto(t, IF pstate[t] = 0 THEN "asleep" ELSE "awake")
  /\ UNCHANGED <<lockVars, nodeVars, peer, should_park, sh>>

\* A signal (EINTR): the wait is retried.
Interrupt(t) ==
  /\ pc[t] = "asleep"
  /\ Goto(t, "futex")
  /\ UNCHANGED <<lockVars, nodeVars, peer, should_park, sh>>

\* while (*var != 1)
Awake(t) ==
  /\ pc[t] = "awake"
  /\ pstate[t] = 1
  /\ Goto(t, "spin")
  /\ UNCHANGED <<lockVars, nodeVars, peer, should_park, sh>>

\* The very next waiter, which had a predecessor: leaves for the lock when it
\* is free, and else shuffles if nobody batched it or somebody appointed it.
\* Its own wcount and sleader have no other writer by now.
HeadShuffle(t) ==
  /\ pc[t] = "head"
  /\ \/ /\ locked = 0
        /\ Goto(t, "steal")
        /\ UNCHANGED <<lockVars, nodeVars, peer, should_park, sh>>
     \/ /\ locked # 0
        /\ wcount[t] = 0 \/ sleader[t] = 1
        /\ StartShuffle(t, 1)
        /\ UNCHANGED should_park

\* if (is_stealing_disabled(lock)) disable_stealing(lock): the function by
\* that name clears no_stealing, and so opens the fast path.
DisableStealing(t) ==
  /\ pc[t] = "steal"
  /\ no_stealing' = 0
  /\ Goto(t, "free")
  /\ UNCHANGED <<locked, tail, nodeVars, peer, should_park, sh>>

\* while (READ_ONCE(lock->locked))
AwaitFree(t) ==
  /\ pc[t] = "free"
  /\ locked = 0
  /\ Goto(t, "acquire")
  /\ UNCHANGED <<lockVars, nodeVars, peer, should_park, sh>>

\* MUTANT: having read locked = 0, the head stores 1 without a cmpxchg.
Acquire_Store(t) ==
  /\ pc[t] = "acquire"
  /\ locked' = 1
  /\ Goto(t, "getsucc")
  /\ UNCHANGED <<no_stealing, tail, nodeVars, peer, should_park, sh>>

\* cmpxchg of locked from 0 to 1
Acquire(t) ==
  /\ pc[t] = "acquire"
  /\ locked' = 1
  /\ Goto(t, IF locked = 0 THEN "getsucc" ELSE "steal")
  /\ UNCHANGED <<no_stealing, tail, nodeVars, peer, should_park, sh>>

\* succ = READ_ONCE(node->next)
GetSuccessor(t) ==
  /\ pc[t] = "getsucc"
  /\ peer' = [peer EXCEPT ![t] = next[t]]
  /\ Goto(t, IF next[t] = NULL THEN "castail" ELSE "notify")
  /\ UNCHANGED <<lockVars, nodeVars, should_park, sh>>

\* MUTANT: succ is not read again after the cmpxchg of the tail failed.
CasTail_NoWait(t) ==
  /\ pc[t] = "castail"
  /\ IF tail = t
       THEN tail' = NULL /\ NodeReset(t, PARKED, NULL) /\ Goto(t, "enable")
       ELSE Goto(t, "notify") /\ UNCHANGED <<tail, nodeVars>>
  /\ UNCHANGED <<locked, no_stealing, peer, should_park, sh>>

\* cmpxchg of tail from node to NULL: the queue is empty again, or somebody
\* has swapped the tail and will link.
CasTail(t) ==
  /\ pc[t] = "castail"
  /\ IF tail = t
       THEN tail' = NULL /\ NodeReset(t, PARKED, NULL) /\ Goto(t, "enable")
       ELSE Goto(t, "waitsucc") /\ UNCHANGED <<tail, nodeVars>>
  /\ UNCHANGED <<locked, no_stealing, peer, should_park, sh>>

\* enable_stealing: sets no_stealing, and so closes the fast path.
EnableStealing(t) ==
  /\ pc[t] = "enable"
  /\ no_stealing' = 1
  /\ Goto(t, "cs")
  /\ UNCHANGED <<locked, tail, nodeVars, peer, should_park, sh>>

WaitSuccessor(t) ==
  /\ pc[t] = "waitsucc"
  /\ next[t] # NULL
  /\ peer' = [peer EXCEPT ![t] = next[t]]
  /\ Goto(t, "notify")
  /\ UNCHANGED <<lockVars, nodeVars, should_park, sh>>

\* prev_lstatus = smp_swap(&succ->lstatus, LOCKED), and the wake-up if it was
\* PARKED.  The caller's own node is not used any more.
Notify(t) ==
  /\ pc[t] = "notify"
  /\ LET succ == peer[t]
     IN  /\ lstatus' = [lstatus EXCEPT ![succ] = LOCKED, ![t] = PARKED]
         /\ IF lstatus[succ] = PARKED
              THEN Goto(t, "hwake") /\ UNCHANGED peer
              ELSE Goto(t, "cs") /\ peer' = [peer EXCEPT ![t] = NULL]
  /\ next'    = [next EXCEPT ![t] = NULL]
  /\ sleader' = [sleader EXCEPT ![t] = 0]
  /\ wcount'  = [wcount EXCEPT ![t] = 0]
  /\ nid'     = [nid EXCEPT ![t] = NULL]
  /\ pstate'  = [pstate EXCEPT ![t] = 0]
  /\ UNCHANGED <<lockVars, should_park, sh>>

-----------------------------------------------------------------------------
\* __aqm_mutex_unlock
Unlock(t) ==
  /\ pc[t] = "cs"
  /\ locked' = 0
  /\ Goto(t, "idle")
  /\ UNCHANGED <<no_stealing, tail, nodeVars, peer, should_park, sh>>

Shuffle(t) ==
  \/ PassLeadership(t) \/ Scan(t) \/ TailCheck(t) \/ GetNext(t) \/ Unpark(t)
  \/ Mark(t) \/ Unlink(t) \/ Relink(t) \/ Insert(t) \/ Ready(t) \/ Appoint(t)

InLock(t) ==
  \/ SwapTail(t) \/ LinkPrev(t) \/ Spin(t) \/ Park(t) \/ Sleep(t) \/ FutexWait(t)
  \/ Awake(t) \/ SetPstate(t) \/ FutexWake(t) \/ HeadShuffle(t)
  \/ DisableStealing(t) \/ AwaitFree(t) \/ Acquire(t) \/ GetSuccessor(t)
  \/ CasTail(t) \/ EnableStealing(t) \/ WaitSuccessor(t) \/ Notify(t)

Next ==
  \E t \in Threads :
    \/ FastPath(t) \/ SlowPath(t) \/ InLock(t) \/ Shuffle(t)
    \/ Interrupt(t) \/ Unlock(t)

Spec == Init /\ [][Next]_vars

\* A thread inside lock or in its critical section keeps being scheduled,
\* unless it sleeps; a thread outside need never call lock again, and signals
\* need not come.
FairSpec ==
  Spec /\ \A t \in Threads : WF_vars(InLock(t) \/ Shuffle(t) \/ Unlock(t))

-----------------------------------------------------------------------------
(* The waiting queue, as in Aqs *)

Queued == {t \in Threads : pc[t] \in QueuedPcs}

PendingStores ==
  LET Movers == {m \in Threads : pc[m] \in {"relink", "insert"}}
  IN  {[at |-> peer[v], to |-> v] : v \in {u \in Threads : pc[u] = "link"}}
      \cup {[at |-> sh[m].last, to |-> sh[m].curr] : m \in Movers}
      \cup {[at |-> sh[m].curr, to |-> next[sh[m].last]] : m \in Movers}

IsHead(t) ==
  \/ pc[t] \in {"head", "steal", "free", "acquire", "getsucc", "castail",
                "waitsucc", "notify"}
  \/ pc[t] \in ShufflePcs /\ sh[t].is_next_waiter = 1
  \/ lstatus[t] = LOCKED

Heads == {t \in Queued : IsHead(t)}

QueueOrder ==
  LET front == IF Heads = {} THEN NULL ELSE CHOOSE t \in Heads : TRUE
      succ  == WithStores(next, PendingStores, Ptr)
      n     == Cardinality(Queued)
  IN  ListFrom(succ, front, n)

Holders == {t \in Threads : pc[t] \in HoldPcs}

-----------------------------------------------------------------------------
(* Properties *)

\* The type of every variable.
TypeOK ==
  /\ locked \in {0, 1} /\ no_stealing \in {0, 1} /\ tail \in Ptr
  /\ next \in [Threads -> Ptr]
  /\ lstatus \in [Threads -> {PARKED, PWAIT, LOCKED, UNPWAIT}]
  /\ sleader \in [Threads -> {0, 1}]
  /\ wcount \in [Threads -> {0, 1}]
  /\ nid \in [Threads -> Sockets \cup {NULL}]
  /\ pstate \in [Threads -> {0, 1}]
  /\ pc \in [Threads -> Pcs]
  /\ peer \in [Threads -> Ptr]
  /\ should_park \in [Threads -> {0, 1}]
  /\ sh \in [Threads -> Frame]

\* Mutual exclusion: the fast path, open to stealers whenever somebody waits
\* at the head, races with the head on locked; one of them holds the lock,
\* exactly while the word is set.
MutualExclusion ==
  /\ \A t, u \in Holders : t = u
  /\ locked = 1 <=> Holders # {}

\* No waiter is lost or duplicated while leaders reorder, threads enqueue and
\* park, and heads leave.
QueueIntact ==
  LET q == QueueOrder
      n == Cardinality(Queued)
  IN  IF n = 0 THEN tail = NULL
      ELSE /\ Cardinality(Heads) = 1
           /\ {q[i] : i \in 1..n} = Queued
           /\ q[n] = tail

\* shuffle_waiters takes no lock, so at most one thread is in it, is appointed
\* to enter it, or will enter it by itself as an unbatched very next waiter.
SingleShuffler ==
  \A t, u \in Queued :
    LET StartsAlone(x) == /\ x \in Heads /\ wcount[x] = 0
                          /\ pc[x] \in {"spin", "park", "head"} \cup ParkPcs
        Leads(x) == pc[x] \in ShufflePcs \/ sleader[x] = 1 \/ StartsAlone(x)
    IN  Leads(t) /\ Leads(u) => t = u

\* Every access by pointer is to a node that is still queued: the leader only
\* sees nodes at or behind itself, and whoever wakes a thread writes its
\* pstate before that thread can leave lock (and, in aqmwonode.c, return from
\* the stack frame the word is in).
NodesAlive ==
  LET q == QueueOrder
  IN  /\ \A t \in Queued : pc[t] \in ShufflePcs =>
           {sh[t].prev, sh[t].last, sh[t].curr, sh[t].nxt, sh[t].leader}
             \subseteq FromOn(q, t) \cup {NULL}
      /\ \A t \in Threads : pc[t] \in {"notify", "hwake", "hfutex"} => peer[t] \in Queued

\* No wake-up is lost between the cmpxchg that parks a thread and the futex
\* wait: a thread whose status somebody has changed while it was parked, and
\* that could sleep through it, has a waker under way.
NoLostWakeup ==
  \A u \in Threads :
    pc[u] \in {"sleep", "futex", "asleep"} /\ lstatus[u] # PARKED
      => \/ \E t \in Threads : pc[t] \in {"swake", "hwake", "sfutex", "hfutex"}
                                /\ Wakee(t) = u
         \/ pstate[u] = 1 /\ pc[u] # "asleep"

\* Somebody who waits is followed by somebody who holds, although waiters
\* sleep, leaders among them.
Progress ==
  (\E t \in Threads : pc[t] \in QueuedPcs \ HoldPcs) ~> (Holders # {})

-----------------------------------------------------------------------------
(* What the lock promises: ShflQueue *)

WaitQueue ==
  LET q == QueueOrder
  IN  IF Heads \cap Holders # {} THEN Tail(q) ELSE q

Owner == IF Holders = {} THEN NULL ELSE CHOOSE t \in Holders : TRUE

Abs == INSTANCE ShflQueue WITH owner <- Owner, queue <- WaitQueue, socket <- nid

\* The blocking lock implements the same abstract shuffled queue.
Refinement == Abs!Spec
=============================================================================
