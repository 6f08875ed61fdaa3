------------------------------ MODULE AqsProof ------------------------------
(***************************************************************************)
(* Theorems about Aqs for any number of threads and sockets: the types of  *)
(* its variables, mutual exclusion, the invariant of its waiting queue,    *)
(* and, from that, the properties of Aqs and its refinement of ShflQueue.  *)
(***************************************************************************)
EXTENDS Aqs, FiniteSetTheorems, FunctionTheorems, WellFoundedInduction, TLAPS

(***************************************************************************)
(* TypeOK alone is not inductive: Scan, GetNext and Relink read the next   *)
(* field of a local of shuffle_waiters, whose type follows only if that    *)
(* local is a node.  FrameOK says where each local is known to be one.     *)
(***************************************************************************)
FrameOK ==
  \A t \in Threads :
    /\ pc[t] \in {"scan", "tailcheck", "getnext", "unlink", "relink", "insert", "ready"}
         => sh[t].prev \in Threads /\ sh[t].last \in Threads
    /\ pc[t] \in {"tailcheck", "getnext", "unlink", "relink", "insert"}
         => sh[t].curr \in Threads

TypeInv == TypeOK /\ FrameOK

\* The initial state is well typed.
LEMMA InitTypeInv == Init => TypeInv
  BY AqsAssumption
  DEF Init, aqs_mutex_create, TypeInv, TypeOK, FrameOK, Ptr, Frame, NoFrame, Pcs

\* Storing a frame leaves the other threads' frames alone.
LEMMA FrameStep ==
  ASSUME TypeInv, NEW t \in Threads, NEW f \in Frame, NEW l \in Pcs,
         sh' = [sh EXCEPT ![t] = f], Goto(t, l),
         l \in {"scan", "tailcheck", "getnext", "unlink", "relink", "insert", "ready"}
           => f.prev \in Threads /\ f.last \in Threads,
         l \in {"tailcheck", "getnext", "unlink", "relink", "insert"}
           => f.curr \in Threads
  PROVE  /\ sh' \in [Threads -> Frame]
         /\ pc' \in [Threads -> Pcs]
         /\ FrameOK'
  <1>1. sh \in [Threads -> Frame] /\ pc \in [Threads -> Pcs]
    BY DEF TypeInv, TypeOK
  <1>2. sh' \in [Threads -> Frame] /\ pc' \in [Threads -> Pcs]
    BY <1>1 DEF Goto
  <1>3. sh'[t] = f /\ pc'[t] = l
    BY <1>1 DEF Goto
  <1>4. \A u \in Threads \ {t} : sh'[u] = sh[u] /\ pc'[u] = pc[u]
    BY <1>1 DEF Goto
  <1>5. FrameOK'
    BY <1>3, <1>4 DEF FrameOK, TypeInv
  <1> QED
    BY <1>2, <1>5

\* Leaving the loop for set_sleader keeps the types.
LEMMA LeaveStep ==
  ASSUME TypeInv, NEW t \in Threads, Leave(t, sh[t])
  PROVE  /\ sh' \in [Threads -> Frame]
         /\ pc' \in [Threads -> Pcs]
         /\ FrameOK'
  <1> DEFINE f == [sh[t] EXCEPT !.leader = sh[t].last, !.qend = sh[t].prev]
  <1>1. sh[t] \in Frame
    BY DEF TypeInv, TypeOK
  <1>2. f \in Frame
    BY <1>1 DEF Frame
  <1>3. sh' = [sh EXCEPT ![t] = f] /\ Goto(t, "appoint")
    BY DEF Leave
  <1> QED
    BY <1>2, <1>3, FrameStep, "appoint" \in Pcs DEF Pcs, QueuedPcs, ShufflePcs

\* Returning from shuffle_waiters keeps the types.
LEMMA ReturnStep ==
  ASSUME TypeInv, NEW t \in Threads, Return(t)
  PROVE  /\ sh' \in [Threads -> Frame]
         /\ pc' \in [Threads -> Pcs]
         /\ FrameOK'
  <1>1. NoFrame \in Frame
    BY DEF NoFrame, Frame, Ptr
  <1>2. PICK l \in {"head", "wait"} : Goto(t, l)
    BY DEF Return
  <1>3. l \in Pcs
    BY DEF Pcs, QueuedPcs
  <1> QED
    BY <1>1, <1>2, <1>3, FrameStep DEF Return

\* Entering shuffle_waiters keeps the types.
LEMMA StartStep ==
  ASSUME TypeInv, NEW t \in Threads, NEW b \in {0, 1}, StartShuffle(t, b)
  PROVE  TypeInv'
  <1> DEFINE f == [NoFrame EXCEPT
                     !.prev = IF last_visited[t] = NULL THEN t ELSE last_visited[t],
                     !.last = t,
                     !.is_next_waiter = b]
  <1>1. last_visited[t] \in Ptr
    BY DEF TypeInv, TypeOK
  <1>2. f \in Frame /\ f.prev \in Threads /\ f.last \in Threads
    BY <1>1 DEF NoFrame, Frame, Ptr
  <1>3. sh' = [sh EXCEPT ![t] = f]
    BY DEF StartShuffle
  <1>4. PICK l \in {"scan", "pass"} : Goto(t, l)
    BY DEF StartShuffle
  <1>5. l \in Pcs
    BY DEF Pcs, QueuedPcs, ShufflePcs
  <1> HIDE DEF f
  <1>6. sh' \in [Threads -> Frame] /\ pc' \in [Threads -> Pcs] /\ FrameOK'
    BY <1>2, <1>3, <1>4, <1>5, FrameStep
  <1> QED
    BY <1>6 DEF StartShuffle, TypeInv, TypeOK, lockVars

\* A step that leaves the frames alone and moves the program counter
\* elsewhere than into the loop of shuffle_waiters.
LEMMA PcStep ==
  ASSUME TypeInv, NEW t \in Threads, NEW l \in Pcs, Goto(t, l), UNCHANGED sh,
         l \notin {"scan", "tailcheck", "getnext", "unlink", "relink", "insert", "ready"}
  PROVE  /\ sh' \in [Threads -> Frame]
         /\ pc' \in [Threads -> Pcs]
         /\ FrameOK'
  <1>1. sh \in [Threads -> Frame] /\ pc \in [Threads -> Pcs]
    BY DEF TypeInv, TypeOK
  <1>2. sh' \in [Threads -> Frame] /\ pc' \in [Threads -> Pcs]
    BY <1>1 DEF Goto
  <1>3. pc'[t] = l /\ \A u \in Threads \ {t} : pc'[u] = pc[u]
    BY <1>1 DEF Goto
  <1>4. FrameOK'
    BY <1>3 DEF FrameOK, TypeInv
  <1> QED
    BY <1>2, <1>4

\* Every action preserves the types.
LEMMA NextTypeInv ==
  ASSUME TypeInv, [Next]_vars
  PROVE  TypeInv'
  <1> USE AqsAssumption
  <1>0. CASE UNCHANGED vars
    BY <1>0 DEF vars, lockVars, nodeVars, TypeInv, TypeOK, FrameOK
  <1>n. ASSUME NEW t \in Threads,
               FastPath(t) \/ SlowPath(t) \/ TryLock(t) \/ InLock(t) \/ Shuffle(t) \/ Unlock(t)
        PROVE  TypeInv'
    <2> USE DEF TypeInv, TypeOK, Ptr, Pcs, QueuedPcs, HoldPcs, ShufflePcs, lockVars, nodeVars
    <2>1. CASE FastPath(t)
      BY <1>n, <2>1, PcStep DEF FastPath
    <2>2. CASE SlowPath(t)
      BY <1>n, <2>2, PcStep DEF SlowPath, NodeReset
    <2>3. CASE SwapTail(t)
      BY <1>n, <2>3, PcStep DEF SwapTail
    <2>4. CASE LinkPrev(t)
      BY <1>n, <2>4, PcStep DEF LinkPrev
    <2>5. CASE DisableStealing(t)
      BY <1>n, <2>5, PcStep DEF DisableStealing
    <2>6. CASE CheckTurn(t)
      BY <1>n, <2>6, PcStep DEF CheckTurn
    <2>8. CASE CheckLocked(t)
      BY <1>n, <2>8, PcStep DEF CheckLocked
    <2>10. CASE Acquire(t)
      BY <1>n, <2>10, PcStep DEF Acquire
    <2>11. CASE GetSuccessor(t)
      BY <1>n, <2>11, PcStep DEF GetSuccessor
    <2>12. CASE CasTail(t)
      BY <1>n, <2>12, PcStep DEF CasTail, NodeReset
    <2>13. CASE EnableStealing(t)
      BY <1>n, <2>13, PcStep DEF EnableStealing
    <2>14. CASE WaitSuccessor(t)
      BY <1>n, <2>14, PcStep DEF WaitSuccessor
    <2>15. CASE Notify(t)
      BY <1>n, <2>15, PcStep DEF Notify
    <2>16. CASE TryLock(t)
      BY <1>n, <2>16, PcStep DEF TryLock
    <2>17. CASE Unlock(t)
      BY <1>n, <2>17, PcStep DEF Unlock
    <2>7. CASE WaiterShuffle(t)
      <3>1. CASE sleader[t] = 1
        BY <1>n, <2>7, <3>1, StartStep DEF WaiterShuffle
      <3>2. CASE sleader[t] # 1
        BY <1>n, <2>7, <3>2, PcStep DEF WaiterShuffle
      <3> QED
        BY <3>1, <3>2
    <2>9. CASE HeadShuffle(t)
      <3>1. CASE wcount[t] = 0 \/ sleader[t] = 1
        BY <1>n, <2>9, <3>1, StartStep DEF HeadShuffle
      <3>2. CASE ~(wcount[t] = 0 \/ sleader[t] = 1)
        BY <1>n, <2>9, <3>2, PcStep DEF HeadShuffle
      <3> QED
        BY <3>1, <3>2
    <2>18. CASE PassLeadership(t)
      <3>1. CASE next[t] = NULL
        BY <1>n, <2>18, <3>1, ReturnStep DEF PassLeadership
      <3>2. CASE next[t] # NULL
        <4> DEFINE f == [sh[t] EXCEPT !.leader = next[t]]
        <4>1. f \in Frame
          BY <1>n DEF Frame
        <4>2. sh' = [sh EXCEPT ![t] = f] /\ Goto(t, "appoint")
          BY <2>18, <3>2 DEF PassLeadership
        <4> QED
          BY <1>n, <2>18, <4>1, <4>2, FrameStep DEF PassLeadership
      <3> QED
        BY <3>1, <3>2
    <2>19. CASE Scan(t)
      <3>1. sh[t].prev \in Threads /\ sh[t].last \in Threads
        BY <1>n, <2>19 DEF Scan, FrameOK
      <3>2. next[sh[t].prev] \in Ptr
        BY <3>1
      <3>3. CASE next[sh[t].prev] = NULL
        BY <1>n, <2>19, <3>3, LeaveStep DEF Scan
      <3>4. CASE next[sh[t].prev] # NULL
        <4> DEFINE f == [sh[t] EXCEPT !.curr = next[sh[t].prev]]
        <4>1. f \in Frame /\ f.curr \in Threads
              /\ f.prev \in Threads /\ f.last \in Threads
          BY <1>n, <3>1, <3>2, <3>4 DEF Frame
        <4>2. sh' = [sh EXCEPT ![t] = f] /\ Goto(t, "tailcheck")
          BY <2>19, <3>4 DEF Scan
        <4> HIDE DEF f
        <4>3. sh' \in [Threads -> Frame] /\ pc' \in [Threads -> Pcs] /\ FrameOK'
          BY <1>n, <4>1, <4>2, FrameStep
        <4> QED
          BY <2>19, <4>3 DEF Scan
      <3> QED
        BY <3>3, <3>4
    <2>20. CASE TailCheck(t)
      <3> DEFINE c == sh[t].curr
      <3>1. sh[t].prev \in Threads /\ sh[t].last \in Threads /\ c \in Threads
        BY <1>n, <2>20 DEF TailCheck, FrameOK
      <3>2. wcount' \in [Threads -> {0, 1}]
        BY <1>n, <2>20 DEF TailCheck
      <3>3. sh' \in [Threads -> Frame] /\ pc' \in [Threads -> Pcs] /\ FrameOK'
        <4>1. CASE Leave(t, sh[t])
          BY <1>n, <4>1, LeaveStep
        <4>2. CASE sh' = [sh EXCEPT ![t].prev = c] /\ Goto(t, "ready")
          <5> DEFINE f == [sh[t] EXCEPT !.prev = c]
          <5>1. f \in Frame /\ f.prev \in Threads /\ f.last \in Threads
            BY <1>n, <3>1 DEF Frame
          <5>2. sh' = [sh EXCEPT ![t] = f]
            BY <4>2
          <5> HIDE DEF f
          <5> QED
            BY <1>n, <4>2, <5>1, <5>2, FrameStep
        <4>3. CASE sh' = [sh EXCEPT ![t] = [@ EXCEPT !.last = c, !.prev = c, !.one_shuffle = 1]]
                   /\ Goto(t, "ready")
          <5> DEFINE f == [sh[t] EXCEPT !.last = c, !.prev = c, !.one_shuffle = 1]
          <5>0. sh[t] \in Frame
            BY <1>n
          <5>1. f \in Frame /\ f.prev \in Threads /\ f.last \in Threads
            BY <3>1, <5>0 DEF Frame
          <5>2. sh' = [sh EXCEPT ![t] = f]
            BY <4>3
          <5> HIDE DEF f
          <5> QED
            BY <1>n, <4>3, <5>1, <5>2, FrameStep
        <4>4. CASE UNCHANGED sh /\ Goto(t, "getnext")
          <5>1. sh' = [sh EXCEPT ![t] = sh[t]]
            BY <4>4
          <5> QED
            BY <1>n, <3>1, <4>4, <5>1, FrameStep
        <4> QED
          BY <2>20, <4>1, <4>2, <4>3, <4>4 DEF TailCheck
      <3> QED
        BY <2>20, <3>2, <3>3 DEF TailCheck
    <2>21. CASE GetNext(t)
      <3>1. sh[t].prev \in Threads /\ sh[t].last \in Threads /\ sh[t].curr \in Threads
        BY <1>n, <2>21 DEF GetNext, FrameOK
      <3>2. CASE next[sh[t].curr] = NULL
        BY <1>n, <2>21, <3>2, LeaveStep DEF GetNext
      <3>3. CASE next[sh[t].curr] # NULL
        <4> DEFINE f == [sh[t] EXCEPT !.nxt = next[sh[t].curr]]
        <4>1. f \in Frame /\ f.prev \in Threads /\ f.last \in Threads /\ f.curr \in Threads
          BY <1>n, <3>1 DEF Frame
        <4>2. sh' = [sh EXCEPT ![t] = f] /\ Goto(t, "unlink")
          BY <2>21, <3>3 DEF GetNext
        <4> HIDE DEF f
        <4>3. sh' \in [Threads -> Frame] /\ pc' \in [Threads -> Pcs] /\ FrameOK'
          BY <1>n, <4>1, <4>2, FrameStep
        <4> QED
          BY <1>n, <2>21, <3>3, <4>3 DEF GetNext
      <3> QED
        BY <3>2, <3>3
    <2>22. CASE Unlink(t)
      <3>1. sh' = [sh EXCEPT ![t] = sh[t]]
        BY <2>22 DEF Unlink
      <3>2. sh' \in [Threads -> Frame] /\ pc' \in [Threads -> Pcs] /\ FrameOK'
        BY <1>n, <2>22, <3>1, FrameStep DEF Unlink, FrameOK
      <3>3. sh[t].nxt \in Ptr
        BY <1>n DEF Frame
      <3> QED
        BY <2>22, <3>2, <3>3 DEF Unlink
    <2>23. CASE Relink(t)
      <3>1. sh' = [sh EXCEPT ![t] = sh[t]]
        BY <2>23 DEF Relink
      <3>2. sh' \in [Threads -> Frame] /\ pc' \in [Threads -> Pcs] /\ FrameOK'
        BY <1>n, <2>23, <3>1, FrameStep DEF Relink, FrameOK
      <3>3. next[sh[t].last] \in Ptr
        BY <1>n, <2>23 DEF Relink, FrameOK
      <3> QED
        BY <2>23, <3>2, <3>3 DEF Relink
    <2>24. CASE Insert(t)
      <3> DEFINE f == [sh[t] EXCEPT !.last = sh[t].curr, !.one_shuffle = 1]
      <3>1. sh[t].prev \in Threads /\ sh[t].curr \in Threads
        BY <1>n, <2>24 DEF Insert, FrameOK
      <3>0. sh[t] \in Frame
        BY <1>n
      <3>2. f \in Frame /\ f.prev \in Threads /\ f.last \in Threads
        BY <3>0, <3>1 DEF Frame
      <3>4. sh' = [sh EXCEPT ![t] = f]
        BY <2>24 DEF Insert
      <3> HIDE DEF f
      <3>5. sh' \in [Threads -> Frame] /\ pc' \in [Threads -> Pcs] /\ FrameOK'
        BY <1>n, <2>24, <3>2, <3>4, FrameStep DEF Insert
      <3> QED
        BY <2>24, <3>1, <3>5 DEF Insert
    <2>25. CASE Ready(t)
      <3>1. CASE Leave(t, sh[t])
        BY <1>n, <2>25, <3>1, LeaveStep DEF Ready
      <3>2. CASE Goto(t, "scan") /\ UNCHANGED sh
        <4>1. sh' = [sh EXCEPT ![t] = sh[t]]
          BY <3>2
        <4>2. sh' \in [Threads -> Frame] /\ pc' \in [Threads -> Pcs] /\ FrameOK'
          BY <1>n, <2>25, <3>2, <4>1, FrameStep DEF Ready, FrameOK
        <4> QED
          BY <2>25, <4>2 DEF Ready
      <3> QED
        BY <2>25, <3>1, <3>2 DEF Ready
    <2>26. CASE Appoint(t)
      <3>1. CASE sh[t].qend = sh[t].leader
        BY <1>n, <2>26, <3>1, ReturnStep DEF Appoint
      <3>2. CASE sh[t].qend # sh[t].leader
        BY <1>n, <2>26, <3>2, PcStep DEF Appoint
      <3> QED
        BY <3>1, <3>2
    <2>27. CASE SetLastVisited(t)
      <3>1. sh[t].qend \in Ptr
        BY <1>n DEF Frame
      <3> QED
        BY <1>n, <2>27, <3>1, ReturnStep DEF SetLastVisited
    <2> QED
      BY <1>n, <2>1, <2>2, <2>3, <2>4, <2>5, <2>6, <2>7, <2>8, <2>9, <2>10, <2>11,
         <2>12, <2>13, <2>14, <2>15, <2>16, <2>17, <2>18, <2>19, <2>20, <2>21,
         <2>22, <2>23, <2>24, <2>25, <2>26, <2>27
      DEF InLock, Shuffle
  <1> QED
    BY <1>0, <1>n DEF Next

\* Every variable of the lock, of its nodes and of the threads keeps its type,
\* whatever the number of threads and sockets.
THEOREM TypeCorrect == Spec => []TypeOK
  <1>1. TypeInv /\ [Next]_vars => TypeInv'
    BY NextTypeInv
  <1> QED
    BY InitTypeInv, <1>1, PTL DEF Spec, TypeInv

-----------------------------------------------------------------------------
(***************************************************************************)
(* Mutual exclusion is inductive once the types are known: locked is set   *)
(* only by a compare-and-swap from 0, that is when nobody holds the lock,  *)
(* and cleared only by the holder.                                         *)
(***************************************************************************)

\* A step of t that neither takes nor gives up the lock.
LEMMA HoldersKept ==
  ASSUME TypeOK, MutualExclusion, NEW t \in Threads, NEW l \in Pcs,
         Goto(t, l), UNCHANGED locked, pc[t] \in HoldPcs <=> l \in HoldPcs
  PROVE  MutualExclusion'
  <1>1. pc'[t] = l /\ \A u \in Threads \ {t} : pc'[u] = pc[u]
    BY DEF TypeOK, Goto
  <1>2. Holders' = Holders
    BY <1>1 DEF Holders
  <1> QED
    BY <1>2 DEF MutualExclusion

\* A step of t that swaps locked from 0 to 1.
LEMMA HolderEnters ==
  ASSUME TypeOK, MutualExclusion, NEW t \in Threads, NEW l \in HoldPcs,
         Goto(t, l), locked = 0, locked' = 1
  PROVE  MutualExclusion'
  <1>1. pc'[t] = l /\ \A u \in Threads \ {t} : pc'[u] = pc[u]
    BY DEF TypeOK, Goto
  <1>2. Holders = {}
    BY DEF MutualExclusion
  <1>3. Holders' = {t}
    BY <1>1, <1>2 DEF Holders
  <1> QED
    BY <1>3 DEF MutualExclusion

\* No step lets a second thread in, or loses track of the holder in locked.
LEMMA NextMutualExclusion ==
  ASSUME TypeInv, MutualExclusion, [Next]_vars
  PROVE  MutualExclusion'
  <1> USE DEF TypeInv
  <1>0. CASE UNCHANGED vars
    BY <1>0 DEF vars, lockVars, MutualExclusion, Holders
  <1>n. ASSUME NEW t \in Threads,
               FastPath(t) \/ SlowPath(t) \/ TryLock(t) \/ InLock(t) \/ Shuffle(t) \/ Unlock(t)
        PROVE  MutualExclusion'
    <2>1. CASE FastPath(t) \/ TryLock(t) \/ Acquire(t)
      BY <2>1, <1>n, HolderEnters DEF FastPath, TryLock, Acquire, HoldPcs
    <2>2. CASE Unlock(t)
      <3>1. t \in Holders
        BY <2>2 DEF Unlock, Holders, HoldPcs
      <3>2. Holders = {t}
        BY <3>1 DEF MutualExclusion
      <3>3. pc'[t] = "idle" /\ \A u \in Threads \ {t} : pc'[u] = pc[u]
        BY <2>2 DEF Unlock, Goto, TypeOK
      <3>4. Holders' = {}
        BY <3>2, <3>3 DEF Holders, HoldPcs
      <3>5. locked' = 0
        BY <2>2 DEF Unlock
      <3> QED
        BY <3>4, <3>5 DEF MutualExclusion
    <2>3. ASSUME SlowPath(t) \/ SwapTail(t) \/ LinkPrev(t) \/ DisableStealing(t)
                 \/ CheckTurn(t) \/ CheckLocked(t) \/ Shuffle(t)
                 \/ WaiterShuffle(t) \/ HeadShuffle(t)
          PROVE  MutualExclusion'
      <3>1. UNCHANGED locked /\ pc[t] \notin HoldPcs
        BY <2>3 DEF SlowPath, SwapTail, LinkPrev, DisableStealing, CheckTurn, CheckLocked,
          Shuffle, PassLeadership, Scan, TailCheck, GetNext, Unlink, Relink, Insert, Ready,
          Appoint, SetLastVisited, WaiterShuffle, HeadShuffle, StartShuffle, HoldPcs, lockVars
      <3>2. \E l \in Pcs \ HoldPcs : Goto(t, l)
        BY <2>3, Zenon DEF SlowPath, SwapTail, LinkPrev, DisableStealing, CheckTurn, CheckLocked,
          Shuffle, PassLeadership, Scan, TailCheck, GetNext, Unlink, Relink, Insert, Ready,
          Appoint, SetLastVisited, WaiterShuffle, HeadShuffle, StartShuffle, Leave, Return,
          HoldPcs, Pcs, QueuedPcs, ShufflePcs
      <3> QED
        BY <3>1, <3>2, HoldersKept
    <2>4. ASSUME GetSuccessor(t) \/ CasTail(t) \/ EnableStealing(t)
                 \/ WaitSuccessor(t) \/ Notify(t)
          PROVE  MutualExclusion'
      <3>1. UNCHANGED locked /\ pc[t] \in HoldPcs
        BY <2>4 DEF GetSuccessor, CasTail, EnableStealing, WaitSuccessor, Notify, HoldPcs, lockVars
      <3>2. \E l \in Pcs \cap HoldPcs : Goto(t, l)
        BY <2>4 DEF GetSuccessor, CasTail, EnableStealing, WaitSuccessor, Notify, HoldPcs, Pcs
      <3> QED
        BY <3>1, <3>2, HoldersKept
    <2> QED
      BY <1>n, <2>1, <2>2, <2>3, <2>4 DEF InLock
  <1> QED
    BY <1>0, <1>n DEF Next

\* Mutual exclusion of the fast path, the stealing trylock and the queue head,
\* for any number of threads and sockets.
THEOREM MutexCorrect == Spec => []MutualExclusion
  <1>1. Init => MutualExclusion
    BY DEF Init, aqs_mutex_create, MutualExclusion, Holders, HoldPcs
  <1>2. TypeInv /\ MutualExclusion /\ [Next]_vars => TypeInv' /\ MutualExclusion'
    BY NextTypeInv, NextMutualExclusion
  <1> QED
    BY InitTypeInv, <1>1, <1>2, PTL DEF Spec

-----------------------------------------------------------------------------
(***************************************************************************)
(* The waiting queue of Aqs, for any number of threads and sockets: there  *)
(* is a sequence q of the queued threads that their next fields string     *)
(* together, seen through the stores under way, and the invariant QInv(q)  *)
(* says where on it the locals of shuffle_waiters point and who leads.     *)
(***************************************************************************)

\* The program points of the scanning loop, and those between the stores that move
\* a waiter.
LoopPcs == {"scan", "tailcheck", "getnext", "unlink", "ready"}
MovePcs == {"relink", "insert"}
FramePcs == ShufflePcs \cup {"visited"}

\* u is at position j of q or behind it.
On(q, j, u) == \E k \in j..Len(q) : q[k] = u

\* Everybody behind the front up to position k has linked itself.
Reached(q, k) == \A l \in 2..k : pc[q[l]] # "link"

\* Nobody behind position i up to k is of u's socket.
Clean(q, i, k, u) == \A l \in (i + 1)..k : nid[q[l]] # nid[u]

\* Everybody from i to k has been batched.
Counted(q, i, k) == \A l \in i..k : wcount[q[l]] = 1

\* u shuffles or is appointed to.
Token(u) == pc[u] \in ShufflePcs \/ sleader[u] = 1

\* x is the position at which u may start to shuffle: stored, or about to be.
Mark(u, x) ==
  \/ last_visited[u] = x
  \/ \E s \in Threads : pc[s] = "visited" /\ sh[s].leader = u /\ sh[s].qend = x

\* u has been appointed with such a position or has begun to shuffle.
Led(u) == pc[u] \in FramePcs \/ \E x \in Threads : Mark(u, x)

\* u may still start at its mark, or has started there and has found nobody.
Resumable(u) ==
  /\ Token(u) /\ pc[u] \notin MovePcs
  /\ pc[u] \in ShufflePcs => sh[u].last = u

\* The next field of u is behind the queue: a waiter is being moved next to it.
Moved(u) ==
  \E m \in Threads : \/ pc[m] \in MovePcs /\ sh[m].last = u
                     \/ pc[m] = "relink" /\ sh[m].curr = u

\* q lists the queued threads, each once, up to the tail.
QueueOf(q) ==
  /\ q \in Seq(Threads)
  /\ \A i, j \in 1..Len(q) : q[i] = q[j] => i = j
  /\ \A t \in Threads : pc[t] \in QueuedPcs <=> \E i \in 1..Len(q) : q[i] = t
  /\ tail = IF Len(q) = 0 THEN NULL ELSE q[Len(q)]

\* A thread outside the queue has its node as initialised.
Fresh ==
  \A t \in Threads : pc[t] \notin QueuedPcs =>
    /\ next[t] = NULL /\ last_visited[t] = NULL
    /\ lstatus[t] = 0 /\ sleader[t] = 0 /\ wcount[t] = 0

\* Who shuffles has given up its appointment.
Started == \A t \in Threads : pc[t] \in ShufflePcs => sleader[t] = 0

\* The very next waiter is the front one, and it leaves once its successor is linked.
HeadAt(q, i) ==
  /\ IsHead(q[i]) <=> i = 1
  /\ pc[q[i]] = "notify" => next[q[i]] # NULL

\* Neighbours on q are linked, but for an enqueuer's store still to come and a move
\* under way.
LinkAt(q, i) ==
  /\ pc[q[i]] = "link" => i >= 2 /\ pred[q[i]] = q[i - 1] /\ wcount[q[i]] = 0
  /\ i < Len(q) /\ pc[q[i + 1]] # "link" /\ ~Moved(q[i]) => next[q[i]] = q[i + 1]
  /\ i = Len(q) \/ pc[q[i + 1]] = "link" => next[q[i]] = NULL

\* Nobody else shuffles or is appointed to, and everyone ahead has been batched.
TokenAt(q, j) ==
  Token(q[j]) => \A i \in 1..Len(q) : (i # j => ~Token(q[i])) /\ (i < j => wcount[q[i]] = 1)

\* The right to shuffle travels backwards only, over batched waiters.
LedAt(q, j) == Led(q[j]) => Counted(q, 1, j) /\ \A i \in 1..(j - 1) : ~Token(q[i])

\* A stored position is at or behind its thread, and up to it nobody is of the
\* thread's socket as long as the thread may still start there.
MarkAt(q, j) ==
  \A x \in Threads : Mark(q[j], x) =>
    \E k \in j..Len(q) : q[k] = x /\ Reached(q, k) /\ (Resumable(q[j]) => Clean(q, j, k, q[j]))

\* The locals of shuffle_waiters are queued at or behind the shuffler.
FrameAt(q, j) ==
  pc[q[j]] \in FramePcs =>
    LET f == sh[q[j]]
    IN  \A x \in {f.prev, f.last, f.curr, f.nxt, f.leader, f.qend} : x = NULL \/ On(q, j, x)

\* In the loop: last at i ends the batch, prev at p is as far as the scan has come,
\* and between the two nobody is of the shuffler's socket.
LoopAt(q, j) ==
  pc[q[j]] \in LoopPcs =>
    LET f == sh[q[j]]
    IN  \E i \in j..Len(q) : \E p \in i..Len(q) :
      /\ q[i] = f.last /\ q[p] = f.prev
      /\ nid[q[i]] = nid[q[j]] /\ Counted(q, j, i) /\ Reached(q, p) /\ Clean(q, i, p, q[j])
      /\ pc[q[j]] \in {"tailcheck", "getnext", "unlink"} =>
           p < Len(q) /\ q[p + 1] = f.curr /\ Reached(q, p + 1)
      /\ pc[q[j]] \in {"getnext", "unlink"} =>
           i < p /\ p + 1 < Len(q) /\ nid[q[p + 1]] = nid[q[j]]
      /\ pc[q[j]] = "unlink" =>
           wcount[q[p + 1]] = 1 /\ q[p + 2] = f.nxt /\ Reached(q, p + 2)

\* Between the three stores of a move: curr is on q next to last already.
MoveAt(q, j) ==
  pc[q[j]] \in MovePcs =>
    LET f == sh[q[j]]
    IN  \E i \in j..Len(q) : \E p \in (i + 2)..Len(q) :
      /\ q[i] = f.last /\ q[i + 1] = f.curr /\ q[p] = f.prev
      /\ nid[q[i]] = nid[q[j]] /\ nid[q[i + 1]] = nid[q[j]]
      /\ Counted(q, j, i + 1) /\ Reached(q, p) /\ Clean(q, i + 1, p, q[j])
      /\ next[q[i]] = q[i + 2]
      /\ pc[q[j]] = "insert" => next[q[i + 1]] = q[i + 2]

\* Leaving shuffle_waiters: the next leader, and the position it may start at.
AppointAt(q, j) ==
  pc[q[j]] \in {"pass", "appoint"} =>
    LET f == sh[q[j]]
    IN  /\ pc[q[j]] = "pass" => f.qend = NULL
        /\ pc[q[j]] = "appoint" =>
             \E k \in j..Len(q) :
               /\ q[k] = f.leader /\ Counted(q, j, k - 1)
               /\ k = j => f.last = q[j]
               /\ f.qend # NULL => /\ wcount[q[k]] = 1
                                   /\ \E l \in k..Len(q) : q[l] = f.qend /\ Reached(q, l)
                                                           /\ Clean(q, k, l, q[k])

\* The inductive invariant: q is the waiting queue, whatever is under way.
QInv(q) ==
  /\ QueueOf(q)
  /\ Fresh
  /\ Started
  /\ \A i \in 1..Len(q) : HeadAt(q, i) /\ LinkAt(q, i)
  /\ \A j \in 1..Len(q) : TokenAt(q, j) /\ LedAt(q, j) /\ MarkAt(q, j)
  /\ \A j \in 1..Len(q) : FrameAt(q, j) /\ LoopAt(q, j) /\ MoveAt(q, j) /\ AppointAt(q, j)

-----------------------------------------------------------------------------
(* What a step keeps that does not reorder the queue.                        *)

\* r is q without its first d threads, and with others at its end.
Shift(q, r, d) ==
  /\ q \in Seq(Threads) /\ r \in Seq(Threads) /\ d \in Nat
  /\ d <= Len(q) /\ Len(q) <= Len(r) + d
  /\ \A i \in 1..(Len(q) - d) : r[i] = q[i + d]

\* The step leaves the sockets of the threads behind position d alone, resets no
\* count and unlinks nobody.
Calm(q, d) ==
  \A i \in (d + 1)..Len(q) :
    /\ nid'[q[i]] = nid[q[i]]
    /\ wcount[q[i]] = 1 => wcount'[q[i]] = 1
    /\ pc[q[i]] # "link" => pc'[q[i]] # "link"

LEMMA ShiftIndex ==
  ASSUME NEW q, NEW r, NEW d, Shift(q, r, d), NEW i \in (d + 1)..Len(q)
  PROVE  i - d \in 1..Len(r) /\ r[i - d] = q[i] /\ (i - d) + d = i
  BY DEF Shift

LEMMA OnKept ==
  ASSUME NEW q, NEW r, NEW d, Shift(q, r, d), NEW j \in (d + 1)..Len(q), NEW u, On(q, j, u)
  PROVE  On(r, j - d, u)
  <1>1. PICK k \in j..Len(q) : q[k] = u
    BY DEF On
  <1>2. k \in (d + 1)..Len(q)
    BY DEF Shift
  <1>3. k - d \in (j - d)..Len(r) /\ r[k - d] = u
    BY <1>1, <1>2, ShiftIndex DEF Shift
  <1> QED
    BY <1>3 DEF On

LEMMA ReachedKept ==
  ASSUME NEW q, NEW r, NEW d, Shift(q, r, d), Calm(q, d), NEW k \in (d + 1)..Len(q), Reached(q, k)
  PROVE  Reached(r, k - d)'
  <1> SUFFICES ASSUME NEW l \in 2..(k - d)
               PROVE  pc'[r[l]] # "link"
    BY DEF Reached
  <1>1. l + d \in (d + 1)..Len(q) /\ l + d \in 2..k /\ l \in 1..(Len(q) - d)
    BY DEF Shift
  <1>2. r[l] = q[l + d]
    BY <1>1 DEF Shift
  <1> QED
    BY <1>1, <1>2 DEF Reached, Calm

LEMMA CountedKept ==
  ASSUME NEW q, NEW r, NEW d, Shift(q, r, d), Calm(q, d), NEW i \in (d + 1)..Len(q),
         NEW k \in Nat, k <= Len(q), Counted(q, i, k)
  PROVE  Counted(r, i - d, k - d)'
  <1> SUFFICES ASSUME NEW l \in (i - d)..(k - d)
               PROVE  wcount'[r[l]] = 1
    BY DEF Counted
  <1>1. l + d \in (d + 1)..Len(q) /\ l + d \in i..k /\ l \in 1..(Len(q) - d)
    BY DEF Shift
  <1>2. r[l] = q[l + d]
    BY <1>1 DEF Shift
  <1> QED
    BY <1>1, <1>2 DEF Counted, Calm

LEMMA CleanKept ==
  ASSUME NEW q, NEW r, NEW d, Shift(q, r, d), Calm(q, d), NEW i \in (d + 1)..Len(q),
         NEW k \in (d + 1)..Len(q), NEW u, nid'[u] = nid[u], Clean(q, i, k, u)
  PROVE  Clean(r, i - d, k - d, u)'
  <1> SUFFICES ASSUME NEW l \in (i - d + 1)..(k - d)
               PROVE  nid'[r[l]] # nid'[u]
    BY DEF Clean
  <1>1. l + d \in (d + 1)..Len(q) /\ l + d \in (i + 1)..k /\ l \in 1..(Len(q) - d)
    BY DEF Shift
  <1>2. r[l] = q[l + d]
    BY <1>1 DEF Shift
  <1> QED
    BY <1>1, <1>2 DEF Clean, Calm

LEMMA FrameKept ==
  ASSUME NEW q, NEW r, NEW d, Shift(q, r, d), NEW j \in (d + 1)..Len(q), FrameAt(q, j),
         pc'[q[j]] = pc[q[j]], sh'[q[j]] = sh[q[j]]
  PROVE  FrameAt(r, j - d)'
  <1>1. r[j - d] = q[j]
    BY ShiftIndex
  <1> SUFFICES ASSUME pc[q[j]] \in FramePcs,
                      NEW x \in {sh[q[j]].prev, sh[q[j]].last, sh[q[j]].curr, sh[q[j]].nxt,
                                 sh[q[j]].leader, sh[q[j]].qend}, x # NULL
               PROVE  \E k \in (j - d)..Len(r) : r[k] = x
    BY <1>1, SMTT(30) DEF FrameAt, On
  <1>2. On(q, j, x)
    BY DEF FrameAt
  <1>3. On(r, j - d, x)
    BY <1>2, OnKept
  <1> QED
    BY <1>3 DEF On

LEMMA LoopKept ==
  ASSUME NEW q, NEW r, NEW d, Shift(q, r, d), Calm(q, d), NEW j \in (d + 1)..Len(q), LoopAt(q, j),
         pc'[q[j]] = pc[q[j]], sh'[q[j]] = sh[q[j]]
  PROVE  LoopAt(r, j - d)'
  <1> SUFFICES ASSUME pc[q[j]] \in LoopPcs
               PROVE  LoopAt(r, j - d)'
    BY ShiftIndex DEF LoopAt
  <1> DEFINE u == q[j]
             f == sh[u]
  <1>1. PICK i \in j..Len(q) : \E p \in i..Len(q) :
          /\ q[i] = f.last /\ q[p] = f.prev
          /\ nid[q[i]] = nid[u] /\ Counted(q, j, i) /\ Reached(q, p) /\ Clean(q, i, p, u)
          /\ pc[u] \in {"tailcheck", "getnext", "unlink"} =>
               p < Len(q) /\ q[p + 1] = f.curr /\ Reached(q, p + 1)
          /\ pc[u] \in {"getnext", "unlink"} => i < p /\ p + 1 < Len(q) /\ nid[q[p + 1]] = nid[u]
          /\ pc[u] = "unlink" => wcount[q[p + 1]] = 1 /\ q[p + 2] = f.nxt /\ Reached(q, p + 2)
    BY DEF LoopAt
  <1>2. PICK p \in i..Len(q) :
          /\ q[i] = f.last /\ q[p] = f.prev
          /\ nid[q[i]] = nid[u] /\ Counted(q, j, i) /\ Reached(q, p) /\ Clean(q, i, p, u)
          /\ pc[u] \in {"tailcheck", "getnext", "unlink"} =>
               p < Len(q) /\ q[p + 1] = f.curr /\ Reached(q, p + 1)
          /\ pc[u] \in {"getnext", "unlink"} => i < p /\ p + 1 < Len(q) /\ nid[q[p + 1]] = nid[u]
          /\ pc[u] = "unlink" => wcount[q[p + 1]] = 1 /\ q[p + 2] = f.nxt /\ Reached(q, p + 2)
    BY <1>1
  <1>3. /\ i \in (d + 1)..Len(q) /\ p \in (d + 1)..Len(q) /\ Len(q) \in Nat /\ Len(r) \in Nat
        /\ d \in Nat /\ Len(q) <= Len(r) + d
    BY DEF Shift
  <1>4. /\ r[i - d] = q[i] /\ r[p - d] = q[p] /\ r[j - d] = u
        /\ i - d \in (j - d)..Len(r) /\ p - d \in (i - d)..Len(r)
    <2>1. r[i - d] = q[i]
      BY <1>3, ShiftIndex, SMTT(30)
    <2>2. r[p - d] = q[p]
      BY <1>3, ShiftIndex, SMTT(30)
    <2>3. r[j - d] = u
      BY <1>3, ShiftIndex, SMTT(30)
    <2> QED
      BY <1>3, <2>1, <2>2, <2>3
  <1>5. /\ nid'[q[i]] = nid[q[i]] /\ nid'[u] = nid[u]
    BY <1>3 DEF Calm
  <1>6. Counted(r, j - d, i - d)' /\ Reached(r, p - d)' /\ Clean(r, i - d, p - d, u)'
    <2>1. Counted(r, j - d, i - d)'
      <3>1. i \in Nat /\ i <= Len(q) /\ j \in (d + 1)..Len(q)
        BY <1>3
      <3> QED
        BY <1>2, <3>1, CountedKept
    <2>2. Reached(r, p - d)'
      BY <1>2, <1>3, ReachedKept
    <2>3. Clean(r, i - d, p - d, u)'
      BY <1>2, <1>3, <1>5, CleanKept
    <2> QED
      BY <2>1, <2>2, <2>3
  <1>7. pc[u] \in {"tailcheck", "getnext", "unlink"} =>
          p - d < Len(r) /\ r[p - d + 1] = f.curr /\ Reached(r, p - d + 1)'
    <2> SUFFICES ASSUME pc[u] \in {"tailcheck", "getnext", "unlink"}
                 PROVE  p - d < Len(r) /\ r[p - d + 1] = f.curr /\ Reached(r, p - d + 1)'
      OBVIOUS
    <2>1. p + 1 \in (d + 1)..Len(q) /\ (p + 1) - d = p - d + 1
      BY <1>2, <1>3
    <2>2. Reached(r, (p + 1) - d)' /\ r[(p + 1) - d] = q[p + 1]
      BY <1>2, <2>1, ShiftIndex, ReachedKept
    <2>3. p - d < Len(r)
      BY <1>2, <1>3
    <2> QED
      BY <1>2, <2>1, <2>2, <2>3
  <1>8. pc[u] \in {"getnext", "unlink"} =>
          i - d < p - d /\ p - d + 1 < Len(r) /\ nid'[r[p - d + 1]] = nid'[u]
    <2> SUFFICES ASSUME pc[u] \in {"getnext", "unlink"}
                 PROVE  i - d < p - d /\ p - d + 1 < Len(r) /\ nid'[r[p - d + 1]] = nid'[u]
      OBVIOUS
    <2>1. p + 1 \in (d + 1)..Len(q) /\ (p + 1) - d = p - d + 1
      BY <1>2, <1>3
    <2>2. nid'[q[p + 1]] = nid[q[p + 1]]
      BY <2>1 DEF Calm
    <2>3. r[(p + 1) - d] = q[p + 1]
      BY <2>1, ShiftIndex
    <2>4. i - d < p - d /\ p - d + 1 < Len(r)
      BY <1>2, <1>3
    <2> QED
      BY <1>2, <1>5, <2>1, <2>2, <2>3, <2>4
  <1>9. pc[u] = "unlink" => wcount'[r[p - d + 1]] = 1 /\ r[p - d + 2] = f.nxt /\ Reached(r, p - d + 2)'
    <2> SUFFICES ASSUME pc[u] = "unlink"
                 PROVE  wcount'[r[p - d + 1]] = 1 /\ r[p - d + 2] = f.nxt /\ Reached(r, p - d + 2)'
      OBVIOUS
    <2>1. /\ p + 1 \in (d + 1)..Len(q) /\ (p + 1) - d = p - d + 1
          /\ p + 2 \in (d + 1)..Len(q) /\ (p + 2) - d = p - d + 2
      <3>1. p < Len(q) /\ p + 1 < Len(q)
        BY <1>2
      <3> QED
        BY <1>3, <3>1
    <2>2. wcount'[q[p + 1]] = 1
      BY <1>2, <2>1 DEF Calm
    <2>3. r[p - d + 1] = q[p + 1] /\ r[p - d + 2] = q[p + 2]
      BY <2>1, ShiftIndex
    <2>4. Reached(r, (p + 2) - d)'
      BY <1>2, <2>1, ReachedKept
    <2> QED
      BY <1>2, <2>1, <2>2, <2>3, <2>4
  <1> QED
    BY <1>2, <1>4, <1>5, <1>6, <1>7, <1>8, <1>9 DEF LoopAt

LEMMA MoveKept ==
  ASSUME NEW q, NEW r, NEW d, Shift(q, r, d), Calm(q, d), NEW j \in (d + 1)..Len(q), MoveAt(q, j),
         pc'[q[j]] = pc[q[j]], sh'[q[j]] = sh[q[j]],
         \A i \in (d + 1)..Len(q) : next[q[i]] # NULL => next'[q[i]] = next[q[i]],
         \A u \in Threads : u # NULL
  PROVE  MoveAt(r, j - d)'
  <1> SUFFICES ASSUME pc[q[j]] \in MovePcs
               PROVE  MoveAt(r, j - d)'
    BY ShiftIndex DEF MoveAt
  <1> DEFINE u == q[j]
             f == sh[u]
  <1>1. PICK i \in j..Len(q) : \E p \in (i + 2)..Len(q) :
          /\ q[i] = f.last /\ q[i + 1] = f.curr /\ q[p] = f.prev
          /\ nid[q[i]] = nid[u] /\ nid[q[i + 1]] = nid[u]
          /\ Counted(q, j, i + 1) /\ Reached(q, p) /\ Clean(q, i + 1, p, u)
          /\ next[q[i]] = q[i + 2]
          /\ pc[u] = "insert" => next[q[i + 1]] = q[i + 2]
    BY DEF MoveAt
  <1>2. PICK p \in (i + 2)..Len(q) :
          /\ q[i] = f.last /\ q[i + 1] = f.curr /\ q[p] = f.prev
          /\ nid[q[i]] = nid[u] /\ nid[q[i + 1]] = nid[u]
          /\ Counted(q, j, i + 1) /\ Reached(q, p) /\ Clean(q, i + 1, p, u)
          /\ next[q[i]] = q[i + 2]
          /\ pc[u] = "insert" => next[q[i + 1]] = q[i + 2]
    BY <1>1
  <1>3. /\ i \in (d + 1)..Len(q) /\ p \in (d + 1)..Len(q) /\ Len(q) \in Nat /\ Len(r) \in Nat
        /\ d \in Nat /\ Len(q) <= Len(r) + d
        /\ i + 1 \in (d + 1)..Len(q) /\ i + 2 \in (d + 1)..Len(q)
        /\ (i + 1) - d = i - d + 1 /\ (i + 2) - d = i - d + 2
    BY DEF Shift
  <1>4. /\ r[i - d] = q[i] /\ r[p - d] = q[p] /\ r[j - d] = u
        /\ r[i - d + 1] = q[i + 1] /\ r[i - d + 2] = q[i + 2]
        /\ i - d \in (j - d)..Len(r) /\ p - d \in (i - d + 2)..Len(r)
    <2>0. \A k \in (d + 1)..Len(q) : r[k - d] = q[k]
      BY ShiftIndex
    <2>1. r[i - d] = q[i]
      BY <1>3, <2>0
    <2>2. r[p - d] = q[p]
      BY <1>3, <2>0
    <2>3. r[j - d] = u
      BY <2>0
    <2>4. r[(i + 1) - d] = q[i + 1]
      BY <1>3, <2>0
    <2>5. r[(i + 2) - d] = q[i + 2]
      BY <1>3, <2>0
    <2>6. i - d \in (j - d)..Len(r) /\ p - d \in (i - d + 2)..Len(r)
      BY <1>3
    <2> QED
      BY <1>3, <2>1, <2>2, <2>3, <2>4, <2>5, <2>6
  <1>5. nid'[q[i]] = nid[q[i]] /\ nid'[u] = nid[u] /\ nid'[q[i + 1]] = nid[q[i + 1]]
    BY <1>3 DEF Calm
  <1>6. Counted(r, j - d, i - d + 1)' /\ Reached(r, p - d)' /\ Clean(r, i - d + 1, p - d, u)'
    <2>0. i + 1 \in Nat /\ i + 1 <= Len(q)
      BY <1>3, SMTT(30)
    <2>1. Counted(r, j - d, (i + 1) - d)'
      BY <1>2, <2>0, CountedKept
    <2>2. Reached(r, p - d)'
      BY <1>2, <1>3, ReachedKept
    <2>3. Clean(r, (i + 1) - d, p - d, u)'
      BY <1>2, <1>3, <1>5, CleanKept
    <2> QED
      BY <1>3, <2>1, <2>2, <2>3
  <1>7. q[i + 2] # NULL
    BY <1>3, SMTT(30) DEF Shift
  <1>8. next'[q[i]] = q[i + 2] /\ (pc[u] = "insert" => next'[q[i + 1]] = q[i + 2])
    BY <1>2, <1>3, <1>7
  <1> HIDE DEF u, f
  <1>9. /\ r[i - d] = f.last /\ r[i - d + 1] = f.curr /\ r[p - d] = f.prev
        /\ nid'[r[i - d]] = nid'[u] /\ nid'[r[i - d + 1]] = nid'[u]
        /\ next'[r[i - d]] = r[i - d + 2]
        /\ pc[u] = "insert" => next'[r[i - d + 1]] = r[i - d + 2]
    BY <1>2, <1>4, <1>5, <1>8
  <1>10. r[j - d] = u /\ pc'[u] = pc[u] /\ sh'[u] = f
    BY <1>4 DEF u, f
  <1> QED
    BY <1>4, <1>6, <1>9, <1>10 DEF MoveAt

LEMMA AppointKept ==
  ASSUME NEW q, NEW r, NEW d, Shift(q, r, d), Calm(q, d), NEW j \in (d + 1)..Len(q), AppointAt(q, j),
         pc'[q[j]] = pc[q[j]], sh'[q[j]] = sh[q[j]]
  PROVE  AppointAt(r, j - d)'
  <1> DEFINE u == q[j]
             f == sh[u]
  <1>0. r[j - d] = u /\ Len(q) \in Nat /\ d \in Nat /\ Len(r) \in Nat /\ Len(q) <= Len(r) + d
    BY ShiftIndex DEF Shift
  <1> SUFFICES ASSUME pc[u] = "appoint"
               PROVE  \E k \in (j - d)..Len(r) :
                 /\ r[k] = f.leader /\ Counted(r, j - d, k - 1)'
                 /\ k = j - d => f.last = u
                 /\ f.qend # NULL => /\ wcount'[r[k]] = 1
                                     /\ \E l \in k..Len(r) : r[l] = f.qend /\ Reached(r, l)'
                                                             /\ Clean(r, k, l, r[k])'
    BY <1>0 DEF AppointAt
  <1>1. PICK k \in j..Len(q) :
          /\ q[k] = f.leader /\ Counted(q, j, k - 1)
          /\ k = j => f.last = u
          /\ f.qend # NULL => /\ wcount[q[k]] = 1
                              /\ \E l \in k..Len(q) : q[l] = f.qend /\ Reached(q, l)
                                                      /\ Clean(q, k, l, q[k])
    BY DEF AppointAt
  <1>2. k \in (d + 1)..Len(q) /\ k - d \in (j - d)..Len(r) /\ r[k - d] = q[k]
        /\ k - 1 \in Nat /\ k - 1 <= Len(q) /\ (k - 1) - d = k - d - 1
        /\ (k - d = j - d => k = j)
    <2>1. k \in (d + 1)..Len(q)
      BY <1>0
    <2>2. r[k - d] = q[k]
      BY <2>1, ShiftIndex
    <2>3. k - d \in (j - d)..Len(r)
      BY <1>0
    <2>4. /\ k - 1 \in Nat /\ k - 1 <= Len(q) /\ (k - 1) - d = k - d - 1
          /\ (k - d = j - d => k = j)
      BY <1>0, <2>1
    <2> QED
      BY <2>1, <2>2, <2>3, <2>4
  <1>3. Counted(r, j - d, k - d - 1)'
    BY <1>1, <1>2, CountedKept
  <1>4. ASSUME f.qend # NULL
        PROVE  /\ wcount'[r[k - d]] = 1
               /\ \E l \in (k - d)..Len(r) : r[l] = f.qend /\ Reached(r, l)'
                                             /\ Clean(r, k - d, l, r[k - d])'
    <2>1. wcount'[q[k]] = 1 /\ nid'[q[k]] = nid[q[k]]
      BY <1>1, <1>2, <1>4 DEF Calm
    <2>2. PICK l \in k..Len(q) : q[l] = f.qend /\ Reached(q, l) /\ Clean(q, k, l, q[k])
      BY <1>1, <1>4
    <2>3. l \in (d + 1)..Len(q) /\ l - d \in (k - d)..Len(r) /\ r[l - d] = q[l]
      BY <1>0, <1>2, ShiftIndex, SMTT(30)
    <2>4. Reached(r, l - d)' /\ Clean(r, k - d, l - d, q[k])'
      BY <1>2, <2>1, <2>2, <2>3, ReachedKept, CleanKept
    <2> QED
      BY <1>2, <2>1, <2>2, <2>3, <2>4
  <1> QED
    BY <1>1, <1>2, <1>3, <1>4

LEMMA MarkKept ==
  ASSUME NEW q, NEW r, NEW d, Shift(q, r, d), Calm(q, d), NEW j \in (d + 1)..Len(q), MarkAt(q, j),
         \A x \in Threads : Mark(q[j], x)' => Mark(q[j], x),
         Resumable(q[j])' => Resumable(q[j])
  PROVE  MarkAt(r, j - d)'
  <1> SUFFICES ASSUME NEW x \in Threads, Mark(q[j], x)'
               PROVE  \E k \in (j - d)..Len(r) :
                        r[k] = x /\ Reached(r, k)' /\ (Resumable(q[j])' => Clean(r, j - d, k, q[j])')
    BY ShiftIndex DEF MarkAt
  <1>1. PICK k \in j..Len(q) : q[k] = x /\ Reached(q, k) /\ (Resumable(q[j]) => Clean(q, j, k, q[j]))
    BY DEF MarkAt
  <1>2. k \in (d + 1)..Len(q) /\ k - d \in (j - d)..Len(r) /\ r[k - d] = q[k]
    BY ShiftIndex DEF Shift
  <1>3. nid'[q[j]] = nid[q[j]]
    BY DEF Calm
  <1>4. Reached(r, k - d)' /\ (Clean(q, j, k, q[j]) => Clean(r, j - d, k - d, q[j])')
    BY <1>1, <1>2, <1>3, ReachedKept, CleanKept
  <1> QED
    BY <1>1, <1>2, <1>4

LEMMA LedKept ==
  ASSUME NEW q, NEW r, NEW d, Shift(q, r, d), Calm(q, d), NEW j \in (d + 1)..Len(q), LedAt(q, j),
         Led(q[j])' => Led(q[j]),
         \A i \in (d + 1)..Len(q) : Token(q[i])' => Token(q[i])
  PROVE  LedAt(r, j - d)'
  <1> SUFFICES ASSUME Led(q[j])'
               PROVE  Counted(r, 1, j - d)' /\ \A i \in 1..(j - d - 1) : ~Token(r[i])'
    BY ShiftIndex DEF LedAt
  <1>1. Counted(q, 1, j) /\ \A i \in 1..(j - 1) : ~Token(q[i])
    BY DEF LedAt
  <1>2. d + 1 \in (d + 1)..Len(q) /\ j \in Nat /\ j <= Len(q) /\ (d + 1) - d = 1
    BY DEF Shift
  <1>3. Counted(q, d + 1, j)
    BY <1>1 DEF Counted, Shift
  <1>4. Counted(r, (d + 1) - d, j - d)'
    BY <1>2, <1>3, CountedKept
  <1>5. ASSUME NEW i \in 1..(j - d - 1)
        PROVE  ~Token(r[i])'
    <2>1. i + d \in (d + 1)..Len(q) /\ i + d \in 1..(j - 1) /\ i \in 1..(Len(q) - d)
      BY DEF Shift
    <2>2. r[i] = q[i + d]
      BY <2>1 DEF Shift
    <2> QED
      BY <1>1, <2>1, <2>2
  <1> QED
    BY <1>2, <1>4, <1>5

LEMMA TokenKept ==
  ASSUME NEW q, NEW r, NEW d, Shift(q, r, d), Calm(q, d), NEW j \in (d + 1)..Len(q), TokenAt(q, j),
         \A i \in (d + 1)..Len(q) : Token(q[i])' => Token(q[i]),
         \A i \in (Len(q) - d + 1)..Len(r) : ~Token(r[i])'
  PROVE  TokenAt(r, j - d)'
  <1> SUFFICES ASSUME Token(q[j])', NEW i \in 1..Len(r)
               PROVE  (i # j - d => ~Token(r[i])') /\ (i < j - d => wcount'[r[i]] = 1)
    BY ShiftIndex DEF TokenAt
  <1>0. Len(q) \in Nat /\ d \in Nat /\ Len(r) \in Nat /\ Len(q) <= Len(r) + d
    BY DEF Shift
  <1>1. CASE i \in (Len(q) - d + 1)..Len(r)
    BY <1>0, <1>1
  <1>2. CASE i \in 1..(Len(q) - d)
    <2>1. r[i] = q[i + d] /\ i + d \in (d + 1)..Len(q) /\ i + d \in 1..Len(q)
      BY <1>0, <1>2 DEF Shift
    <2>2. (i # j - d => i + d # j) /\ (i < j - d => i + d < j)
      BY <1>0, <1>2
    <2> QED
      BY <2>1, <2>2 DEF TokenAt, Calm
  <1> QED
    BY <1>0, <1>1, <1>2

-----------------------------------------------------------------------------
(* Steps that leave the queue as it is.                                      *)

LEMMA ShiftSelf ==
  ASSUME NEW q \in Seq(Threads)
  PROVE  Shift(q, q, 0)
  BY DEF Shift

\* Of two threads in the queue only one may shuffle or be appointed, and no
\* thread behind it has been led.
LEMMA OneToken ==
  ASSUME NEW q, QInv(q), NEW j \in 1..Len(q), Token(q[j]), NEW k \in 1..Len(q)
  PROVE  (k # j => ~Token(q[k])) /\ (k > j => ~Led(q[k]))
  BY DEF QInv, TokenAt, LedAt

\* A thread that shuffles is at some position of the queue.
LEMMA Placed ==
  ASSUME NEW q, QueueOf(q), NEW t \in Threads, pc[t] \in QueuedPcs
  PROVE  \E j \in 1..Len(q) : q[j] = t
  BY DEF QueueOf

\* A step of t that neither stores a next field nor changes t's place.
LEMMA QuietStep ==
  ASSUME NEW q, QInv(q), NEW t \in Threads,
         \A u \in Threads \ {t} : pc'[u] = pc[u] /\ sh'[u] = sh[u],
         pc'[t] \in QueuedPcs <=> pc[t] \in QueuedPcs,
         pc[t] \notin MovePcs \cup {"link"}, pc'[t] \notin MovePcs \cup {"link"},
         IsHead(t)' <=> IsHead(t), pc'[t] = "notify" => next[t] # NULL,
         UNCHANGED <<tail, next, lstatus, pred>>,
         \A u \in Threads : pc[u] \notin QueuedPcs =>
           last_visited'[u] = last_visited[u] /\ sleader'[u] = sleader[u] /\ wcount'[u] = wcount[u],
         \A u \in Threads : pc[u] = "link" => wcount'[u] = wcount[u]
  PROVE  QueueOf(q)' /\ Fresh' /\ \A i \in 1..Len(q) : HeadAt(q, i)' /\ LinkAt(q, i)'
  <1>1. QueueOf(q) /\ Fresh /\ q \in Seq(Threads) /\ Len(q) \in Nat
    BY DEF QInv, QueueOf
  <1>2. \A u \in Threads : pc'[u] \in QueuedPcs <=> pc[u] \in QueuedPcs
    OBVIOUS
  <1>3. QueueOf(q)'
    BY <1>1, <1>2 DEF QueueOf
  <1>4. Fresh'
    BY <1>1, <1>2 DEF Fresh
  <1>5. ASSUME NEW i \in 1..Len(q)
        PROVE  HeadAt(q, i)'
    <2>1. q[i] \in Threads /\ HeadAt(q, i)
      BY <1>1 DEF QInv
    <2>2. CASE q[i] = t
      BY <2>1, <2>2 DEF HeadAt
    <2>3. CASE q[i] # t
      <3>1. pc'[q[i]] = pc[q[i]] /\ sh'[q[i]] = sh[q[i]]
        BY <2>1, <2>3
      <3>2. IsHead(q[i])' <=> IsHead(q[i])
        BY <3>1 DEF IsHead
      <3> QED
        BY <2>1, <3>1, <3>2 DEF HeadAt
    <2> QED
      BY <2>2, <2>3
  <1>6. \A u : Moved(u)' <=> Moved(u)
    BY DEF Moved, MovePcs
  <1>7. ASSUME NEW i \in 1..Len(q)
        PROVE  LinkAt(q, i)'
    <2>1. LinkAt(q, i) /\ q[i] \in Threads /\ (i < Len(q) => q[i + 1] \in Threads)
      BY <1>1 DEF QInv
    <2>2. \A u \in Threads : pc'[u] = "link" <=> pc[u] = "link"
      OBVIOUS
    <2> QED
      BY <1>1, <1>6, <2>1, <2>2 DEF LinkAt
  <1> QED
    BY <1>3, <1>4, <1>5, <1>7

\* What such a step, and any that leaves the queue as it is, keeps of the others.
LEMMA StayOthers ==
  ASSUME NEW q, QInv(q), NULL \notin Threads, Calm(q, 0), NEW t,
         \A u \in Threads \ {t} : pc'[u] = pc[u] /\ sh'[u] = sh[u],
         \/ \A u \in Threads : next[u] # NULL => next'[u] = next[u]
         \/ pc[t] \in MovePcs /\ t \in Threads
  PROVE  \A j \in 1..Len(q) : q[j] # t =>
           FrameAt(q, j)' /\ LoopAt(q, j)' /\ MoveAt(q, j)' /\ AppointAt(q, j)'
  <1>1. q \in Seq(Threads) /\ Shift(q, q, 0) /\ Len(q) \in Nat
    BY ShiftSelf DEF QInv, QueueOf
  <1>2. TAKE j \in 1..Len(q)
  <1>3. HAVE q[j] # t
  <1>4. j \in (0 + 1)..Len(q) /\ j - 0 = j /\ q[j] \in Threads /\ pc'[q[j]] = pc[q[j]] /\ sh'[q[j]] = sh[q[j]]
    BY <1>1, <1>3
  <1>5. FrameAt(q, j) /\ LoopAt(q, j) /\ MoveAt(q, j) /\ AppointAt(q, j)
    BY DEF QInv
  <1>6. FrameAt(q, j - 0)'
    BY <1>1, <1>4, <1>5, FrameKept
  <1>7. LoopAt(q, j - 0)'
    BY <1>1, <1>4, <1>5, LoopKept
  <1>8. AppointAt(q, j - 0)'
    BY <1>1, <1>4, <1>5, AppointKept
  <1>9. MoveAt(q, j - 0)'
    <2>1. CASE \A u \in Threads : next[u] # NULL => next'[u] = next[u]
      <3>1. \A i \in (0 + 1)..Len(q) : next[q[i]] # NULL => next'[q[i]] = next[q[i]]
        BY <1>1, <2>1
      <3>2. \A u \in Threads : u # NULL
        OBVIOUS
      <3> QED
        BY <1>1, <1>4, <1>5, <3>1, <3>2, MoveKept
    <2>2. CASE pc[t] \in MovePcs /\ t \in Threads
      <3>1. PICK k \in 1..Len(q) : q[k] = t
        BY <2>2 DEF QInv, QueueOf, MovePcs, QueuedPcs, ShufflePcs
      <3>2. Token(q[k]) /\ k # j
        BY <1>3, <2>2, <3>1 DEF Token, MovePcs, ShufflePcs
      <3>3. ~Token(q[j])
        BY <3>2, OneToken
      <3>4. pc'[q[j]] \notin MovePcs
        BY <1>4, <3>3 DEF Token, MovePcs, ShufflePcs
      <3> QED
        BY <1>4, <3>4 DEF MoveAt
    <2> QED
      BY <2>1, <2>2
  <1> QED
    BY <1>4, <1>6, <1>7, <1>8, <1>9

\* The leadership is where it was or has gone.
LEMMA StayTokens ==
  ASSUME NEW q, QInv(q), Calm(q, 0),
         \A u \in Threads : /\ Token(u)' => Token(u)
                            /\ Led(u)' => Led(u)
                            /\ Resumable(u)' => Resumable(u)
                            /\ \A x \in Threads : Mark(u, x)' => Mark(u, x)
  PROVE  \A j \in 1..Len(q) : TokenAt(q, j)' /\ LedAt(q, j)' /\ MarkAt(q, j)'
  <1>1. q \in Seq(Threads) /\ Shift(q, q, 0) /\ Len(q) \in Nat
    BY ShiftSelf DEF QInv, QueueOf
  <1>2. TAKE j \in 1..Len(q)
  <1>3. j \in (0 + 1)..Len(q) /\ j - 0 = j /\ q[j] \in Threads
    BY <1>1
  <1>4. TokenAt(q, j) /\ LedAt(q, j) /\ MarkAt(q, j)
    BY DEF QInv
  <1>5. \A i \in (0 + 1)..Len(q) : Token(q[i])' => Token(q[i])
    BY <1>1
  <1>6. TokenAt(q, j - 0)'
    <2>1. \A i \in (Len(q) - 0 + 1)..Len(q) : ~Token(q[i])'
      BY <1>1
    <2> QED
      BY <1>1, <1>3, <1>4, <1>5, <2>1, TokenKept
  <1>7. LedAt(q, j - 0)'
    BY <1>1, <1>3, <1>4, <1>5, LedKept
  <1>8. MarkAt(q, j - 0)'
    BY <1>1, <1>3, <1>4, MarkKept
  <1> QED
    BY <1>3, <1>6, <1>7, <1>8

-----------------------------------------------------------------------------
(* The steps outside shuffle_waiters that leave the list alone.              *)

LEMMA BenignStep ==
  ASSUME TypeOK, NEW q, QInv(q), NULL \notin Threads, NEW t \in Threads, NEW l,
         pc' = [pc EXCEPT ![t] = l],
         pc[t] \notin FramePcs \cup {"link"}, l \notin FramePcs \cup {"link"},
         l \in QueuedPcs <=> pc[t] \in QueuedPcs,
         UNCHANGED <<tail, next, lstatus, sleader, wcount, last_visited, pred, sh>>,
         \A u \in Threads : pc[u] \in QueuedPcs => nid'[u] = nid[u],
         IsHead(t)' <=> IsHead(t), l = "notify" => next[t] # NULL
  PROVE  QInv(q)'
  <1>1. pc'[t] = l /\ \A u \in Threads \ {t} : pc'[u] = pc[u] /\ sh'[u] = sh[u]
    BY DEF TypeOK
  <1>2. /\ q \in Seq(Threads) /\ Len(q) \in Nat
        /\ \A i \in 1..Len(q) : q[i] \in Threads /\ pc[q[i]] \in QueuedPcs
        /\ Started
    BY DEF QInv, QueueOf
  <1>3. QueueOf(q)' /\ Fresh' /\ \A i \in 1..Len(q) : HeadAt(q, i)' /\ LinkAt(q, i)'
    <2>1. pc[t] \notin MovePcs \cup {"link"} /\ pc'[t] \notin MovePcs \cup {"link"}
      BY <1>1 DEF FramePcs, ShufflePcs, MovePcs
    <2> QED
      BY <1>1, <2>1, QuietStep
  <1>4. \A u \in Threads : pc'[u] # pc[u] => pc[u] \notin FramePcs \cup {"link"} /\ pc'[u] \notin FramePcs \cup {"link"}
    BY <1>1
  <1>5. Calm(q, 0)
    BY <1>2, <1>4 DEF Calm
  <1>6. \A u \in Threads : /\ Token(u)' <=> Token(u)
                           /\ \A x : Mark(u, x)' <=> Mark(u, x)
    <2>1. \A s \in Threads : pc'[s] = "visited" <=> pc[s] = "visited"
      BY <1>4 DEF FramePcs
    <2>2. \A u, x : Mark(u, x)' <=> Mark(u, x)
      BY <2>1 DEF Mark
    <2>3. \A u \in Threads : Token(u)' <=> Token(u)
      BY <1>4 DEF Token, FramePcs
    <2> QED
      BY <2>2, <2>3
  <1>7. \A u \in Threads : (Led(u)' <=> Led(u)) /\ (Resumable(u)' <=> Resumable(u))
    <2>1. \A u \in Threads : pc'[u] # pc[u] => /\ pc[u] \notin FramePcs /\ pc'[u] \notin FramePcs
                                               /\ pc[u] \notin MovePcs /\ pc'[u] \notin MovePcs
                                               /\ pc[u] \notin ShufflePcs /\ pc'[u] \notin ShufflePcs
      BY <1>4 DEF FramePcs, MovePcs, ShufflePcs
    <2> QED
      BY <1>6, <2>1 DEF Led, Resumable
  <1>8. \A j \in 1..Len(q) : TokenAt(q, j)' /\ LedAt(q, j)' /\ MarkAt(q, j)'
    BY <1>5, <1>6, <1>7, StayTokens
  <1>9. \A j \in 1..Len(q) : FrameAt(q, j)' /\ LoopAt(q, j)' /\ MoveAt(q, j)' /\ AppointAt(q, j)'
    <2>1. \A j \in 1..Len(q) : q[j] # t =>
            FrameAt(q, j)' /\ LoopAt(q, j)' /\ MoveAt(q, j)' /\ AppointAt(q, j)'
      BY <1>1, <1>5, StayOthers
    <2>2. ASSUME NEW j \in 1..Len(q), q[j] = t
          PROVE  FrameAt(q, j)' /\ LoopAt(q, j)' /\ MoveAt(q, j)' /\ AppointAt(q, j)'
      <3>1. pc'[q[j]] \notin FramePcs
        BY <1>1, <2>2
      <3>2. pc'[q[j]] \notin LoopPcs \cup MovePcs \cup {"pass", "appoint"}
        BY <3>1 DEF LoopPcs, MovePcs, FramePcs, ShufflePcs
      <3> QED
        BY <3>1, <3>2 DEF FrameAt, LoopAt, MoveAt, AppointAt
    <2> QED
      BY <2>1, <2>2
  <1>10. Started'
    BY <1>1, <1>2 DEF Started, FramePcs
  <1> QED
    BY <1>3, <1>8, <1>9, <1>10 DEF QInv

\* Taking and freeing the word, and the steps of the lock call before and behind
\* shuffle_waiters.
LEMMA LockSteps ==
  ASSUME TypeOK, NEW q, QInv(q), NULL \notin Threads, NEW t \in Threads,
         \/ FastPath(t) \/ TryLock(t) \/ Unlock(t) \/ DisableStealing(t) \/ CheckTurn(t)
         \/ CheckLocked(t) \/ Acquire(t) \/ GetSuccessor(t) \/ EnableStealing(t)
         \/ WaitSuccessor(t)
  PROVE  QInv(q)'
  <1> USE DEF Goto, nodeVars, lockVars, QueuedPcs, FramePcs, ShufflePcs
  <1> DEFINE Step(l) ==
        /\ pc' = [pc EXCEPT ![t] = l]
        /\ pc[t] \notin FramePcs \cup {"link"} /\ l \notin FramePcs \cup {"link"}
        /\ l \in QueuedPcs <=> pc[t] \in QueuedPcs
        /\ UNCHANGED <<tail, next, lstatus, sleader, wcount, last_visited, pred, sh, nid>>
        /\ IsHead(t)' <=> IsHead(t)
        /\ l = "notify" => next[t] # NULL
  <1>0. lstatus \in [Threads -> {0, 1}] /\ pc \in [Threads -> Pcs]
    BY DEF TypeOK
  <1>1. ASSUME NEW l, Step(l)
        PROVE  QInv(q)'
    BY <1>1, BenignStep
  <1>2. CASE FastPath(t)
    <2>1. Step("cs")
      BY <1>0, <1>2 DEF FastPath, IsHead
    <2> QED
      BY <1>1, <2>1
  <1>3. CASE TryLock(t)
    <2>1. Step("cs")
      BY <1>0, <1>3 DEF TryLock, IsHead
    <2> QED
      BY <1>1, <2>1
  <1>4. CASE Unlock(t)
    <2>1. Step("idle")
      BY <1>0, <1>4 DEF Unlock, IsHead
    <2> QED
      BY <1>1, <2>1
  <1>5. CASE DisableStealing(t)
    <2>1. Step("head")
      BY <1>0, <1>5 DEF DisableStealing, IsHead
    <2> QED
      BY <1>1, <2>1
  <1>6. CASE CheckTurn(t) /\ lstatus[t] = 1
    <2>1. Step("head")
      BY <1>0, <1>6 DEF CheckTurn, IsHead
    <2> QED
      BY <1>1, <2>1
  <1>7. CASE CheckTurn(t) /\ lstatus[t] # 1
    <2>1. Step("waitleader")
      BY <1>0, <1>7 DEF CheckTurn, IsHead
    <2> QED
      BY <1>1, <2>1
  <1>8. CASE CheckLocked(t) /\ locked = 0
    <2>1. Step("acquire")
      BY <1>0, <1>8 DEF CheckLocked, IsHead
    <2> QED
      BY <1>1, <2>1
  <1>9. CASE CheckLocked(t) /\ locked # 0
    <2>1. Step("headleader")
      BY <1>0, <1>9 DEF CheckLocked, IsHead
    <2> QED
      BY <1>1, <2>1
  <1>10. CASE Acquire(t)
    <2>1. Step("getsucc")
      BY <1>0, <1>10 DEF Acquire, IsHead
    <2> QED
      BY <1>1, <2>1
  <1>11. CASE GetSuccessor(t) /\ next[t] = NULL
    <2>1. Step("castail")
      BY <1>0, <1>11 DEF GetSuccessor, IsHead
    <2> QED
      BY <1>1, <2>1
  <1>12. CASE GetSuccessor(t) /\ next[t] # NULL
    <2>1. Step("notify")
      BY <1>0, <1>12 DEF GetSuccessor, IsHead
    <2> QED
      BY <1>1, <2>1
  <1>13. CASE EnableStealing(t)
    <2>1. Step("cs")
      BY <1>0, <1>13 DEF EnableStealing, IsHead
    <2> QED
      BY <1>1, <2>1
  <1>14. CASE WaitSuccessor(t)
    <2>1. Step("notify")
      BY <1>0, <1>14 DEF WaitSuccessor, IsHead
    <2> QED
      BY <1>1, <2>1
  <1> QED
    BY <1>2, <1>3, <1>4, <1>5, <1>6, <1>7, <1>8, <1>9, <1>10, <1>11, <1>12, <1>13, <1>14

\* Not shuffling now, and a cmpxchg of the tail that fails.
LEMMA NoShuffleSteps ==
  ASSUME TypeOK, NEW q, QInv(q), NULL \notin Threads, NEW t \in Threads,
         \/ WaiterShuffle(t) /\ sleader[t] # 1
         \/ HeadShuffle(t) /\ ~(wcount[t] = 0 \/ sleader[t] = 1)
         \/ CasTail(t) /\ tail # t
  PROVE  QInv(q)'
  <1> USE DEF Goto, nodeVars, lockVars, QueuedPcs, FramePcs, ShufflePcs
  <1> DEFINE Step(l) ==
        /\ pc' = [pc EXCEPT ![t] = l]
        /\ pc[t] \notin FramePcs \cup {"link"} /\ l \notin FramePcs \cup {"link"}
        /\ l \in QueuedPcs <=> pc[t] \in QueuedPcs
        /\ UNCHANGED <<tail, next, lstatus, sleader, wcount, last_visited, pred, sh, nid>>
        /\ IsHead(t)' <=> IsHead(t)
        /\ l = "notify" => next[t] # NULL
  <1>0. lstatus \in [Threads -> {0, 1}] /\ pc \in [Threads -> Pcs]
    BY DEF TypeOK
  <1>1. ASSUME NEW l, Step(l)
        PROVE  QInv(q)'
    BY <1>1, BenignStep
  <1>2. CASE WaiterShuffle(t) /\ sleader[t] # 1
    <2>1. Step("wait")
      BY <1>0, <1>2 DEF WaiterShuffle, IsHead
    <2> QED
      BY <1>1, <2>1
  <1>3. CASE HeadShuffle(t) /\ ~(wcount[t] = 0 \/ sleader[t] = 1)
    <2>1. Step("head")
      BY <1>0, <1>3 DEF HeadShuffle, IsHead
    <2> QED
      BY <1>1, <2>1
  <1>4. CASE CasTail(t) /\ tail # t
    <2>1. Step("waitsucc")
      BY <1>0, <1>4 DEF CasTail, IsHead
    <2> QED
      BY <1>1, <2>1
  <1> QED
    BY <1>2, <1>3, <1>4

\* A private node is initialised: but for its socket it already was.
LEMMA SlowPathStep ==
  ASSUME TypeOK, NEW q, QInv(q), NULL \notin Threads, NEW t \in Threads, SlowPath(t)
  PROVE  QInv(q)'
  <1> USE DEF Goto, nodeVars, lockVars, QueuedPcs, FramePcs, ShufflePcs
  <1>1. PICK n \in Homes[t] : NodeReset(t, n)
    BY DEF SlowPath
  <1>2. /\ next[t] = NULL /\ last_visited[t] = NULL
        /\ lstatus[t] = 0 /\ sleader[t] = 0 /\ wcount[t] = 0
    BY DEF QInv, Fresh, SlowPath
  <1>3. UNCHANGED <<next, last_visited, lstatus, sleader, wcount>>
    BY <1>1, <1>2 DEF NodeReset, TypeOK
  <1>4. \A u \in Threads : pc[u] \in QueuedPcs => nid'[u] = nid[u]
    BY <1>1 DEF NodeReset, SlowPath, TypeOK
  <1>5. pc' = [pc EXCEPT ![t] = "swap"] /\ UNCHANGED <<tail, pred, sh>> /\ pc[t] = "idle"
    BY DEF SlowPath
  <1>6. IsHead(t)' <=> IsHead(t)
    BY <1>3, <1>5 DEF IsHead, TypeOK
  <1> QED
    BY <1>3, <1>4, <1>5, <1>6, BenignStep

-----------------------------------------------------------------------------
(* The steps of shuffle_waiters that leave the list alone.                   *)

LEMMA Still ==
  ASSUME NEW q, QInv(q), Calm(q, 0), NEW i \in 1..Len(q), NEW k \in 0..Len(q)
  PROVE  /\ Reached(q, k) => Reached(q, k)'
         /\ Counted(q, i, k) => Counted(q, i, k)'
         /\ \A j \in 1..Len(q) : Clean(q, i, k, q[j]) => Clean(q, i, k, q[j])'
  <1>1. Len(q) \in Nat
    BY DEF QInv, QueueOf
  <1>2. \A l \in 1..Len(q) : /\ nid'[q[l]] = nid[q[l]]
                             /\ wcount[q[l]] = 1 => wcount'[q[l]] = 1
                             /\ pc[q[l]] # "link" => pc'[q[l]] # "link"
    BY DEF Calm
  <1>3. Reached(q, k) => Reached(q, k)'
    BY <1>1, <1>2 DEF Reached
  <1>4. Counted(q, i, k) => Counted(q, i, k)'
    BY <1>1, <1>2 DEF Counted
  <1>5. ASSUME NEW j \in 1..Len(q), Clean(q, i, k, q[j])
        PROVE  Clean(q, i, k, q[j])'
    BY <1>1, <1>2, <1>5 DEF Clean
  <1> QED
    BY <1>3, <1>4, <1>5

\* The next field of a position that nobody is moved next to.
LEMMA NextOf ==
  ASSUME NEW q, QInv(q), NEW i \in 1..Len(q), ~Moved(q[i]), next[q[i]] # NULL
  PROVE  i < Len(q) /\ next[q[i]] = q[i + 1] /\ pc[q[i + 1]] # "link"
  <1>1. Len(q) \in Nat
    BY DEF QInv, QueueOf
  <1>2. LinkAt(q, i)
    BY DEF QInv
  <1> QED
    BY <1>1, <1>2 DEF LinkAt

\* While somebody shuffles and moves nobody, nobody is moved.
LEMMA NoneMoved ==
  ASSUME NEW q, QInv(q), NEW t \in Threads, pc[t] \in ShufflePcs \ MovePcs, NEW u
  PROVE  ~Moved(u)
  <1>1. PICK j \in 1..Len(q) : q[j] = t
    BY Placed DEF QInv, QueuedPcs
  <1>2. SUFFICES ASSUME NEW m \in Threads, pc[m] \in MovePcs
                 PROVE  FALSE
    BY DEF Moved, MovePcs
  <1>3. PICK k \in 1..Len(q) : q[k] = m
    BY <1>2, Placed DEF QInv, QueuedPcs, ShufflePcs, MovePcs
  <1>4. Token(q[j]) /\ Token(q[k]) /\ k # j
    BY <1>1, <1>2, <1>3 DEF Token, MovePcs, ShufflePcs
  <1> QED
    BY <1>4, OneToken

LEMMA ShuffleStep ==
  ASSUME TypeOK, NEW q, QInv(q), NULL \notin Threads, NEW t \in Threads,
         pc[t] \in ShufflePcs \ MovePcs, pc'[t] \in (ShufflePcs \ MovePcs) \cup {"wait", "head"},
         \A u \in Threads \ {t} : pc'[u] = pc[u] /\ sh'[u] = sh[u],
         UNCHANGED <<tail, next, lstatus, sleader, nid, last_visited, pred>>,
         \A u \in Threads : wcount'[u] # wcount[u] => wcount'[u] = 1 /\ pc[u] \in QueuedPcs \ {"link"},
         IsHead(t)' <=> IsHead(t),
         pc'[t] \in ShufflePcs /\ sh'[t].last = t => sh[t].last = t,
         NEW j \in 1..Len(q), q[j] = t,
         FrameAt(q, j)', LoopAt(q, j)', AppointAt(q, j)'
  PROVE  QInv(q)'
  <1>1. /\ q \in Seq(Threads) /\ Len(q) \in Nat
        /\ \A i \in 1..Len(q) : q[i] \in Threads /\ pc[q[i]] \in QueuedPcs
        /\ \A i \in 1..Len(q) : q[i] = q[j] => i = j
        /\ Started
    BY DEF QInv, QueueOf
  <1>2. QueueOf(q)' /\ Fresh' /\ \A i \in 1..Len(q) : HeadAt(q, i)' /\ LinkAt(q, i)'
    <2>1. /\ pc[t] \notin MovePcs \cup {"link"} /\ pc'[t] \notin MovePcs \cup {"link"}
          /\ pc[t] \in QueuedPcs /\ pc'[t] \in QueuedPcs /\ pc'[t] # "notify"
      BY DEF ShufflePcs, MovePcs, QueuedPcs
    <2>2. \A u \in Threads : pc[u] \notin QueuedPcs \/ pc[u] = "link" => wcount'[u] = wcount[u]
      OBVIOUS
    <2> QED
      BY <2>1, <2>2, QuietStep
  <1>3. Calm(q, 0)
    <2>1. pc'[t] # "link"
      BY DEF ShufflePcs
    <2> QED
      BY <1>1, <2>1 DEF Calm
  <1>4. Started'
    BY <1>1 DEF Started
  <1>5. \A u \in Threads : /\ Token(u)' => Token(u)
                           /\ Led(u)' => Led(u)
                           /\ Resumable(u)' => Resumable(u)
                           /\ \A x \in Threads : Mark(u, x)' => Mark(u, x)
    <2>1. \A u \in Threads : Token(u)' => Token(u)
      BY DEF Token
    <2>2. \A u, x : Mark(u, x)' => Mark(u, x)
      <3>1. pc'[t] # "visited"
        BY DEF ShufflePcs
      <3> QED
        BY <3>1 DEF Mark
    <2>3. \A u \in Threads : Led(u)' => Led(u)
      BY <2>2 DEF Led, FramePcs, ShufflePcs
    <2>4. ASSUME NEW u \in Threads, Resumable(u)'
          PROVE  Resumable(u)
      <3>1. CASE u = t
        <4>1. pc'[t] \in ShufflePcs
          <5>1. sleader'[t] = 0
            BY <1>1 DEF Started
          <5> QED
            BY <2>4, <3>1, <5>1 DEF Resumable, Token
        <4> QED
          BY <2>1, <2>4, <3>1, <4>1 DEF Resumable
      <3>2. CASE u # t
        BY <2>1, <2>4, <3>2 DEF Resumable
      <3> QED
        BY <3>1, <3>2
    <2> QED
      BY <2>1, <2>2, <2>3, <2>4
  <1>6. \A i \in 1..Len(q) : TokenAt(q, i)' /\ LedAt(q, i)' /\ MarkAt(q, i)'
    BY <1>3, <1>5, StayTokens
  <1>7. \A i \in 1..Len(q) : q[i] # t => FrameAt(q, i)' /\ LoopAt(q, i)' /\ MoveAt(q, i)' /\ AppointAt(q, i)'
    BY <1>3, StayOthers
  <1>8. MoveAt(q, j)'
    BY DEF MoveAt, MovePcs, ShufflePcs
  <1>9. \A i \in 1..Len(q) : FrameAt(q, i)' /\ LoopAt(q, i)' /\ MoveAt(q, i)' /\ AppointAt(q, i)'
    BY <1>1, <1>7, <1>8
  <1> QED
    BY <1>2, <1>4, <1>6, <1>9 DEF QInv

\* Leaving the loop: the last waiter found leads on from where the scan has got to.
LEMMA LeaveParts ==
  ASSUME TypeOK, NEW q, QInv(q), NEW j \in 1..Len(q), pc[q[j]] \in LoopPcs,
         Leave(q[j], sh[q[j]]), Calm(q, 0)
  PROVE  FrameAt(q, j)' /\ LoopAt(q, j)' /\ AppointAt(q, j)'
  <1> DEFINE t == q[j]
             f == sh[t]
  <1>1. /\ q \in Seq(Threads) /\ Len(q) \in Nat /\ t \in Threads
        /\ FrameAt(q, j) /\ LoopAt(q, j)
    BY DEF QInv, QueueOf
  <1>2. /\ pc'[t] = "appoint"
        /\ sh'[t] = [f EXCEPT !.leader = f.last, !.qend = f.prev]
        /\ f \in Frame
    BY <1>1 DEF Leave, Goto, TypeOK
  <1>3. /\ sh'[t].prev = f.prev /\ sh'[t].last = f.last /\ sh'[t].curr = f.curr
        /\ sh'[t].nxt = f.nxt /\ sh'[t].leader = f.last /\ sh'[t].qend = f.prev
    BY <1>2 DEF Frame
  <1> HIDE DEF t, f
  <1>4. \A x \in {f.prev, f.last, f.curr, f.nxt} : x = NULL \/ On(q, j, x)
    BY <1>1 DEF FrameAt, t, f, FramePcs, LoopPcs, ShufflePcs
  <1>5. FrameAt(q, j)'
    BY <1>3, <1>4 DEF FrameAt, On, t
  <1>6. LoopAt(q, j)'
    BY <1>2 DEF LoopAt, LoopPcs, t
  <1>7. PICK i \in j..Len(q) : \E p \in i..Len(q) :
          /\ q[i] = f.last /\ q[p] = f.prev
          /\ nid[q[i]] = nid[q[j]] /\ Counted(q, j, i) /\ Reached(q, p) /\ Clean(q, i, p, q[j])
    BY <1>1 DEF LoopAt, t, f
  <1>8. PICK p \in i..Len(q) :
          /\ q[i] = f.last /\ q[p] = f.prev
          /\ nid[q[i]] = nid[q[j]] /\ Counted(q, j, i) /\ Reached(q, p) /\ Clean(q, i, p, q[j])
    BY <1>7
  <1>9. i \in 1..Len(q) /\ p \in 1..Len(q) /\ i - 1 \in 0..Len(q)
    BY <1>1
  <1>10. Counted(q, j, i - 1) /\ Clean(q, i, p, q[i]) /\ wcount[q[i]] = 1
    BY <1>1, <1>8, <1>9 DEF Counted, Clean
  <1>11. Counted(q, j, i - 1)' /\ Clean(q, i, p, q[i])' /\ Reached(q, p)'
    BY <1>8, <1>9, <1>10, Still
  <1>12. wcount'[q[i]] = 1
    BY <1>1, <1>9, <1>10 DEF Calm
  <1>13. /\ q[i] = sh'[t].leader /\ (i = j => sh'[t].last = t)
         /\ q[p] = sh'[t].qend /\ p \in i..Len(q)
    BY <1>3, <1>8 DEF t
  <1>14. \E k \in j..Len(q) :
           /\ q[k] = sh'[t].leader /\ Counted(q, j, k - 1)'
           /\ k = j => sh'[t].last = t
           /\ sh'[t].qend # NULL => /\ wcount'[q[k]] = 1
                               /\ \E l \in k..Len(q) : q[l] = sh'[t].qend /\ Reached(q, l)'
                                                       /\ Clean(q, k, l, q[k])'
    BY <1>11, <1>12, <1>13
  <1>15. AppointAt(q, j)'
    BY <1>2, <1>14 DEF AppointAt, t
  <1> QED
    BY <1>5, <1>6, <1>15

\* The current position in the loop, its last local waiter and how far it has got.
LEMMA AtLoop ==
  ASSUME NEW q, QInv(q), NEW t \in Threads, pc[t] \in LoopPcs
  PROVE  \E j \in 1..Len(q) : \E i \in j..Len(q) : \E p \in i..Len(q) :
           /\ q[j] = t /\ q[i] = sh[t].last /\ q[p] = sh[t].prev
           /\ nid[q[i]] = nid[t] /\ Counted(q, j, i) /\ Reached(q, p) /\ Clean(q, i, p, t)
           /\ pc[t] \in {"tailcheck", "getnext", "unlink"} =>
                p < Len(q) /\ q[p + 1] = sh[t].curr /\ Reached(q, p + 1)
           /\ pc[t] \in {"getnext", "unlink"} =>
                i < p /\ p + 1 < Len(q) /\ nid[q[p + 1]] = nid[t]
           /\ pc[t] = "unlink" =>
                wcount[q[p + 1]] = 1 /\ q[p + 2] = sh[t].nxt /\ Reached(q, p + 2)
  <1>1. PICK j \in 1..Len(q) : q[j] = t
    BY Placed DEF QInv, QueuedPcs, ShufflePcs, LoopPcs
  <1>2. LoopAt(q, j)
    BY DEF QInv
  <1> QED
    BY <1>1, <1>2 DEF LoopAt

\* The frame of a step that stores one local found behind t.
LEMMA FrameNow ==
  ASSUME NEW q, NEW j, FrameAt(q, j), pc[q[j]] \in FramePcs,
         \A x \in {sh'[q[j]].prev, sh'[q[j]].last, sh'[q[j]].curr, sh'[q[j]].nxt,
                   sh'[q[j]].leader, sh'[q[j]].qend} :
           \/ x = NULL
           \/ On(q, j, x)
           \/ x \in {sh[q[j]].prev, sh[q[j]].last, sh[q[j]].curr, sh[q[j]].nxt,
                     sh[q[j]].leader, sh[q[j]].qend}
  PROVE  FrameAt(q, j)'
  BY ZenonT(60) DEF FrameAt, On

LEMMA LeaveKeeps ==
  ASSUME TypeOK, NEW q, QInv(q), NULL \notin Threads, NEW t \in Threads,
         pc[t] \in LoopPcs, Leave(t, sh[t]),
         UNCHANGED <<tail, next, lstatus, sleader, wcount, nid, last_visited, pred>>
  PROVE  QInv(q)'
  <1>1. PICK j \in 1..Len(q) : q[j] = t
    BY Placed DEF QInv, QueuedPcs, ShufflePcs, LoopPcs
  <1>2. /\ pc'[t] = "appoint" /\ sh'[t].is_next_waiter = sh[t].is_next_waiter
        /\ sh'[t].last = sh[t].last
        /\ \A u \in Threads \ {t} : pc'[u] = pc[u] /\ sh'[u] = sh[u]
    BY DEF Leave, Goto, TypeOK, Frame
  <1>3. Calm(q, 0)
    BY <1>2 DEF Calm, QInv, QueueOf
  <1>4. FrameAt(q, j)' /\ LoopAt(q, j)' /\ AppointAt(q, j)'
    BY <1>1, <1>3, LeaveParts
  <1>5. IsHead(t)' <=> IsHead(t)
    BY <1>2 DEF IsHead, ShufflePcs, LoopPcs
  <1> QED
    BY <1>1, <1>2, <1>4, <1>5, ShuffleStep DEF ShufflePcs, MovePcs, LoopPcs

LEMMA ReadyStep ==
  ASSUME TypeOK, NEW q, QInv(q), NULL \notin Threads, NEW t \in Threads, Ready(t)
  PROVE  QInv(q)'
  <1>1. pc[t] = "ready" /\ UNCHANGED <<tail, next, lstatus, sleader, wcount, nid, last_visited, pred>>
    BY DEF Ready, lockVars, nodeVars
  <1>2. PICK j \in 1..Len(q) : q[j] = t
    BY <1>1, Placed DEF QInv, QueuedPcs, ShufflePcs
  <1>3. \A i \in 1..Len(q) : q[i] \in Threads
    BY DEF QInv, QueueOf
  <1>4. CASE Leave(t, sh[t])
    BY <1>1, <1>4, LeaveKeeps DEF LoopPcs
  <1>5. CASE Goto(t, "scan") /\ UNCHANGED sh
    <2>1. pc'[t] = "scan" /\ \A u \in Threads \ {t} : pc'[u] = pc[u] /\ sh'[u] = sh[u]
      BY <1>5 DEF Goto, TypeOK
    <2>2. Calm(q, 0)
      BY <1>1, <1>3, <2>1 DEF Calm
    <2>3. FrameAt(q, j)'
      BY <1>1, <1>2, <1>5, <2>1 DEF QInv, FrameAt, On, FramePcs, ShufflePcs
    <2>4. LoopAt(q, j)'
      <3>1. LoopAt(q, j) /\ pc[q[j]] = "ready" /\ pc'[q[j]] = "scan" /\ sh' = sh /\ nid' = nid /\ wcount' = wcount
        BY <1>1, <1>2, <1>5, <2>1 DEF QInv
      <3>2. \A p \in 1..Len(q) : Reached(q, p) => Reached(q, p)'
        <4>1. \A p \in 1..Len(q) : 1 \in 1..Len(q) /\ p \in 0..Len(q)
          BY DEF QInv, QueueOf
        <4> QED
          BY <2>2, <4>1, Still
      <3>3. Len(q) \in Nat
        BY DEF QInv, QueueOf
      <3> QED
        BY <3>1, <3>2, <3>3 DEF LoopAt, LoopPcs, Counted, Clean
    <2>5. AppointAt(q, j)'
      BY <1>2, <2>1 DEF AppointAt
    <2>6. IsHead(t)' <=> IsHead(t)
      BY <1>1, <1>5, <2>1 DEF IsHead, ShufflePcs
    <2> QED
      BY <1>1, <1>2, <1>5, <2>1, <2>3, <2>4, <2>5, <2>6, ShuffleStep DEF ShufflePcs, MovePcs
  <1> QED
    BY <1>4, <1>5 DEF Ready

LEMMA ScanStep ==
  ASSUME TypeOK, NEW q, QInv(q), NULL \notin Threads, NEW t \in Threads, Scan(t)
  PROVE  QInv(q)'
  <1>1. pc[t] = "scan" /\ UNCHANGED <<tail, next, lstatus, sleader, wcount, nid, last_visited, pred>>
    BY DEF Scan, lockVars, nodeVars
  <1>2. PICK j \in 1..Len(q) : \E i \in j..Len(q) : \E p \in i..Len(q) :
           /\ q[j] = t /\ q[i] = sh[t].last /\ q[p] = sh[t].prev
           /\ nid[q[i]] = nid[t] /\ Counted(q, j, i) /\ Reached(q, p) /\ Clean(q, i, p, t)
    BY <1>1, AtLoop DEF LoopPcs
  <1>3. PICK i \in j..Len(q) : \E p \in i..Len(q) :
           /\ q[j] = t /\ q[i] = sh[t].last /\ q[p] = sh[t].prev
           /\ nid[q[i]] = nid[t] /\ Counted(q, j, i) /\ Reached(q, p) /\ Clean(q, i, p, t)
    BY <1>2
  <1>4. PICK p \in i..Len(q) :
           /\ q[j] = t /\ q[i] = sh[t].last /\ q[p] = sh[t].prev
           /\ nid[q[i]] = nid[t] /\ Counted(q, j, i) /\ Reached(q, p) /\ Clean(q, i, p, t)
    BY <1>3
  <1>5. \A k \in 1..Len(q) : q[k] \in Threads
    BY DEF QInv, QueueOf
  <1>6. CASE next[sh[t].prev] = NULL
    <2>0. Leave(t, sh[t])
      BY <1>6 DEF Scan
    <2> QED
      BY <1>1, <2>0, LeaveKeeps DEF LoopPcs
  <1>7. CASE next[sh[t].prev] # NULL
    <2>0. /\ sh' = [sh EXCEPT ![t].curr = next[sh[t].prev]]
          /\ Goto(t, "tailcheck")
      BY <1>7 DEF Scan
    <2>1. /\ pc'[t] = "tailcheck" /\ sh'[t] = [sh[t] EXCEPT !.curr = next[sh[t].prev]]
          /\ \A u \in Threads \ {t} : pc'[u] = pc[u] /\ sh'[u] = sh[u]
          /\ sh[t] \in Frame
      BY <2>0 DEF Goto, TypeOK
    <2>2. /\ sh'[t].prev = sh[t].prev /\ sh'[t].last = sh[t].last
          /\ sh'[t].nxt = sh[t].nxt /\ sh'[t].leader = sh[t].leader /\ sh'[t].qend = sh[t].qend
          /\ sh'[t].curr = next[sh[t].prev] /\ sh'[t].is_next_waiter = sh[t].is_next_waiter
      BY <2>1 DEF Frame
    <2>3. Calm(q, 0)
      BY <1>1, <1>5, <2>1 DEF Calm
    <2>4. Len(q) \in Nat /\ p \in 1..Len(q) /\ i \in 1..Len(q)
      BY DEF QInv, QueueOf
    <2>5. ~Moved(q[p])
      BY <1>1, NoneMoved DEF ShufflePcs, MovePcs
    <2>6. p < Len(q) /\ sh'[t].curr = q[p + 1] /\ pc[q[p + 1]] # "link"
      BY <1>4, <1>7, <2>2, <2>4, <2>5, NextOf
    <2>7. p + 1 \in j..Len(q) /\ p + 1 \in 0..Len(q)
      BY <2>4, <2>6
    <2>8. On(q, j, sh'[t].curr)
      BY <2>6, <2>7 DEF On
    <2>9. FrameAt(q, j)'
      <3>1. FrameAt(q, j) /\ pc[q[j]] \in FramePcs
        BY <1>1, <1>4 DEF QInv, FramePcs, ShufflePcs
      <3> QED
        BY <1>4, <2>2, <2>8, <3>1, FrameNow
    <2>10. Reached(q, p + 1)
      BY <1>4, <2>4, <2>6 DEF Reached
    <2>11. Reached(q, p)' /\ Reached(q, p + 1)' /\ Counted(q, j, i)' /\ Clean(q, i, p, q[j])'
      BY <1>4, <2>3, <2>4, <2>7, <2>10, Still
    <2>12. LoopAt(q, j)'
      BY <1>1, <1>4, <2>1, <2>2, <2>6, <2>11 DEF LoopAt
    <2>13. AppointAt(q, j)'
      BY <1>4, <2>1 DEF AppointAt
    <2>14. IsHead(t)' <=> IsHead(t)
      BY <1>1, <2>1, <2>2 DEF IsHead, ShufflePcs
    <2> QED
      BY <1>1, <1>4, <2>1, <2>2, <2>9, <2>12, <2>13, <2>14, ShuffleStep DEF ShufflePcs, MovePcs
  <1> QED
    BY <1>6, <1>7

LEMMA TailCheckStep ==
  ASSUME TypeOK, NEW q, QInv(q), NULL \notin Threads, NEW t \in Threads, TailCheck(t)
  PROVE  QInv(q)'
  <1> DEFINE curr == sh[t].curr
             prev == sh[t].prev
  <1>1. pc[t] = "tailcheck" /\ UNCHANGED <<tail, next, lstatus, sleader, nid, last_visited, pred>>
    BY DEF TailCheck, lockVars
  <1>2. PICK j \in 1..Len(q) : \E i \in j..Len(q) : \E p \in i..Len(q) :
           /\ q[j] = t /\ q[i] = sh[t].last /\ q[p] = prev
           /\ nid[q[i]] = nid[t] /\ Counted(q, j, i) /\ Reached(q, p) /\ Clean(q, i, p, t)
           /\ p < Len(q) /\ q[p + 1] = curr /\ Reached(q, p + 1)
    BY <1>1, AtLoop DEF LoopPcs
  <1>3. PICK i \in j..Len(q) : \E p \in i..Len(q) :
           /\ q[j] = t /\ q[i] = sh[t].last /\ q[p] = prev
           /\ nid[q[i]] = nid[t] /\ Counted(q, j, i) /\ Reached(q, p) /\ Clean(q, i, p, t)
           /\ p < Len(q) /\ q[p + 1] = curr /\ Reached(q, p + 1)
    BY <1>2
  <1>4. PICK p \in i..Len(q) :
           /\ q[j] = t /\ q[i] = sh[t].last /\ q[p] = prev
           /\ nid[q[i]] = nid[t] /\ Counted(q, j, i) /\ Reached(q, p) /\ Clean(q, i, p, t)
           /\ p < Len(q) /\ q[p + 1] = curr /\ Reached(q, p + 1)
    BY <1>3
  <1>5. /\ \A k \in 1..Len(q) : q[k] \in Threads /\ pc[q[k]] \in QueuedPcs
        /\ Len(q) \in Nat /\ tail = q[Len(q)]
    BY DEF QInv, QueueOf
  <1>6. /\ p \in 1..Len(q) /\ i \in 1..Len(q) /\ p + 1 \in 1..Len(q)
        /\ p + 1 \in j..Len(q) /\ p + 1 \in 0..Len(q) /\ p \in 0..Len(q) /\ i \in 0..Len(q)
    BY <1>4, <1>5
  <1>7. curr \in Threads /\ pc[curr] \in QueuedPcs \ {"link"} /\ On(q, j, curr)
    BY <1>4, <1>5, <1>6 DEF On, Reached
  <1>8. FrameAt(q, j) /\ pc[q[j]] \in FramePcs
    BY <1>1, <1>4 DEF QInv, FramePcs, ShufflePcs
  <1>9. wcount[t] = 1
    <2>1. Led(q[j])
      BY <1>8 DEF Led
    <2> QED
      BY <1>4, <2>1 DEF QInv, LedAt, Counted
  <1>10. sh[t] \in Frame
    BY DEF TypeOK
  <1>11. CASE curr = tail /\ Leave(t, sh[t]) /\ UNCHANGED wcount
    BY <1>1, <1>11, LeaveKeeps DEF LoopPcs
  <1>12. CASE /\ curr # tail /\ nid[curr] # nid[t] /\ sh' = [sh EXCEPT ![t].prev = curr]
              /\ Goto(t, "ready") /\ UNCHANGED wcount
    <2>1. /\ pc'[t] = "ready" /\ sh'[t] = [sh[t] EXCEPT !.prev = curr]
          /\ \A u \in Threads \ {t} : pc'[u] = pc[u] /\ sh'[u] = sh[u]
      BY <1>12 DEF Goto, TypeOK
    <2>2. /\ sh'[t].prev = curr /\ sh'[t].last = sh[t].last
          /\ sh'[t].nxt = sh[t].nxt /\ sh'[t].leader = sh[t].leader /\ sh'[t].qend = sh[t].qend
          /\ sh'[t].curr = curr /\ sh'[t].is_next_waiter = sh[t].is_next_waiter
      BY <1>10, <2>1 DEF Frame
    <2> HIDE DEF curr, prev
    <2>3. Calm(q, 0)
      BY <1>1, <1>5, <1>12, <2>1 DEF Calm
    <2>4. FrameAt(q, j)'
      BY <1>4, <1>7, <1>8, <2>2, FrameNow
    <2>5. Clean(q, i, p + 1, q[j])
      BY <1>4, <1>5, <1>6, <1>12 DEF Clean
    <2>6. Reached(q, p + 1)' /\ Counted(q, j, i)' /\ Clean(q, i, p + 1, q[j])'
      BY <1>4, <1>6, <2>3, <2>5, Still
    <2>7. p + 1 \in i..Len(q)
      BY <1>6
    <2>8. LoopAt(q, j)'
      BY <1>1, <1>4, <2>1, <2>2, <2>6, <2>7 DEF LoopAt
    <2>9. AppointAt(q, j)'
      BY <1>4, <2>1 DEF AppointAt
    <2>10. IsHead(t)' <=> IsHead(t)
      BY <1>1, <2>1, <2>2 DEF IsHead, ShufflePcs
    <2> QED
      BY <1>1, <1>4, <1>12, <2>1, <2>2, <2>4, <2>8, <2>9, <2>10, ShuffleStep DEF ShufflePcs, MovePcs
  <1>13. CASE /\ curr # tail /\ nid[curr] = nid[t] /\ nid[prev] = nid[t]
              /\ wcount' = [wcount EXCEPT ![curr] = wcount[t]]
              /\ sh' = [sh EXCEPT ![t] = [@ EXCEPT !.last = curr, !.prev = curr, !.one_shuffle = 1]]
              /\ Goto(t, "ready")
    <2>1. /\ pc'[t] = "ready"
          /\ sh'[t] = [sh[t] EXCEPT !.last = curr, !.prev = curr, !.one_shuffle = 1]
          /\ \A u \in Threads \ {t} : pc'[u] = pc[u] /\ sh'[u] = sh[u]
      BY <1>13 DEF Goto, TypeOK
    <2>2. /\ sh'[t].prev = curr /\ sh'[t].last = curr
          /\ sh'[t].nxt = sh[t].nxt /\ sh'[t].leader = sh[t].leader /\ sh'[t].qend = sh[t].qend
          /\ sh'[t].curr = curr /\ sh'[t].is_next_waiter = sh[t].is_next_waiter
      BY <1>10, <2>1 DEF Frame
    <2>3. /\ wcount'[curr] = 1
          /\ \A u \in Threads : wcount'[u] # wcount[u] => wcount'[u] = 1 /\ pc[u] \in QueuedPcs \ {"link"}
      BY <1>7, <1>9, <1>13 DEF TypeOK
    <2>4. curr # t
      <3>1. p + 1 # j
        BY <1>5
      <3> QED
        BY <1>4, <1>6, <3>1 DEF QInv, QueueOf
    <2> HIDE DEF curr, prev
    <2>5. Calm(q, 0)
      BY <1>1, <1>5, <2>1, <2>3 DEF Calm
    <2>6. FrameAt(q, j)'
      BY <1>4, <1>7, <1>8, <2>2, FrameNow
    <2>7. p = i
      BY <1>4, <1>5, <1>6, <1>13 DEF Clean
    <2>8. Reached(q, p + 1)' /\ Counted(q, j, i)'
      BY <1>4, <1>6, <2>5, Still
    <2>9. Counted(q, j, p + 1)' /\ Clean(q, p + 1, p + 1, q[j])'
      BY <1>4, <1>5, <1>6, <2>3, <2>7, <2>8 DEF Counted, Clean
    <2>10. LoopAt(q, j)'
      <3>1. p + 1 \in (p + 1)..Len(q)
        BY <1>6
      <3> QED
        BY <1>1, <1>4, <1>6, <1>13, <2>1, <2>2, <2>8, <2>9, <3>1 DEF LoopAt
    <2>11. AppointAt(q, j)'
      BY <1>4, <2>1 DEF AppointAt
    <2>12. IsHead(t)' <=> IsHead(t)
      BY <1>1, <2>1, <2>2 DEF IsHead, ShufflePcs
    <2> QED
      BY <1>1, <1>4, <2>1, <2>2, <2>3, <2>4, <2>6, <2>10, <2>11, <2>12, ShuffleStep
      DEF ShufflePcs, MovePcs
  <1>14. CASE /\ curr # tail /\ nid[curr] = nid[t] /\ nid[prev] # nid[t]
              /\ Goto(t, "getnext") /\ UNCHANGED <<wcount, sh>>
    <2>1. pc'[t] = "getnext" /\ \A u \in Threads \ {t} : pc'[u] = pc[u] /\ sh'[u] = sh[u]
      BY <1>14 DEF Goto, TypeOK
    <2> HIDE DEF curr, prev
    <2>2. Calm(q, 0)
      BY <1>1, <1>5, <1>14, <2>1 DEF Calm
    <2>3. FrameAt(q, j)'
      BY <1>4, <1>8, <1>14, FrameNow
    <2>4. i < p /\ p + 1 < Len(q)
      BY <1>4, <1>5, <1>6, <1>14
    <2>5. Reached(q, p)' /\ Reached(q, p + 1)' /\ Counted(q, j, i)' /\ Clean(q, i, p, q[j])'
      BY <1>4, <1>6, <2>2, Still
    <2>6. LoopAt(q, j)'
      BY <1>1, <1>4, <1>14, <2>1, <2>4, <2>5 DEF LoopAt, curr, prev
    <2>7. AppointAt(q, j)'
      BY <1>4, <2>1 DEF AppointAt
    <2>8. IsHead(t)' <=> IsHead(t)
      BY <1>1, <1>14, <2>1 DEF IsHead, ShufflePcs
    <2> QED
      BY <1>1, <1>4, <1>14, <2>1, <2>3, <2>6, <2>7, <2>8, ShuffleStep DEF ShufflePcs, MovePcs
  <1> QED
    BY <1>11, <1>12, <1>13, <1>14 DEF TailCheck

LEMMA GetNextStep ==
  ASSUME TypeOK, NEW q, QInv(q), NULL \notin Threads, NEW t \in Threads, GetNext(t)
  PROVE  QInv(q)'
  <1> DEFINE curr == sh[t].curr
  <1>1. pc[t] = "getnext" /\ UNCHANGED <<tail, next, lstatus, sleader, nid, last_visited, pred>>
    BY DEF GetNext, lockVars
  <1>2. PICK j \in 1..Len(q) : \E i \in j..Len(q) : \E p \in i..Len(q) :
           /\ q[j] = t /\ q[i] = sh[t].last /\ q[p] = sh[t].prev
           /\ nid[q[i]] = nid[t] /\ Counted(q, j, i) /\ Reached(q, p) /\ Clean(q, i, p, t)
           /\ q[p + 1] = curr /\ Reached(q, p + 1)
           /\ i < p /\ p + 1 < Len(q) /\ nid[q[p + 1]] = nid[t]
    BY <1>1, AtLoop DEF LoopPcs
  <1>3. PICK i \in j..Len(q) : \E p \in i..Len(q) :
           /\ q[j] = t /\ q[i] = sh[t].last /\ q[p] = sh[t].prev
           /\ nid[q[i]] = nid[t] /\ Counted(q, j, i) /\ Reached(q, p) /\ Clean(q, i, p, t)
           /\ q[p + 1] = curr /\ Reached(q, p + 1)
           /\ i < p /\ p + 1 < Len(q) /\ nid[q[p + 1]] = nid[t]
    BY <1>2
  <1>4. PICK p \in i..Len(q) :
           /\ q[j] = t /\ q[i] = sh[t].last /\ q[p] = sh[t].prev
           /\ nid[q[i]] = nid[t] /\ Counted(q, j, i) /\ Reached(q, p) /\ Clean(q, i, p, t)
           /\ q[p + 1] = curr /\ Reached(q, p + 1)
           /\ i < p /\ p + 1 < Len(q) /\ nid[q[p + 1]] = nid[t]
    BY <1>3
  <1>5. /\ \A k \in 1..Len(q) : q[k] \in Threads /\ pc[q[k]] \in QueuedPcs
        /\ Len(q) \in Nat
    BY DEF QInv, QueueOf
  <1>6. /\ p \in 1..Len(q) /\ i \in 1..Len(q) /\ p + 1 \in 1..Len(q) /\ p + 2 \in j..Len(q)
        /\ p + 1 \in 0..Len(q) /\ p + 2 \in 0..Len(q) /\ p \in 0..Len(q) /\ i \in 0..Len(q)
        /\ (p + 1) + 1 = p + 2
    BY <1>4, <1>5
  <1>7. curr \in Threads /\ pc[curr] \in QueuedPcs \ {"link"}
    BY <1>4, <1>5, <1>6 DEF Reached
  <1>8. FrameAt(q, j) /\ pc[q[j]] \in FramePcs
    BY <1>1, <1>4 DEF QInv, FramePcs, ShufflePcs
  <1>9. wcount[t] = 1
    <2>1. Led(q[j])
      BY <1>8 DEF Led
    <2> QED
      BY <1>4, <2>1 DEF QInv, LedAt, Counted
  <1>10. sh[t] \in Frame
    BY DEF TypeOK
  <1>11. CASE next[curr] = NULL
    <2>1. Leave(t, sh[t]) /\ UNCHANGED wcount
      BY <1>11 DEF GetNext
    <2> QED
      BY <1>1, <2>1, LeaveKeeps DEF LoopPcs
  <1>12. CASE next[curr] # NULL
    <2>1. /\ wcount' = [wcount EXCEPT ![curr] = wcount[t]]
          /\ sh' = [sh EXCEPT ![t].nxt = next[curr]]
          /\ Goto(t, "unlink")
      BY <1>12 DEF GetNext
    <2>2. /\ pc'[t] = "unlink" /\ sh'[t] = [sh[t] EXCEPT !.nxt = next[curr]]
          /\ \A u \in Threads \ {t} : pc'[u] = pc[u] /\ sh'[u] = sh[u]
      BY <2>1 DEF Goto, TypeOK
    <2>3. /\ sh'[t].prev = sh[t].prev /\ sh'[t].last = sh[t].last
          /\ sh'[t].nxt = next[curr] /\ sh'[t].leader = sh[t].leader /\ sh'[t].qend = sh[t].qend
          /\ sh'[t].curr = curr /\ sh'[t].is_next_waiter = sh[t].is_next_waiter
      BY <1>10, <2>2 DEF Frame
    <2>4. /\ wcount'[curr] = 1
          /\ \A u \in Threads : wcount'[u] # wcount[u] => wcount'[u] = 1 /\ pc[u] \in QueuedPcs \ {"link"}
      BY <1>7, <1>9, <2>1 DEF TypeOK
    <2> HIDE DEF curr
    <2>5. Calm(q, 0)
      BY <1>1, <1>5, <2>2, <2>4 DEF Calm
    <2>6. next[curr] = q[p + 2] /\ pc[q[p + 2]] # "link"
      <3>1. ~Moved(q[p + 1])
        BY <1>1, NoneMoved DEF ShufflePcs, MovePcs
      <3> QED
        BY <1>4, <1>6, <1>12, <3>1, NextOf
    <2>7. On(q, j, next[curr])
      BY <1>6, <2>6 DEF On
    <2>8. FrameAt(q, j)'
      BY <1>4, <1>8, <2>3, <2>7, FrameNow DEF curr
    <2>9. Reached(q, p + 2)
      BY <1>4, <1>5, <1>6, <2>6 DEF Reached
    <2>10. /\ Reached(q, p)' /\ Reached(q, p + 1)' /\ Reached(q, p + 2)'
           /\ Counted(q, j, i)' /\ Clean(q, i, p, q[j])'
      BY <1>4, <1>6, <2>5, <2>9, Still
    <2>11. LoopAt(q, j)'
      <3>1. /\ q[i] = sh'[t].last /\ q[p] = sh'[t].prev /\ nid'[q[i]] = nid'[t]
            /\ p < Len(q) /\ q[p + 1] = sh'[t].curr /\ nid'[q[p + 1]] = nid'[t]
            /\ wcount'[q[p + 1]] = 1 /\ q[p + 2] = sh'[t].nxt
        BY <1>1, <1>4, <1>5, <1>6, <2>3, <2>4, <2>6
      <3> QED
        BY <1>4, <2>2, <2>10, <3>1 DEF LoopAt
    <2>12. AppointAt(q, j)'
      BY <1>4, <2>2 DEF AppointAt
    <2>13. IsHead(t)' <=> IsHead(t)
      BY <1>1, <2>2, <2>3 DEF IsHead, ShufflePcs
    <2> QED
      BY <1>1, <1>4, <2>2, <2>3, <2>4, <2>8, <2>11, <2>12, <2>13, ShuffleStep
      DEF ShufflePcs, MovePcs
  <1> QED
    BY <1>11, <1>12

-----------------------------------------------------------------------------
(* How a thread comes to shuffle and whom it appoints.                       *)

\* keep_lock_local() returned 0: the successor, if there is one, leads on.
LEMMA PassStep ==
  ASSUME TypeOK, NEW q, QInv(q), NULL \notin Threads, NEW t \in Threads, PassLeadership(t)
  PROVE  QInv(q)'
  <1>1. pc[t] = "pass" /\ UNCHANGED <<tail, next, lstatus, sleader, wcount, nid, last_visited, pred>>
    BY DEF PassLeadership, lockVars, nodeVars
  <1>2. PICK j \in 1..Len(q) : q[j] = t
    BY <1>1, Placed DEF QInv, QueuedPcs, ShufflePcs
  <1>3. /\ \A k \in 1..Len(q) : q[k] \in Threads
        /\ \A k \in 1..Len(q) : q[k] = q[j] => k = j
        /\ Len(q) \in Nat
    BY DEF QInv, QueueOf
  <1>4. FrameAt(q, j) /\ pc[q[j]] \in FramePcs /\ AppointAt(q, j) /\ sh[t] \in Frame
    BY <1>1, <1>2 DEF QInv, FramePcs, ShufflePcs, TypeOK
  <1>5. CASE Return(t)
    <2>1. /\ pc'[t] = IF sh[t].is_next_waiter = 1 THEN "head" ELSE "wait"
          /\ sh'[t] = NoFrame
          /\ \A u \in Threads \ {t} : pc'[u] = pc[u] /\ sh'[u] = sh[u]
      BY <1>5 DEF Return, Goto, TypeOK
    <2>2. FrameAt(q, j)' /\ LoopAt(q, j)' /\ AppointAt(q, j)'
      BY <1>2, <2>1 DEF FrameAt, LoopAt, AppointAt, FramePcs, ShufflePcs, LoopPcs
    <2>3. IsHead(t)' <=> IsHead(t)
      BY <1>1, <2>1 DEF IsHead, ShufflePcs
    <2> QED
      BY <1>1, <1>2, <2>1, <2>2, <2>3, ShuffleStep DEF ShufflePcs, MovePcs
  <1>6. CASE next[t] # NULL /\ sh' = [sh EXCEPT ![t].leader = next[t]] /\ Goto(t, "appoint")
    <2>1. /\ pc'[t] = "appoint" /\ sh'[t] = [sh[t] EXCEPT !.leader = next[t]]
          /\ \A u \in Threads \ {t} : pc'[u] = pc[u] /\ sh'[u] = sh[u]
      BY <1>6 DEF Goto, TypeOK
    <2>2. /\ sh'[t].prev = sh[t].prev /\ sh'[t].last = sh[t].last /\ sh'[t].curr = sh[t].curr
          /\ sh'[t].nxt = sh[t].nxt /\ sh'[t].leader = next[t] /\ sh'[t].qend = sh[t].qend
          /\ sh'[t].is_next_waiter = sh[t].is_next_waiter
      BY <1>4, <2>1 DEF Frame
    <2>3. j + 1 \in j..Len(q) /\ next[t] = q[j + 1]
      <3>1. ~Moved(q[j])
        BY <1>1, NoneMoved DEF ShufflePcs, MovePcs
      <3> QED
        BY <1>2, <1>3, <1>6, <3>1, NextOf
    <2>4. FrameAt(q, j)'
      <3>1. On(q, j, next[t])
        BY <2>3 DEF On
      <3> QED
        BY <1>2, <1>4, <2>2, <3>1, FrameNow
    <2>5. LoopAt(q, j)'
      BY <1>2, <2>1 DEF LoopAt, LoopPcs
    <2>6. wcount'[q[j]] = 1
      <3>1. Led(q[j])
        BY <1>4 DEF Led
      <3> QED
        BY <1>1, <1>3, <3>1 DEF QInv, LedAt, Counted
    <2>7. Counted(q, j, (j + 1) - 1)' /\ (j + 1 # j)
      BY <1>3, <2>6 DEF Counted
    <2>8. sh'[t].qend = NULL
      BY <1>1, <1>2, <1>4, <2>2 DEF AppointAt
    <2>9. AppointAt(q, j)'
      BY <1>2, <2>1, <2>2, <2>3, <2>7, <2>8 DEF AppointAt
    <2>10. IsHead(t)' <=> IsHead(t)
      BY <1>1, <2>1, <2>2 DEF IsHead, ShufflePcs
    <2> QED
      BY <1>1, <1>2, <2>1, <2>2, <2>4, <2>5, <2>9, <2>10, ShuffleStep DEF ShufflePcs, MovePcs
  <1> QED
    BY <1>5, <1>6 DEF PassLeadership

\* While nobody has been batched but by itself, nobody else is led.
LEMMA NoneLed ==
  ASSUME NEW q, QInv(q), 1 \in 1..Len(q), wcount[q[1]] # 1, NEW k \in 1..Len(q)
  PROVE  ~Led(q[k]) /\ (k # 1 => ~Token(q[k]))
  BY DEF QInv, LedAt, TokenAt, Counted

LEMMA BeginStep ==
  ASSUME TypeOK, NEW q, QInv(q), NULL \notin Threads, NEW t \in Threads,
         \/ WaiterShuffle(t) /\ sleader[t] = 1
         \/ HeadShuffle(t) /\ (wcount[t] = 0 \/ sleader[t] = 1)
  PROVE  QInv(q)'
  <1> DEFINE Starts(n) ==
        /\ StartShuffle(t, n)
        /\ (n = 0 /\ pc[t] = "waitleader") \/ (n = 1 /\ pc[t] = "headleader")
        /\ sleader[t] = 1 \/ (n = 1 /\ wcount[t] = 0)
  <1>0. \E n \in {0, 1} : Starts(n)
    <2>1. CASE WaiterShuffle(t) /\ sleader[t] = 1
      <3>1. StartShuffle(t, 0) /\ pc[t] = "waitleader"
        BY <2>1 DEF WaiterShuffle
      <3>2. Starts(0)
        BY <2>1, <3>1
      <3> QED
        BY <3>2
    <2>2. CASE HeadShuffle(t) /\ (wcount[t] = 0 \/ sleader[t] = 1)
      <3>1. StartShuffle(t, 1) /\ pc[t] = "headleader"
        BY <2>2 DEF HeadShuffle
      <3>2. Starts(1)
        BY <2>2, <3>1
      <3> QED
        BY <3>2
    <2> QED
      BY <2>1, <2>2
  <1>1a. PICK isNext \in {0, 1} : Starts(isNext)
    BY <1>0
  <1>1. /\ StartShuffle(t, isNext)
        /\ pc[t] \in {"headleader", "waitleader"} /\ (isNext = 1 <=> pc[t] = "headleader")
        /\ sleader[t] = 1 \/ (isNext = 1 /\ wcount[t] = 0)
    BY <1>1a
  <1> HIDE DEF Starts
  <1>2. /\ UNCHANGED <<tail, next, lstatus, nid, last_visited, pred>>
        /\ wcount'[t] = 1 /\ sleader'[t] = 0 /\ pc'[t] \in {"scan", "pass"}
        /\ \A u \in Threads \ {t} : pc'[u] = pc[u] /\ sh'[u] = sh[u]
        /\ \A u \in Threads \ {t} : wcount'[u] = wcount[u] /\ sleader'[u] = sleader[u]
    BY <1>1 DEF StartShuffle, Goto, TypeOK, lockVars
  <1>3. /\ sh'[t].prev = IF last_visited[t] = NULL THEN t ELSE last_visited[t]
        /\ sh'[t].last = t /\ sh'[t].curr = NULL /\ sh'[t].nxt = NULL
        /\ sh'[t].leader = NULL /\ sh'[t].qend = NULL /\ sh'[t].is_next_waiter = isNext
    BY <1>1 DEF StartShuffle, TypeOK, NoFrame
  <1>4. PICK j \in 1..Len(q) : q[j] = t
    BY <1>1, Placed DEF QInv, QueuedPcs, ShufflePcs
  <1>5. /\ \A k \in 1..Len(q) : q[k] \in Threads /\ pc[q[k]] \in QueuedPcs
        /\ \A k \in 1..Len(q) : q[k] = q[j] => k = j
        /\ Len(q) \in Nat /\ Started
    BY DEF QInv, QueueOf
  <1>6. QueueOf(q)' /\ Fresh' /\ \A i \in 1..Len(q) : HeadAt(q, i)' /\ LinkAt(q, i)'
    <2>1. IsHead(t)' <=> IsHead(t)
      BY <1>1, <1>2, <1>3 DEF IsHead, ShufflePcs
    <2>2. /\ pc[t] \notin MovePcs \cup {"link"} /\ pc'[t] \notin MovePcs \cup {"link"}
          /\ pc[t] \in QueuedPcs /\ pc'[t] \in QueuedPcs /\ pc'[t] # "notify"
      BY <1>1, <1>2 DEF ShufflePcs, MovePcs, QueuedPcs
    <2> QED
      BY <1>2, <2>1, <2>2, QuietStep
  <1>7. Calm(q, 0)
    BY <1>2, <1>5 DEF Calm
  <1>8. Started'
    BY <1>2, <1>5 DEF Started
  <1>9. \A i \in 1..Len(q) : q[i] # t => FrameAt(q, i)' /\ LoopAt(q, i)' /\ MoveAt(q, i)' /\ AppointAt(q, i)'
    BY <1>2, <1>7, StayOthers
  <1>10. pc[t] \notin FramePcs /\ pc'[t] \in FramePcs /\ pc'[t] # "visited"
    BY <1>1, <1>2 DEF FramePcs, ShufflePcs
  <1>11. \A u, x : Mark(u, x)' <=> Mark(u, x)
    BY <1>2, <1>10 DEF Mark, FramePcs
  <1>12. \A u \in Threads \ {t} : /\ Token(u)' <=> Token(u)
                                  /\ Led(u)' <=> Led(u)
                                  /\ Resumable(u)' <=> Resumable(u)
    BY <1>2, <1>11 DEF Token, Led, Resumable
  <1>13. /\ \A i \in 1..Len(q) : TokenAt(q, i)' /\ LedAt(q, i)' /\ MarkAt(q, i)'
         /\ \A x \in Threads : Mark(t, x) => Resumable(t)
    <2>1. CASE sleader[t] = 1
      <3>1. Token(t) /\ Resumable(t)
        BY <1>1, <2>1 DEF Token, Resumable, MovePcs, ShufflePcs
      <3>2. \A i \in 1..Len(q) : TokenAt(q, i) /\ LedAt(q, i) /\ MarkAt(q, i)
        BY DEF QInv
      <3>3. q \in Seq(Threads) /\ Shift(q, q, 0)
        BY ShiftSelf DEF QInv, QueueOf
      <3>4. \A i \in (0 + 1)..Len(q) : Token(q[i])' => Token(q[i])
        BY <1>5, <1>12, <3>1
      <3>5. ASSUME NEW i \in 1..Len(q)
            PROVE  TokenAt(q, i)' /\ MarkAt(q, i)'
        <4>1. i \in (0 + 1)..Len(q) /\ i - 0 = i
          OBVIOUS
        <4>2. \A k \in (Len(q) - 0 + 1)..Len(q) : ~Token(q[k])'
          BY <1>5
        <4>3. TokenAt(q, i - 0)'
          BY <1>7, <3>2, <3>3, <3>4, <4>1, <4>2, TokenKept
        <4>4. Resumable(q[i])' => Resumable(q[i])
          BY <1>5, <1>12, <3>1
        <4>5. MarkAt(q, i - 0)'
          BY <1>7, <1>11, <3>2, <3>3, <4>1, <4>4, MarkKept
        <4> QED
          BY <4>1, <4>3, <4>5
      <3>6. ASSUME NEW i \in 1..Len(q), i # j
            PROVE  LedAt(q, i)'
        <4>1. i \in (0 + 1)..Len(q) /\ i - 0 = i /\ q[i] \in Threads \ {t}
          BY <1>4, <1>5, <3>6
        <4>2. Led(q[i])' => Led(q[i])
          BY <1>12, <4>1
        <4>3. LedAt(q, i - 0)'
          BY <1>7, <3>2, <3>3, <3>4, <4>1, <4>2, LedKept
        <4> QED
          BY <4>1, <4>3
      <3>7. LedAt(q, j)'
        <4>1. \A i \in 1..(j - 1) : ~Token(q[i]) /\ wcount[q[i]] = 1
          BY <1>4, <1>5, <3>1, <3>2 DEF TokenAt
        <4>2. \A i \in 1..(j - 1) : ~Token(q[i])' /\ wcount'[q[i]] = 1
          BY <1>4, <1>5, <1>7, <3>4, <4>1 DEF Calm
        <4>3. Counted(q, 1, j)'
          BY <1>2, <1>4, <1>5, <4>2 DEF Counted
        <4> QED
          BY <4>2, <4>3 DEF LedAt
      <3> QED
        BY <3>1, <3>5, <3>6, <3>7
    <2>2. CASE sleader[t] # 1 /\ isNext = 1 /\ wcount[t] = 0
      <3>1. j = 1
        <4>1. IsHead(q[j])
          BY <1>1, <1>4, <2>2 DEF IsHead
        <4> QED
          BY <4>1 DEF QInv, HeadAt
      <3>2. \A k \in 1..Len(q) : ~Led(q[k]) /\ (k # 1 => ~Token(q[k]))
        BY <1>4, <2>2, <3>1, NoneLed
      <3>3. \A k \in 1..Len(q) : k # 1 => q[k] \in Threads \ {t}
        BY <1>4, <1>5, <3>1
      <3>4. \A k \in 1..Len(q) : k # 1 => ~Led(q[k])' /\ ~Token(q[k])'
        BY <1>12, <3>2, <3>3
      <3>5. \A k \in 1..Len(q) : \A x \in Threads : ~Mark(q[k], x)
        BY <3>2 DEF Led
      <3>6. \A k \in 1..Len(q) : MarkAt(q, k)'
        BY <1>11, <3>5 DEF MarkAt
      <3>7. \A k \in 1..Len(q) : TokenAt(q, k)'
        BY <1>4, <1>5, <3>1, <3>4 DEF TokenAt
      <3>8. LedAt(q, 1)'
        BY <1>2, <1>4, <3>1 DEF LedAt, Counted
      <3>9. \A k \in 1..Len(q) : LedAt(q, k)'
        BY <3>4, <3>8 DEF LedAt
      <3> QED
        BY <1>4, <3>1, <3>5, <3>6, <3>7, <3>9
    <2> QED
      BY <1>1, <2>1, <2>2
  <1>14. \E p \in j..Len(q) : q[p] = sh'[t].prev /\ Reached(q, p) /\ Clean(q, j, p, t)
    <2>1. CASE last_visited[t] = NULL
      <3>1. Clean(q, j, j, t)
        BY <1>5 DEF Clean
      <3>2. Reached(q, j)
        <4>1. ASSUME NEW l \in 2..j
              PROVE  pc[q[l]] # "link"
          <5>1. l \in 1..Len(q) /\ Len(q) \in Nat
            BY <1>5
          <5>2. CASE l = j
            BY <1>1, <1>4, <5>2
          <5>3. CASE l # j /\ sleader[t] = 1
            <6>1. Token(q[j])
              BY <1>4, <5>3 DEF Token
            <6>2. wcount[q[l]] = 1 /\ LinkAt(q, l)
              BY <5>1, <5>3, <6>1 DEF QInv, TokenAt
            <6> QED
              BY <6>2 DEF LinkAt
          <5>4. CASE l # j /\ isNext = 1
            <6>1. IsHead(q[j])
              BY <1>1, <1>4, <5>4 DEF IsHead
            <6>2. j = 1
              BY <6>1 DEF QInv, HeadAt
            <6> QED
              BY <1>5, <5>4, <6>2
          <5> QED
            BY <1>1, <5>2, <5>3, <5>4
        <4> QED
          BY <4>1 DEF Reached
      <3> QED
        BY <1>3, <1>4, <2>1, <3>1, <3>2
    <2>2. CASE last_visited[t] # NULL
      <3>1. last_visited[t] \in Threads /\ Mark(t, last_visited[t])
        BY <2>2 DEF Mark, TypeOK, Ptr
      <3> QED
        BY <1>3, <1>4, <1>13, <2>2, <3>1 DEF QInv, MarkAt
    <2> QED
      BY <2>1, <2>2
  <1>15. /\ nid[q[j]] = nid[t] /\ Counted(q, j, j)' /\ j \in j..Len(q)
         /\ \A p \in j..Len(q) : /\ Reached(q, p) => Reached(q, p)'
                                 /\ Clean(q, j, p, t) => Clean(q, j, p, t)'
    <2>1. \A p \in j..Len(q) : p \in 0..Len(q)
      BY <1>5
    <2>2. \A p \in j..Len(q) : /\ Reached(q, p) => Reached(q, p)'
                               /\ Clean(q, j, p, t) => Clean(q, j, p, t)'
      BY <1>4, <1>7, <2>1, Still
    <2>3. Counted(q, j, j)'
      BY <1>2, <1>4, <1>5 DEF Counted
    <2> QED
      BY <1>4, <1>5, <2>2, <2>3
  <1>16. LoopAt(q, j)'
    <2>1. \E p \in j..Len(q) :
            /\ q[j] = sh'[t].last /\ q[p] = sh'[t].prev
            /\ nid'[q[j]] = nid'[t] /\ Counted(q, j, j)' /\ Reached(q, p)' /\ Clean(q, j, p, t)'
      BY <1>2, <1>3, <1>4, <1>14, <1>15
    <2> QED
      BY <1>2, <1>4, <1>15, <2>1 DEF LoopAt
  <1>17. FrameAt(q, j)'
    <2>1. On(q, j, sh'[t].prev) /\ On(q, j, sh'[t].last)
      BY <1>3, <1>4, <1>14, <1>15 DEF On
    <2> QED
      BY <1>3, <1>4, <2>1 DEF FrameAt, On
  <1>18. MoveAt(q, j)' /\ AppointAt(q, j)'
    BY <1>2, <1>3, <1>4 DEF MoveAt, AppointAt, MovePcs
  <1>19. \A i \in 1..Len(q) : FrameAt(q, i)' /\ LoopAt(q, i)' /\ MoveAt(q, i)' /\ AppointAt(q, i)'
    BY <1>4, <1>5, <1>9, <1>16, <1>17, <1>18
  <1> QED
    BY <1>6, <1>8, <1>13, <1>19 DEF QInv

LEMMA AppointStep ==
  ASSUME TypeOK, NEW q, QInv(q), NULL \notin Threads, NEW t \in Threads, Appoint(t)
  PROVE  QInv(q)'
  <1>1. /\ pc[t] = "appoint" /\ UNCHANGED <<tail, next, lstatus, wcount, nid, last_visited, pred>>
        /\ sleader' = [sleader EXCEPT ![sh[t].leader] = 1]
    BY DEF Appoint, lockVars
  <1>2. PICK j \in 1..Len(q) : q[j] = t
    BY <1>1, Placed DEF QInv, QueuedPcs, ShufflePcs
  <1>3. /\ \A k \in 1..Len(q) : q[k] \in Threads /\ pc[q[k]] \in QueuedPcs
        /\ \A k, l \in 1..Len(q) : q[k] = q[l] => k = l
        /\ Len(q) \in Nat /\ Started
    BY DEF QInv, QueueOf
  <1>4. FrameAt(q, j) /\ AppointAt(q, j) /\ TokenAt(q, j) /\ LedAt(q, j)
    BY DEF QInv
  <1>5. Token(t) /\ Led(t) /\ sleader[t] = 0
    BY <1>1, <1>3 DEF Token, Led, Started, FramePcs, ShufflePcs
  <1>6. PICK k \in j..Len(q) :
          /\ q[k] = sh[t].leader /\ Counted(q, j, k - 1)
          /\ k = j => sh[t].last = t
          /\ sh[t].qend # NULL => /\ wcount[q[k]] = 1
                                  /\ \E l \in k..Len(q) : q[l] = sh[t].qend /\ Reached(q, l)
                                                          /\ Clean(q, k, l, q[k])
    BY <1>1, <1>2, <1>4 DEF AppointAt
  <1>7. /\ pc'[t] \in {"head", "wait", "visited"}
        /\ pc'[t] = "visited" => sh'[t] = sh[t]
        /\ pc'[t] = "head" => sh[t].is_next_waiter = 1
        /\ pc'[t] = "wait" => sh[t].is_next_waiter # 1
        /\ \A u \in Threads \ {t} : pc'[u] = pc[u] /\ sh'[u] = sh[u]
    BY DEF Appoint, Return, Goto, TypeOK
  <1>8. /\ k \in 1..Len(q) /\ q[k] \in Threads /\ sleader'[q[k]] = 1
        /\ \A u \in Threads : u # q[k] => sleader'[u] = sleader[u]
    BY <1>1, <1>3, <1>6 DEF TypeOK
  <1>9. \A i \in 1..Len(q) : Token(q[i])' <=> i = k
    <2>1. ASSUME NEW i \in 1..Len(q), i # k
          PROVE  ~Token(q[i])'
      <3>1. q[i] # q[k] /\ q[i] \in Threads
        BY <1>3, <1>8, <2>1
      <3>2. CASE i = j
        BY <1>2, <1>5, <1>7, <1>8, <3>1, <3>2 DEF Token, ShufflePcs
      <3>3. CASE i # j
        <4>1. ~Token(q[i]) /\ q[i] # t
          BY <1>2, <1>3, <1>4, <1>5, <3>3 DEF TokenAt
        <4> QED
          BY <1>7, <1>8, <3>1, <4>1 DEF Token
      <3> QED
        BY <3>2, <3>3
    <2> QED
      BY <1>8, <2>1 DEF Token
  <1>10. QueueOf(q)' /\ Fresh' /\ \A i \in 1..Len(q) : HeadAt(q, i)' /\ LinkAt(q, i)'
    <2>1. IsHead(t)' <=> IsHead(t)
      BY <1>1, <1>7 DEF IsHead, ShufflePcs
    <2>2. /\ pc[t] \notin MovePcs \cup {"link"} /\ pc'[t] \notin MovePcs \cup {"link"}
          /\ pc[t] \in QueuedPcs /\ pc'[t] \in QueuedPcs /\ pc'[t] # "notify"
      BY <1>1, <1>7 DEF ShufflePcs, MovePcs, QueuedPcs
    <2>3. \A u \in Threads : pc[u] \notin QueuedPcs => sleader'[u] = sleader[u]
      BY <1>3, <1>8
    <2> QED
      BY <1>1, <1>7, <2>1, <2>2, <2>3, QuietStep
  <1>11. Calm(q, 0)
    BY <1>1, <1>3, <1>7 DEF Calm
  <1>12. Started'
    <2>1. ASSUME NEW u \in Threads, pc'[u] \in ShufflePcs
          PROVE  FALSE
      <3>1. u # t /\ pc[u] \in ShufflePcs
        BY <1>7, <2>1 DEF ShufflePcs
      <3>2. PICK i \in 1..Len(q) : q[i] = u
        BY <3>1, Placed DEF QInv, QueuedPcs
      <3>3. i # j /\ Token(q[i])
        BY <1>2, <3>1, <3>2 DEF Token
      <3> QED
        BY <1>2, <1>4, <1>5, <3>3 DEF TokenAt
    <2> QED
      BY <2>1 DEF Started
  <1>13. \A i \in 1..Len(q) : TokenAt(q, i)'
    <2>1. ASSUME NEW i \in 1..Len(q), i < k
          PROVE  wcount'[q[i]] = 1
      <3>1. CASE i < j
        BY <1>1, <1>2, <1>4, <1>5, <3>1 DEF TokenAt
      <3>2. CASE i >= j
        BY <1>1, <1>3, <1>6, <2>1, <3>2 DEF Counted
      <3> QED
        BY <1>3, <3>1, <3>2
    <2> QED
      BY <1>9, <2>1 DEF TokenAt
  <1>14. ASSUME NEW i \in 1..Len(q), Led(q[i])
         PROVE  i <= j
    <2>1. LedAt(q, i)
      BY DEF QInv
    <2> QED
      BY <1>2, <1>3, <1>5, <1>14, <2>1 DEF LedAt
  <1>15. \A u \in Threads : \A x \in Threads :
           Mark(u, x)' => Mark(u, x) \/ (u = q[k] /\ x = sh[t].qend)
    <2>1. TAKE u \in Threads
    <2>2. TAKE x \in Threads
    <2>3. HAVE Mark(u, x)'
    <2>4. CASE last_visited'[u] = x
      BY <1>1, <2>4 DEF Mark
    <2>5. CASE \E s \in Threads : pc'[s] = "visited" /\ sh'[s].leader = u /\ sh'[s].qend = x
      <3>1. PICK s \in Threads : pc'[s] = "visited" /\ sh'[s].leader = u /\ sh'[s].qend = x
        BY <2>5
      <3>2. CASE s = t
        BY <1>6, <1>7, <3>1, <3>2
      <3>3. CASE s # t
        BY <1>7, <3>1, <3>3 DEF Mark
      <3> QED
        BY <3>2, <3>3
    <2> QED
      BY <2>3, <2>4, <2>5 DEF Mark
  <1>16. sh[t].qend \in Threads => wcount[q[k]] = 1
    BY <1>6
  <1>17. \A i \in 1..Len(q) : LedAt(q, i)'
    <2>1. ASSUME NEW i \in 1..Len(q), Led(q[i])'
          PROVE  Counted(q, 1, i)' /\ i <= k
      <3>1. Counted(q, 1, j)
        BY <1>2, <1>4, <1>5 DEF LedAt
      <3>2. CASE Led(q[i])
        <4>1. Counted(q, 1, i) /\ i <= j
          BY <1>14, <3>2 DEF QInv, LedAt
        <4> QED
          BY <1>1, <1>3, <4>1 DEF Counted
      <3>3. CASE ~Led(q[i])
        <4>1. i = k /\ wcount[q[k]] = 1
          <5>1. pc'[q[i]] \in FramePcs => pc[q[i]] \in FramePcs
            BY <1>1, <1>3, <1>7 DEF FramePcs, ShufflePcs
          <5>2. PICK x \in Threads : Mark(q[i], x)' /\ ~Mark(q[i], x)
            BY <2>1, <3>3, <5>1 DEF Led
          <5> QED
            BY <1>3, <1>8, <1>15, <1>16, <5>2
        <4>2. Counted(q, 1, k)
          BY <1>3, <1>6, <3>1, <4>1 DEF Counted
        <4> QED
          BY <1>1, <1>3, <4>1, <4>2 DEF Counted
      <3> QED
        BY <3>2, <3>3
    <2> QED
      BY <1>3, <1>8, <1>9, <2>1 DEF LedAt
  <1>18. \A p \in 0..Len(q) : Reached(q, p) => Reached(q, p)'
    BY <1>2, <1>11, Still
  <1>19. ASSUME NEW i \in 1..Len(q), NEW x \in Threads, Mark(q[i], x)'
         PROVE  \E l \in i..Len(q) : q[l] = x /\ Reached(q, l)'
                                     /\ (Resumable(q[i])' => Clean(q, i, l, q[i])')
    <2>1. CASE Mark(q[i], x)
      <3>1. PICK l \in i..Len(q) : q[l] = x /\ Reached(q, l) /\ (Resumable(q[i]) => Clean(q, i, l, q[i]))
        BY <2>1 DEF QInv, MarkAt
      <3>2. i <= j
        BY <1>14, <2>1 DEF Led
      <3>3. l \in 0..Len(q)
        BY <1>3
      <3>4. Reached(q, l)' /\ (Clean(q, i, l, q[i]) => Clean(q, i, l, q[i])')
        BY <1>11, <3>1, <3>3, Still
      <3>5. Resumable(q[i])' => Resumable(q[i])
        <4>1. SUFFICES ASSUME Resumable(q[i])'
                       PROVE  Resumable(q[i])
          OBVIOUS
        <4>2. i = k /\ k = j
          BY <1>3, <1>9, <3>2, <4>1 DEF Resumable
        <4> QED
          BY <1>1, <1>2, <1>5, <1>6, <4>2 DEF Resumable, MovePcs
      <3> QED
        BY <3>1, <3>4, <3>5
    <2>2. CASE ~Mark(q[i], x)
      <3>1. i = k /\ x = sh[t].qend
        BY <1>3, <1>8, <1>15, <1>19, <2>2
      <3>2. x # NULL
        OBVIOUS
      <3>3. PICK l \in k..Len(q) : q[l] = x /\ Reached(q, l) /\ Clean(q, k, l, q[k])
        BY <1>6, <3>1, <3>2
      <3>4. l \in 0..Len(q)
        BY <1>3
      <3>5. Reached(q, l)' /\ Clean(q, k, l, q[k])'
        BY <1>8, <1>11, <3>3, <3>4, Still
      <3> QED
        BY <3>1, <3>3, <3>5
    <2> QED
      BY <2>1, <2>2
  <1>20. \A i \in 1..Len(q) : MarkAt(q, i)'
    BY <1>19 DEF MarkAt
  <1>21. \A i \in 1..Len(q) : q[i] # t => FrameAt(q, i)' /\ LoopAt(q, i)' /\ MoveAt(q, i)' /\ AppointAt(q, i)'
    BY <1>1, <1>7, <1>11, StayOthers
  <1>22. FrameAt(q, j)'
    <2>1. CASE pc'[t] = "visited"
      BY <1>1, <1>2, <1>4, <1>7, <2>1, SMTT(60) DEF FrameAt, On, FramePcs, ShufflePcs
    <2>2. CASE pc'[t] # "visited"
      BY <1>2, <1>7, <2>2 DEF FrameAt, FramePcs, ShufflePcs
    <2> QED
      BY <2>1, <2>2
  <1>23. LoopAt(q, j)' /\ MoveAt(q, j)' /\ AppointAt(q, j)'
    BY <1>2, <1>7 DEF LoopAt, LoopPcs, MoveAt, MovePcs, AppointAt
  <1>24. \A i \in 1..Len(q) : FrameAt(q, i)' /\ LoopAt(q, i)' /\ MoveAt(q, i)' /\ AppointAt(q, i)'
    BY <1>2, <1>3, <1>21, <1>22, <1>23
  <1> QED
    BY <1>10, <1>12, <1>13, <1>17, <1>20, <1>24 DEF QInv

\* The position reaches the appointed leader, which may have begun without it.
LEMMA VisitedStep ==
  ASSUME TypeOK, NEW q, QInv(q), NULL \notin Threads, NEW t \in Threads, SetLastVisited(t)
  PROVE  QInv(q)'
  <1>1. /\ pc[t] = "visited" /\ UNCHANGED <<tail, next, lstatus, sleader, wcount, nid, pred>>
        /\ last_visited' = [last_visited EXCEPT ![sh[t].leader] = sh[t].qend]
    BY DEF SetLastVisited, lockVars
  <1>2. PICK j \in 1..Len(q) : q[j] = t
    BY <1>1, Placed DEF QInv, QueuedPcs
  <1>3. /\ \A k \in 1..Len(q) : q[k] \in Threads /\ pc[q[k]] \in QueuedPcs
        /\ \A k, l \in 1..Len(q) : q[k] = q[l] => k = l
        /\ Len(q) \in Nat /\ Started
    BY DEF QInv, QueueOf
  <1>4. /\ pc'[t] \in {"head", "wait"}
        /\ pc'[t] = "head" => sh[t].is_next_waiter = 1
        /\ pc'[t] = "wait" => sh[t].is_next_waiter # 1
        /\ \A u \in Threads \ {t} : pc'[u] = pc[u] /\ sh'[u] = sh[u]
    BY DEF SetLastVisited, Return, Goto, TypeOK
  <1>5. sh[t].leader \in Threads => pc[sh[t].leader] \in QueuedPcs
    <2>1. FrameAt(q, j)
      BY DEF QInv
    <2>2. sh[t].leader = NULL \/ On(q, j, sh[t].leader)
      BY <1>1, <1>2, <2>1 DEF FrameAt, FramePcs
    <2> QED
      BY <1>3, <2>2 DEF On
  <1>6. QueueOf(q)' /\ Fresh' /\ \A i \in 1..Len(q) : HeadAt(q, i)' /\ LinkAt(q, i)'
    <2>1. IsHead(t)' <=> IsHead(t)
      BY <1>1, <1>4 DEF IsHead, ShufflePcs
    <2>2. /\ pc[t] \notin MovePcs \cup {"link"} /\ pc'[t] \notin MovePcs \cup {"link"}
          /\ pc[t] \in QueuedPcs /\ pc'[t] \in QueuedPcs /\ pc'[t] # "notify"
      BY <1>1, <1>4 DEF ShufflePcs, MovePcs, QueuedPcs
    <2>3. \A u \in Threads : pc[u] \notin QueuedPcs => last_visited'[u] = last_visited[u]
      BY <1>1, <1>5 DEF TypeOK
    <2> QED
      BY <1>1, <1>4, <2>1, <2>2, <2>3, QuietStep
  <1>7. Calm(q, 0)
    BY <1>1, <1>3, <1>4 DEF Calm
  <1>8. Started'
    BY <1>1, <1>3, <1>4 DEF Started, ShufflePcs
  <1>9. \A u \in Threads : \A x \in Threads : Mark(u, x)' => Mark(u, x)
    <2>1. TAKE u \in Threads
    <2>2. TAKE x \in Threads
    <2>3. HAVE Mark(u, x)'
    <2>4. CASE last_visited'[u] = x
      <3>1. CASE u = sh[t].leader
        BY <1>1, <2>4, <3>1 DEF Mark, TypeOK
      <3>2. CASE u # sh[t].leader
        BY <1>1, <2>4, <3>2 DEF Mark, TypeOK
      <3> QED
        BY <3>1, <3>2
    <2>5. CASE \E s \in Threads : pc'[s] = "visited" /\ sh'[s].leader = u /\ sh'[s].qend = x
      BY <1>4, <2>5 DEF Mark
    <2> QED
      BY <2>3, <2>4, <2>5 DEF Mark
  <1>10. \A u \in Threads : (Token(u)' => Token(u)) /\ (Led(u)' => Led(u)) /\ (Resumable(u)' => Resumable(u))
    <2>1. \A u \in Threads : Token(u)' => Token(u)
      BY <1>1, <1>4 DEF Token, ShufflePcs
    <2>2. \A u \in Threads : Led(u)' => Led(u)
      BY <1>1, <1>4, <1>9 DEF Led, FramePcs, ShufflePcs
    <2>3. \A u \in Threads : Resumable(u)' => Resumable(u)
      BY <1>1, <1>4, <2>1 DEF Resumable, MovePcs, ShufflePcs
    <2> QED
      BY <2>1, <2>2, <2>3
  <1>11. \A i \in 1..Len(q) : TokenAt(q, i)' /\ LedAt(q, i)' /\ MarkAt(q, i)'
    BY <1>7, <1>9, <1>10, StayTokens
  <1>12. \A i \in 1..Len(q) : q[i] # t => FrameAt(q, i)' /\ LoopAt(q, i)' /\ MoveAt(q, i)' /\ AppointAt(q, i)'
    BY <1>1, <1>4, <1>7, StayOthers
  <1>13. FrameAt(q, j)' /\ LoopAt(q, j)' /\ MoveAt(q, j)' /\ AppointAt(q, j)'
    BY <1>2, <1>4 DEF FrameAt, FramePcs, ShufflePcs, LoopAt, LoopPcs, MoveAt, MovePcs, AppointAt
  <1>14. \A i \in 1..Len(q) : FrameAt(q, i)' /\ LoopAt(q, i)' /\ MoveAt(q, i)' /\ AppointAt(q, i)'
    BY <1>2, <1>3, <1>12, <1>13
  <1> QED
    BY <1>6, <1>8, <1>11, <1>14 DEF QInv

-----------------------------------------------------------------------------
(* The steps that store a next field and leave the queue as it is.           *)

LEMMA LinkStep ==
  ASSUME TypeOK, NEW q, QInv(q), NULL \notin Threads, NEW t \in Threads, LinkPrev(t)
  PROVE  QInv(q)'
  <1>1. /\ pc[t] = "link" /\ next' = [next EXCEPT ![pred[t]] = t]
        /\ pred' = [pred EXCEPT ![t] = NULL]
        /\ UNCHANGED <<tail, lstatus, sleader, wcount, nid, last_visited, sh>>
    BY DEF LinkPrev, lockVars
  <1>2. /\ pc'[t] = "wait" /\ \A u \in Threads \ {t} : pc'[u] = pc[u] /\ sh'[u] = sh[u]
        /\ \A u \in Threads \ {t} : pred'[u] = pred[u]
    BY <1>1 DEF LinkPrev, Goto, TypeOK
  <1>3. PICK j \in 1..Len(q) : q[j] = t
    BY <1>1, Placed DEF QInv, QueuedPcs
  <1>4. /\ q \in Seq(Threads)
        /\ \A k \in 1..Len(q) : q[k] \in Threads /\ pc[q[k]] \in QueuedPcs
        /\ \A k, l \in 1..Len(q) : q[k] = q[l] => k = l
        /\ Len(q) \in Nat /\ Started /\ QueueOf(q) /\ Fresh
    BY DEF QInv, QueueOf
  <1>5. j >= 2 /\ j - 1 \in 1..Len(q) /\ pred[t] = q[j - 1]
    <2>1. LinkAt(q, j)
      BY DEF QInv
    <2> QED
      BY <1>1, <1>3, <1>4, <2>1 DEF LinkAt
  <1>6. /\ next'[q[j - 1]] = t /\ next[q[j - 1]] = NULL
        /\ \A u \in Threads : u # q[j - 1] => next'[u] = next[u]
    <2>1. LinkAt(q, j - 1) /\ (j - 1) + 1 = j
      BY <1>5 DEF QInv
    <2>2. next[q[j - 1]] = NULL
      BY <1>1, <1>3, <1>5, <2>1 DEF LinkAt
    <2> QED
      BY <1>1, <1>4, <1>5, <2>2 DEF TypeOK
  <1>7. \A u \in Threads : pc'[u] \in QueuedPcs <=> pc[u] \in QueuedPcs
    BY <1>1, <1>2 DEF QueuedPcs
  <1>8. QueueOf(q)'
    BY <1>1, <1>4, <1>7 DEF QueueOf
  <1>9. Fresh'
    BY <1>1, <1>4, <1>5, <1>6, <1>7 DEF Fresh
  <1>10. Started'
    BY <1>1, <1>2, <1>4 DEF Started, ShufflePcs
  <1>11. \A u : Moved(u)' <=> Moved(u)
    BY <1>1, <1>2 DEF Moved, MovePcs
  <1>12. ASSUME NEW i \in 1..Len(q)
         PROVE  HeadAt(q, i)' /\ LinkAt(q, i)'
    <2>1. HeadAt(q, i) /\ LinkAt(q, i) /\ q[i] \in Threads /\ (i < Len(q) => q[i + 1] \in Threads)
      BY <1>4 DEF QInv
    <2>2. IsHead(q[i])' <=> IsHead(q[i])
      BY <1>1, <1>2, <2>1 DEF IsHead, ShufflePcs
    <2>3. HeadAt(q, i)'
      BY <1>2, <1>5, <1>6, <2>1, <2>2 DEF HeadAt
    <2>4. CASE i = j - 1
      <3>1. i < Len(q) /\ q[i + 1] = t /\ next'[q[i]] = q[i + 1] /\ pc'[q[i + 1]] # "link"
        BY <1>2, <1>3, <1>5, <1>6, <2>4
      <3>2. q[i] # t
        BY <1>3, <1>4, <1>5, <2>4
      <3> QED
        BY <1>1, <1>2, <2>1, <2>3, <3>1, <3>2 DEF LinkAt
    <2>5. CASE i # j - 1
      <3>1. next'[q[i]] = next[q[i]]
        BY <1>4, <1>5, <1>6, <2>1, <2>5
      <3>2. i < Len(q) => q[i + 1] # t /\ pc'[q[i + 1]] = pc[q[i + 1]]
        BY <1>2, <1>3, <1>4, <2>1, <2>5
      <3>3. pc'[q[i]] = "link" => pc[q[i]] = "link" /\ pred'[q[i]] = pred[q[i]]
        BY <1>2, <2>1
      <3>4. i = Len(q) \/ i < Len(q)
        BY <1>4
      <3> QED
        BY <1>1, <1>11, <2>1, <2>3, <3>1, <3>2, <3>3, <3>4 DEF LinkAt
    <2> QED
      BY <2>4, <2>5
  <1>13. Calm(q, 0)
    BY <1>1, <1>2, <1>4 DEF Calm
  <1>14. \A u \in Threads : /\ Token(u)' => Token(u)
                            /\ \A x \in Threads : Mark(u, x)' => Mark(u, x)
    <2>1. \A u \in Threads : Token(u)' => Token(u)
      BY <1>1, <1>2 DEF Token, ShufflePcs
    <2> QED
      BY <1>1, <1>2, <2>1 DEF Mark
  <1>15. \A u \in Threads : (Led(u)' => Led(u)) /\ (Resumable(u)' => Resumable(u))
    BY <1>1, <1>2, <1>14 DEF Led, Resumable, FramePcs, ShufflePcs, MovePcs
  <1>16. \A i \in 1..Len(q) : TokenAt(q, i)' /\ LedAt(q, i)' /\ MarkAt(q, i)'
    BY <1>13, <1>14, <1>15, StayTokens
  <1>17. \A u \in Threads : next[u] # NULL => next'[u] = next[u]
    BY <1>6
  <1>18. \A i \in 1..Len(q) : q[i] # t => FrameAt(q, i)' /\ LoopAt(q, i)' /\ MoveAt(q, i)' /\ AppointAt(q, i)'
    BY <1>2, <1>13, <1>17, StayOthers
  <1>19. FrameAt(q, j)' /\ LoopAt(q, j)' /\ MoveAt(q, j)' /\ AppointAt(q, j)'
    BY <1>2, <1>3 DEF FrameAt, FramePcs, ShufflePcs, LoopAt, LoopPcs, MoveAt, MovePcs, AppointAt
  <1>20. \A i \in 1..Len(q) : FrameAt(q, i)' /\ LoopAt(q, i)' /\ MoveAt(q, i)' /\ AppointAt(q, i)'
    BY <1>3, <1>4, <1>18, <1>19
  <1> QED
    BY <1>8, <1>9, <1>10, <1>12, <1>16, <1>20 DEF QInv

\* The position of the mover, of the last waiter it has found and of the one it
\* has stopped at.
LEMMA AtMove ==
  ASSUME NEW q, QInv(q), NEW t \in Threads, pc[t] \in MovePcs
  PROVE  \E j \in 1..Len(q) : \E i \in j..Len(q) : \E p \in (i + 2)..Len(q) :
           /\ q[j] = t /\ q[i] = sh[t].last /\ q[i + 1] = sh[t].curr /\ q[p] = sh[t].prev
           /\ nid[q[i]] = nid[t] /\ nid[q[i + 1]] = nid[t]
           /\ Counted(q, j, i + 1) /\ Reached(q, p) /\ Clean(q, i + 1, p, t)
           /\ next[q[i]] = q[i + 2]
           /\ pc[t] = "insert" => next[q[i + 1]] = q[i + 2]
  <1>1. PICK j \in 1..Len(q) : q[j] = t
    BY Placed DEF QInv, QueuedPcs, ShufflePcs, MovePcs
  <1>2. MoveAt(q, j)
    BY DEF QInv
  <1> QED
    BY <1>1, <1>2 DEF MoveAt

\* There is one mover.
LEMMA OneMover ==
  ASSUME NEW q, QInv(q), NEW t \in Threads, pc[t] \in ShufflePcs,
         NEW m \in Threads, pc[m] \in MovePcs
  PROVE  m = t
  <1>1. pc[m] \in ShufflePcs
    BY DEF MovePcs, ShufflePcs
  <1>2. PICK j \in 1..Len(q) : q[j] = t
    BY Placed DEF QInv, QueuedPcs
  <1>3. PICK k \in 1..Len(q) : q[k] = m
    BY <1>1, Placed DEF QInv, QueuedPcs
  <1>4. Token(q[j]) /\ Token(q[k])
    BY <1>1, <1>2, <1>3 DEF Token
  <1> QED
    BY <1>2, <1>3, <1>4, OneToken

\* What both stores next to the last waiter keep.
LEMMA MoveStep ==
  ASSUME TypeOK, NEW q, QInv(q), NULL \notin Threads, NEW t \in Threads,
         pc[t] \in MovePcs, pc'[t] \in {"insert", "ready"},
         \A u \in Threads \ {t} : pc'[u] = pc[u] /\ sh'[u] = sh[u],
         UNCHANGED <<tail, lstatus, sleader, wcount, nid, last_visited, pred>>,
         sh'[t].is_next_waiter = sh[t].is_next_waiter,
         pc'[t] = "ready" => sh'[t].last # t,
         NEW j \in 1..Len(q), q[j] = t,
         \A u \in Threads : next'[u] # next[u] => pc[u] \in QueuedPcs /\ next'[u] # NULL,
         \A i \in 1..Len(q) : LinkAt(q, i)',
         FrameAt(q, j)', LoopAt(q, j)', MoveAt(q, j)'
  PROVE  QInv(q)'
  <1>1. /\ q \in Seq(Threads) /\ Len(q) \in Nat
        /\ \A i \in 1..Len(q) : q[i] \in Threads /\ pc[q[i]] \in QueuedPcs
        /\ \A i \in 1..Len(q) : q[i] = q[j] => i = j
        /\ Started /\ QueueOf(q) /\ Fresh
    BY DEF QInv, QueueOf
  <1>2. pc[t] \in ShufflePcs /\ pc'[t] \in ShufflePcs
    BY DEF MovePcs, ShufflePcs
  <1>3. \A u \in Threads : pc'[u] \in QueuedPcs <=> pc[u] \in QueuedPcs
    BY <1>2 DEF QueuedPcs
  <1>4. QueueOf(q)'
    BY <1>1, <1>3 DEF QueueOf
  <1>5. Fresh'
    BY <1>1, <1>3 DEF Fresh
  <1>6. Started'
    BY <1>1, <1>2 DEF Started
  <1>7. ASSUME NEW i \in 1..Len(q)
        PROVE  HeadAt(q, i)'
    <2>1. HeadAt(q, i) /\ q[i] \in Threads
      BY <1>1 DEF QInv
    <2>2. IsHead(q[i])' <=> IsHead(q[i])
      BY <1>2, <2>1 DEF IsHead, ShufflePcs
    <2>3. pc'[q[i]] = "notify" => pc[q[i]] = "notify"
      BY <1>2, <2>1 DEF ShufflePcs
    <2> QED
      BY <2>1, <2>2, <2>3 DEF HeadAt
  <1>8. Calm(q, 0)
    BY <1>1, <1>2 DEF Calm, ShufflePcs
  <1>9. \A u \in Threads : /\ Token(u)' => Token(u)
                           /\ Led(u)' => Led(u)
                           /\ Resumable(u)' => Resumable(u)
                           /\ \A x \in Threads : Mark(u, x)' => Mark(u, x)
    <2>1. \A u \in Threads : Token(u)' => Token(u)
      BY <1>2 DEF Token
    <2>2. \A u, x : Mark(u, x)' => Mark(u, x)
      BY <1>2 DEF Mark, ShufflePcs
    <2>3. \A u \in Threads : Led(u)' => Led(u)
      BY <1>2, <2>2 DEF Led, FramePcs
    <2>4. \A u \in Threads : Resumable(u)' => Resumable(u)
      BY <1>2, <2>1 DEF Resumable, MovePcs
    <2> QED
      BY <2>1, <2>2, <2>3, <2>4
  <1>10. \A i \in 1..Len(q) : TokenAt(q, i)' /\ LedAt(q, i)' /\ MarkAt(q, i)'
    BY <1>8, <1>9, StayTokens
  <1>11. \A i \in 1..Len(q) : q[i] # t => FrameAt(q, i)' /\ LoopAt(q, i)' /\ MoveAt(q, i)' /\ AppointAt(q, i)'
    BY <1>8, StayOthers
  <1>12. AppointAt(q, j)'
    BY DEF AppointAt
  <1>13. \A i \in 1..Len(q) : FrameAt(q, i)' /\ LoopAt(q, i)' /\ MoveAt(q, i)' /\ AppointAt(q, i)'
    BY <1>1, <1>11, <1>12
  <1> QED
    BY <1>4, <1>5, <1>6, <1>7, <1>10, <1>13 DEF QInv

LEMMA RelinkStep ==
  ASSUME TypeOK, NEW q, QInv(q), NULL \notin Threads, NEW t \in Threads, Relink(t)
  PROVE  QInv(q)'
  <1>1. /\ pc[t] = "relink" /\ next' = [next EXCEPT ![sh[t].curr] = next[sh[t].last]]
        /\ UNCHANGED <<tail, lstatus, sleader, wcount, nid, last_visited, pred, sh>>
    BY DEF Relink, lockVars
  <1>2. pc'[t] = "insert" /\ \A u \in Threads \ {t} : pc'[u] = pc[u]
    BY DEF Relink, Goto, TypeOK
  <1>0. pc[t] \in MovePcs
    BY <1>1 DEF MovePcs
  <1>3. PICK j \in 1..Len(q) : \E i \in j..Len(q) : \E p \in (i + 2)..Len(q) :
           /\ q[j] = t /\ q[i] = sh[t].last /\ q[i + 1] = sh[t].curr /\ q[p] = sh[t].prev
           /\ nid[q[i]] = nid[t] /\ nid[q[i + 1]] = nid[t]
           /\ Counted(q, j, i + 1) /\ Reached(q, p) /\ Clean(q, i + 1, p, t)
           /\ next[q[i]] = q[i + 2]
    BY <1>0, AtMove, SMTT(30)
  <1>4. PICK i \in j..Len(q) : \E p \in (i + 2)..Len(q) :
           /\ q[j] = t /\ q[i] = sh[t].last /\ q[i + 1] = sh[t].curr /\ q[p] = sh[t].prev
           /\ nid[q[i]] = nid[t] /\ nid[q[i + 1]] = nid[t]
           /\ Counted(q, j, i + 1) /\ Reached(q, p) /\ Clean(q, i + 1, p, t)
           /\ next[q[i]] = q[i + 2]
    BY <1>3
  <1>5. PICK p \in (i + 2)..Len(q) :
           /\ q[j] = t /\ q[i] = sh[t].last /\ q[i + 1] = sh[t].curr /\ q[p] = sh[t].prev
           /\ nid[q[i]] = nid[t] /\ nid[q[i + 1]] = nid[t]
           /\ Counted(q, j, i + 1) /\ Reached(q, p) /\ Clean(q, i + 1, p, t)
           /\ next[q[i]] = q[i + 2]
    BY <1>4
  <1>6. /\ \A k \in 1..Len(q) : q[k] \in Threads /\ pc[q[k]] \in QueuedPcs
        /\ \A k, l \in 1..Len(q) : q[k] = q[l] => k = l
        /\ Len(q) \in Nat
    BY DEF QInv, QueueOf
  <1>7. /\ i \in 1..Len(q) /\ i + 1 \in 1..Len(q) /\ i + 2 \in 1..Len(q)
        /\ p \in 1..Len(q) /\ p \in 0..Len(q) /\ i + 1 \in 0..Len(q)
    BY <1>6
  <1>8. /\ next'[q[i + 1]] = q[i + 2] /\ q[i + 2] # NULL
        /\ \A u \in Threads : u # q[i + 1] => next'[u] = next[u]
    BY <1>1, <1>5, <1>6, <1>7 DEF TypeOK
  <1>9. \A u \in Threads : next'[u] # next[u] => pc[u] \in QueuedPcs /\ next'[u] # NULL
    BY <1>6, <1>7, <1>8
  <1>10. \A u \in Threads : Moved(u) => Moved(u)' \/ u = q[i + 1]
    <2>1. TAKE u \in Threads
    <2>2. HAVE Moved(u)
    <2>3. PICK m \in Threads : \/ pc[m] \in MovePcs /\ sh[m].last = u
                               \/ pc[m] = "relink" /\ sh[m].curr = u
      BY <2>2 DEF Moved
    <2>4. m = t
      BY <1>1, <2>3, OneMover DEF MovePcs, ShufflePcs
    <2> QED
      BY <1>1, <1>2, <1>5, <2>3, <2>4 DEF Moved, MovePcs
  <1>11. ASSUME NEW k \in 1..Len(q)
         PROVE  LinkAt(q, k)'
    <2>1. LinkAt(q, k) /\ q[k] \in Threads /\ (k < Len(q) => q[k + 1] \in Threads)
      BY <1>6 DEF QInv
    <2>2. \A u \in Threads : pc'[u] = "link" <=> pc[u] = "link"
      BY <1>1, <1>2
    <2>3. CASE k = i + 1
      <3>1. k < Len(q) /\ next'[q[k]] = q[k + 1]
        BY <1>6, <1>7, <1>8, <2>3
      <3>2. pc[q[k + 1]] # "link"
        BY <1>5, <1>6, <1>7, <2>3 DEF Reached
      <3> QED
        BY <1>1, <2>1, <2>2, <3>1, <3>2 DEF LinkAt
    <2>4. CASE k # i + 1
      <3>1. next'[q[k]] = next[q[k]] /\ q[k] # q[i + 1]
        BY <1>6, <1>7, <1>8, <2>1, <2>4
      <3>2. Moved(q[k]) => Moved(q[k])'
        BY <1>10, <2>1, <3>1
      <3>3. k = Len(q) \/ k < Len(q)
        BY <1>6
      <3> QED
        BY <1>1, <2>1, <2>2, <3>1, <3>2, <3>3 DEF LinkAt
    <2> QED
      BY <2>3, <2>4
  <1>12. FrameAt(q, j)'
    BY <1>1, <1>2, <1>5 DEF QInv, FrameAt, On, FramePcs, ShufflePcs
  <1>13. Calm(q, 0)
    BY <1>1, <1>2, <1>6 DEF Calm
  <1>14. Reached(q, p)' /\ Counted(q, j, i + 1)' /\ Clean(q, i + 1, p, q[j])'
    BY <1>5, <1>7, <1>13, Still
  <1>15. MoveAt(q, j)'
    <2>1. q[i] # q[i + 1]
      BY <1>6, <1>7
    <2>2. next'[q[i]] = q[i + 2]
      BY <1>5, <1>6, <1>7, <1>8, <2>1
    <2> QED
      BY <1>1, <1>5, <1>8, <1>14, <2>2 DEF MoveAt
  <1>16. LoopAt(q, j)'
    BY <1>2, <1>5 DEF LoopAt, LoopPcs
  <1> QED
    BY <1>1, <1>2, <1>5, <1>9, <1>11, <1>12, <1>15, <1>16, MoveStep DEF MovePcs

LEMMA InsertStep ==
  ASSUME TypeOK, NEW q, QInv(q), NULL \notin Threads, NEW t \in Threads, Insert(t)
  PROVE  QInv(q)'
  <1>1. /\ pc[t] = "insert" /\ next' = [next EXCEPT ![sh[t].last] = sh[t].curr]
        /\ UNCHANGED <<tail, lstatus, sleader, wcount, nid, last_visited, pred>>
    BY DEF Insert, lockVars
  <1>2. /\ pc'[t] = "ready"
        /\ sh'[t] = [sh[t] EXCEPT !.last = sh[t].curr, !.one_shuffle = 1]
        /\ \A u \in Threads \ {t} : pc'[u] = pc[u] /\ sh'[u] = sh[u]
    BY DEF Insert, Goto, TypeOK
  <1>3. /\ sh'[t].prev = sh[t].prev /\ sh'[t].last = sh[t].curr /\ sh'[t].curr = sh[t].curr
        /\ sh'[t].nxt = sh[t].nxt /\ sh'[t].leader = sh[t].leader /\ sh'[t].qend = sh[t].qend
        /\ sh'[t].is_next_waiter = sh[t].is_next_waiter
    BY <1>2 DEF TypeOK, Frame
  <1>4. PICK j \in 1..Len(q) : \E i \in j..Len(q) : \E p \in (i + 2)..Len(q) :
           /\ q[j] = t /\ q[i] = sh[t].last /\ q[i + 1] = sh[t].curr /\ q[p] = sh[t].prev
           /\ nid[q[i]] = nid[t] /\ nid[q[i + 1]] = nid[t]
           /\ Counted(q, j, i + 1) /\ Reached(q, p) /\ Clean(q, i + 1, p, t)
           /\ next[q[i + 1]] = q[i + 2]
    <2>1. pc[t] \in MovePcs
      BY <1>1 DEF MovePcs
    <2> QED
      BY <1>1, <2>1, AtMove, SMTT(30)
  <1>5. PICK i \in j..Len(q) : \E p \in (i + 2)..Len(q) :
           /\ q[j] = t /\ q[i] = sh[t].last /\ q[i + 1] = sh[t].curr /\ q[p] = sh[t].prev
           /\ nid[q[i]] = nid[t] /\ nid[q[i + 1]] = nid[t]
           /\ Counted(q, j, i + 1) /\ Reached(q, p) /\ Clean(q, i + 1, p, t)
           /\ next[q[i + 1]] = q[i + 2]
    BY <1>4
  <1>6. PICK p \in (i + 2)..Len(q) :
           /\ q[j] = t /\ q[i] = sh[t].last /\ q[i + 1] = sh[t].curr /\ q[p] = sh[t].prev
           /\ nid[q[i]] = nid[t] /\ nid[q[i + 1]] = nid[t]
           /\ Counted(q, j, i + 1) /\ Reached(q, p) /\ Clean(q, i + 1, p, t)
           /\ next[q[i + 1]] = q[i + 2]
    BY <1>5
  <1>7. /\ \A k \in 1..Len(q) : q[k] \in Threads /\ pc[q[k]] \in QueuedPcs
        /\ \A k, l \in 1..Len(q) : q[k] = q[l] => k = l
        /\ Len(q) \in Nat
    BY DEF QInv, QueueOf
  <1>8. /\ i \in 1..Len(q) /\ i + 1 \in 1..Len(q) /\ i + 2 \in 1..Len(q)
        /\ p \in 1..Len(q) /\ p \in 0..Len(q) /\ i + 1 \in 0..Len(q) /\ i + 1 # j
        /\ i + 1 \in j..Len(q) /\ p \in (i + 1)..Len(q) /\ (i + 1) + 1 = i + 2
    BY <1>7
  <1>9. /\ next'[q[i]] = q[i + 1] /\ q[i + 1] # NULL
        /\ \A u \in Threads : u # q[i] => next'[u] = next[u]
    BY <1>1, <1>6, <1>7, <1>8 DEF TypeOK
  <1>10. \A u \in Threads : next'[u] # next[u] => pc[u] \in QueuedPcs /\ next'[u] # NULL
    BY <1>7, <1>8, <1>9
  <1>11. \A u \in Threads : Moved(u) => u = q[i]
    <2>1. TAKE u \in Threads
    <2>2. HAVE Moved(u)
    <2>3. PICK m \in Threads : \/ pc[m] \in MovePcs /\ sh[m].last = u
                               \/ pc[m] = "relink" /\ sh[m].curr = u
      BY <2>2 DEF Moved
    <2>4. m = t
      BY <1>1, <2>3, OneMover DEF MovePcs, ShufflePcs
    <2> QED
      BY <1>1, <1>6, <2>3, <2>4
  <1>12. ASSUME NEW k \in 1..Len(q)
         PROVE  LinkAt(q, k)'
    <2>1. LinkAt(q, k) /\ q[k] \in Threads /\ (k < Len(q) => q[k + 1] \in Threads)
      BY <1>7 DEF QInv
    <2>2. \A u \in Threads : pc'[u] = "link" <=> pc[u] = "link"
      BY <1>1, <1>2
    <2>3. CASE k = i
      <3>1. k < Len(q) /\ next'[q[k]] = q[k + 1]
        BY <1>7, <1>8, <1>9, <2>3
      <3>2. pc[q[k + 1]] # "link"
        BY <1>6, <1>7, <1>8, <2>3 DEF Reached
      <3> QED
        BY <1>1, <2>1, <2>2, <3>1, <3>2 DEF LinkAt
    <2>4. CASE k # i
      <3>1. next'[q[k]] = next[q[k]] /\ q[k] # q[i]
        BY <1>7, <1>8, <1>9, <2>1, <2>4
      <3>2. ~Moved(q[k])
        BY <1>11, <2>1, <3>1
      <3>3. k = Len(q) \/ k < Len(q)
        BY <1>7
      <3> QED
        BY <1>1, <2>1, <2>2, <3>1, <3>2, <3>3 DEF LinkAt
    <2> QED
      BY <2>3, <2>4
  <1>13. FrameAt(q, j)'
    <2>1. FrameAt(q, j) /\ pc[q[j]] \in FramePcs
      BY <1>1, <1>6 DEF QInv, FramePcs, ShufflePcs
    <2> QED
      BY <1>3, <1>6, <2>1, FrameNow
  <1>14. Calm(q, 0)
    BY <1>1, <1>2, <1>7 DEF Calm
  <1>15. Reached(q, p)' /\ Counted(q, j, i + 1)' /\ Clean(q, i + 1, p, q[j])'
    BY <1>6, <1>8, <1>14, Still
  <1>16. LoopAt(q, j)'
    <2>1. q[i + 1] = sh'[t].last /\ q[p] = sh'[t].prev /\ nid'[q[i + 1]] = nid'[t]
      BY <1>1, <1>3, <1>6
    <2> QED
      BY <1>2, <1>6, <1>8, <1>15, <2>1 DEF LoopAt
  <1>17. MoveAt(q, j)'
    BY <1>2, <1>6 DEF MoveAt, MovePcs
  <1>18. sh'[t].last # t
    BY <1>3, <1>6, <1>7, <1>8
  <1> QED
    BY <1>1, <1>2, <1>3, <1>6, <1>10, <1>12, <1>13, <1>16, <1>17, <1>18, MoveStep DEF MovePcs

-----------------------------------------------------------------------------
(* The steps that change the queue.                                          *)

LEMMA SwapStep ==
  ASSUME TypeOK, NEW q, QInv(q), NULL \notin Threads, NEW t \in Threads, SwapTail(t)
  PROVE  QInv(Append(q, t))'
  <1> DEFINE n == Len(q)
             r == Append(q, t)
  <1>1. /\ pc[t] = "swap" /\ tail' = t /\ pred' = [pred EXCEPT ![t] = tail]
        /\ UNCHANGED <<next, lstatus, sleader, wcount, nid, last_visited, sh>>
    BY DEF SwapTail, nodeVars
  <1>2. /\ q \in Seq(Threads)
        /\ \A k \in 1..n : q[k] \in Threads /\ pc[q[k]] \in QueuedPcs
        /\ \A k, l \in 1..n : q[k] = q[l] => k = l
        /\ \A u \in Threads : pc[u] \in QueuedPcs <=> \E i \in 1..n : q[i] = u
        /\ n \in Nat /\ Started /\ Fresh
        /\ tail = IF n = 0 THEN NULL ELSE q[n]
    BY DEF QInv, QueueOf
  <1>3. pc'[t] = IF n = 0 THEN "disable" ELSE "link"
    <2>1. tail = NULL <=> n = 0
      BY <1>2
    <2> QED
      BY <2>1 DEF SwapTail, Goto, TypeOK
  <1>4. /\ \A u \in Threads \ {t} : pc'[u] = pc[u] /\ sh'[u] = sh[u]
        /\ pred'[t] = tail /\ \A u \in Threads \ {t} : pred'[u] = pred[u]
    BY <1>1 DEF SwapTail, Goto, TypeOK
  <1>5. pc[t] \notin QueuedPcs /\ \A i \in 1..n : q[i] # t
    <2>1. pc[t] \notin QueuedPcs
      BY <1>1 DEF QueuedPcs, ShufflePcs
    <2> QED
      BY <1>2, <2>1
  <1>6. next[t] = NULL /\ last_visited[t] = NULL /\ lstatus[t] = 0 /\ sleader[t] = 0 /\ wcount[t] = 0
    BY <1>2, <1>5 DEF Fresh
  <1>7. /\ r \in Seq(Threads) /\ Len(r) = n + 1 /\ r[n + 1] = t
        /\ \A i \in 1..n : r[i] = q[i]
    BY <1>2
  <1> HIDE DEF r
  <1>8. QueueOf(r)'
    <2>1. \A i, j \in 1..Len(r) : r[i] = r[j] => i = j
      BY <1>2, <1>5, <1>7
    <2>2. ASSUME NEW u \in Threads
          PROVE  pc'[u] \in QueuedPcs <=> \E i \in 1..Len(r) : r[i] = u
      <3>1. CASE u = t
        <4>1. pc'[t] \in QueuedPcs
          BY <1>3 DEF QueuedPcs
        <4>2. n + 1 \in 1..Len(r)
          BY <1>2, <1>7
        <4> QED
          BY <1>7, <3>1, <4>1, <4>2
      <3>2. CASE u # t
        <4>1. pc'[u] = pc[u]
          BY <1>4, <3>2
        <4>2. \A i \in 1..n : i \in 1..Len(r)
          BY <1>2, <1>7
        <4>3. \A i \in 1..Len(r) : r[i] = u => i \in 1..n
          BY <1>2, <1>7, <3>2
        <4>4. (\E i \in 1..Len(r) : r[i] = u) <=> (\E i \in 1..n : q[i] = u)
          BY <1>7, <4>2, <4>3
        <4> QED
          BY <1>2, <4>1, <4>4
      <3> QED
        BY <3>1, <3>2
    <2>3. tail' = IF Len(r) = 0 THEN NULL ELSE r[Len(r)]
      BY <1>1, <1>2, <1>7
    <2> QED
      BY <1>7, <2>1, <2>2, <2>3 DEF QueueOf
  <1>9. Fresh'
    <2>1. pc'[t] \in QueuedPcs
      BY <1>3 DEF QueuedPcs
    <2> QED
      BY <1>1, <1>2, <1>4, <2>1 DEF Fresh
  <1>10. pc'[t] \notin FramePcs /\ pc'[t] \notin LoopPcs /\ pc'[t] \notin MovePcs
         /\ pc'[t] \notin ShufflePcs /\ pc'[t] \notin {"pass", "appoint", "visited"}
    BY <1>3 DEF FramePcs, LoopPcs, MovePcs, ShufflePcs
  <1>11. Started'
    BY <1>1, <1>2, <1>4, <1>10 DEF Started
  <1>12. ASSUME NEW i \in 1..Len(r)
         PROVE  HeadAt(r, i)'
    <2>1. CASE i \in 1..n
      <3>1. HeadAt(q, i) /\ q[i] \in Threads \ {t} /\ r[i] = q[i]
        BY <1>2, <1>5, <1>7, <2>1 DEF QInv
      <3>2. IsHead(q[i])' <=> IsHead(q[i])
        BY <1>1, <1>4, <3>1 DEF IsHead
      <3> QED
        BY <1>1, <1>4, <3>1, <3>2 DEF HeadAt
    <2>2. CASE i = n + 1
      <3>1. IsHead(t)' <=> n = 0
        BY <1>1, <1>3, <1>6 DEF IsHead, ShufflePcs
      <3> QED
        BY <1>2, <1>3, <1>7, <2>2, <3>1 DEF HeadAt
    <2> QED
      BY <1>2, <1>7, <2>1, <2>2
  <1>13. \A u : Moved(u)' <=> Moved(u)
    <2>1. pc[t] \notin MovePcs
      BY <1>1 DEF MovePcs
    <2> QED
      BY <1>1, <1>4, <1>10, <2>1 DEF Moved, MovePcs
  <1>14. ASSUME NEW i \in 1..Len(r)
         PROVE  LinkAt(r, i)'
    <2>1. CASE i \in 1..n /\ i # n
      <3>1. LinkAt(q, i) /\ q[i] \in Threads \ {t} /\ q[i + 1] \in Threads \ {t} /\ i < n
            /\ r[i] = q[i] /\ r[i + 1] = q[i + 1] /\ (i >= 2 => r[i - 1] = q[i - 1])
        BY <1>2, <1>5, <1>7, <2>1 DEF QInv
      <3>2. i < Len(r) /\ i # Len(r)
        BY <1>2, <1>7, <2>1
      <3> QED
        BY <1>1, <1>4, <1>13, <3>1, <3>2 DEF LinkAt
    <2>2. CASE i = n
      <3>1. LinkAt(q, i) /\ q[i] \in Threads \ {t} /\ r[i + 1] = t /\ i \in 1..n
            /\ r[i] = q[i] /\ (i >= 2 => r[i - 1] = q[i - 1])
        BY <1>2, <1>5, <1>7, <2>2 DEF QInv
      <3>2. next'[r[i]] = NULL /\ pc'[r[i + 1]] = "link"
        BY <1>1, <1>2, <1>3, <2>2, <3>1 DEF LinkAt
      <3> QED
        BY <1>1, <1>4, <3>1, <3>2 DEF LinkAt
    <2>3. CASE i = n + 1
      <3>1. r[i] = t /\ next'[t] = NULL /\ wcount'[t] = 0
        BY <1>1, <1>6, <1>7, <2>3
      <3>2. pc'[t] = "link" => i >= 2 /\ pred'[t] = r[i - 1]
        BY <1>2, <1>3, <1>4, <1>7, <2>3
      <3>3. ~(i < Len(r))
        BY <1>2, <1>7, <2>3
      <3> QED
        BY <3>1, <3>2, <3>3 DEF LinkAt
    <2> QED
      BY <1>2, <1>7, <2>1, <2>2, <2>3
  <1>15. Shift(q, r, 0)
    BY <1>2, <1>7 DEF Shift
  <1>16. Calm(q, 0)
    BY <1>1, <1>2, <1>4, <1>5 DEF Calm
  <1>17. ~Token(t)' /\ ~Led(t)' /\ \A x \in Threads : ~Mark(t, x)'
    <2>1. ASSUME NEW x \in Threads
          PROVE  ~Mark(t, x)'
      <3>1. ASSUME NEW s \in Threads, pc'[s] = "visited", sh'[s].leader = t
            PROVE  FALSE
        <4>1. s # t /\ pc[s] = "visited" /\ sh[s].leader = t
          BY <1>4, <1>10, <3>1
        <4>2. PICK k \in 1..n : q[k] = s
          BY <4>1, Placed DEF QInv, QueuedPcs
        <4>3. On(q, k, t)
          <5>1. FrameAt(q, k)
            BY DEF QInv
          <5> QED
            BY <4>1, <4>2, <5>1 DEF FrameAt, FramePcs
        <4> QED
          BY <1>2, <1>5, <4>3 DEF On
      <3>2. last_visited'[t] # x
        BY <1>1, <1>6
      <3> QED
        BY <3>1, <3>2 DEF Mark
    <2>2. ~Token(t)'
      BY <1>1, <1>6, <1>10 DEF Token
    <2> QED
      BY <1>10, <2>1, <2>2 DEF Led
  <1>18. ASSUME NEW u \in Threads \ {t}
         PROVE  /\ Token(u)' => Token(u)
                /\ Led(u)' => Led(u)
                /\ Resumable(u)' => Resumable(u)
                /\ \A x \in Threads : Mark(u, x)' => Mark(u, x)
    <2>1. \A x \in Threads : Mark(u, x)' => Mark(u, x)
      BY <1>1, <1>4, <1>10 DEF Mark
    <2>2. Token(u)' <=> Token(u)
      BY <1>1, <1>4 DEF Token
    <2> QED
      BY <1>1, <1>4, <2>1, <2>2 DEF Led, Resumable
  <1>19. ASSUME NEW j \in 1..n
         PROVE  TokenAt(r, j)' /\ LedAt(r, j)' /\ MarkAt(r, j)'
    <2>1. j \in (0 + 1)..Len(q) /\ j - 0 = j /\ q[j] \in Threads \ {t}
      BY <1>2, <1>5
    <2>2. TokenAt(q, j) /\ LedAt(q, j) /\ MarkAt(q, j)
      BY DEF QInv
    <2>3. \A i \in (0 + 1)..Len(q) : Token(q[i])' => Token(q[i])
      BY <1>2, <1>5, <1>18
    <2>4. \A i \in (Len(q) - 0 + 1)..Len(r) : ~Token(r[i])'
      <3>1. \A i \in (Len(q) - 0 + 1)..Len(r) : i = n + 1
        BY <1>2, <1>7
      <3> QED
        BY <1>7, <1>17, <3>1
    <2>5. TokenAt(r, j - 0)'
      BY <1>15, <1>16, <2>1, <2>2, <2>3, <2>4, TokenKept
    <2>6. LedAt(r, j - 0)'
      BY <1>15, <1>16, <1>18, <2>1, <2>2, <2>3, LedKept
    <2>7. MarkAt(r, j - 0)'
      BY <1>15, <1>16, <1>18, <2>1, <2>2, MarkKept
    <2> QED
      BY <2>1, <2>5, <2>6, <2>7
  <1>20. ASSUME NEW j \in 1..n
         PROVE  FrameAt(r, j)' /\ LoopAt(r, j)' /\ MoveAt(r, j)' /\ AppointAt(r, j)'
    <2>1. j \in (0 + 1)..Len(q) /\ j - 0 = j /\ q[j] \in Threads \ {t}
      BY <1>2, <1>5
    <2>2. FrameAt(q, j) /\ LoopAt(q, j) /\ MoveAt(q, j) /\ AppointAt(q, j)
      BY DEF QInv
    <2>3. pc'[q[j]] = pc[q[j]] /\ sh'[q[j]] = sh[q[j]]
      BY <1>4, <2>1
    <2>4. \A i \in (0 + 1)..Len(q) : next[q[i]] # NULL => next'[q[i]] = next[q[i]]
      BY <1>1
    <2>5. \A u \in Threads : u # NULL
      OBVIOUS
    <2>6. FrameAt(r, j - 0)'
      BY <1>15, <2>1, <2>2, <2>3, FrameKept
    <2>7. LoopAt(r, j - 0)'
      BY <1>15, <1>16, <2>1, <2>2, <2>3, LoopKept
    <2>8. MoveAt(r, j - 0)'
      BY <1>15, <1>16, <2>1, <2>2, <2>3, <2>4, <2>5, MoveKept
    <2>9. AppointAt(r, j - 0)'
      BY <1>15, <1>16, <2>1, <2>2, <2>3, AppointKept
    <2> QED
      BY <2>1, <2>6, <2>7, <2>8, <2>9
  <1>21. /\ TokenAt(r, n + 1)' /\ LedAt(r, n + 1)' /\ MarkAt(r, n + 1)'
         /\ FrameAt(r, n + 1)' /\ LoopAt(r, n + 1)' /\ MoveAt(r, n + 1)' /\ AppointAt(r, n + 1)'
    BY <1>7, <1>10, <1>17 DEF TokenAt, LedAt, MarkAt, FrameAt, LoopAt, MoveAt, AppointAt
  <1>22. \A j \in 1..Len(r) : j \in 1..n \/ j = n + 1
    BY <1>2, <1>7
  <1>23. \A j \in 1..Len(r) :
           /\ TokenAt(r, j)' /\ LedAt(r, j)' /\ MarkAt(r, j)'
           /\ FrameAt(r, j)' /\ LoopAt(r, j)' /\ MoveAt(r, j)' /\ AppointAt(r, j)'
    BY <1>19, <1>20, <1>21, <1>22
  <1>24. QInv(r)'
    BY <1>8, <1>9, <1>11, <1>12, <1>14, <1>23 DEF QInv
  <1> QED
    BY <1>24 DEF r

\* The cmpxchg of the tail from the only node left.
LEMMA EmptyStep ==
  ASSUME TypeOK, NEW q, QInv(q), NULL \notin Threads, NEW t \in Threads, CasTail(t), tail = t
  PROVE  Len(q) = 1 /\ q[1] = t /\ QInv(<< >>)'
  <1>1. /\ pc[t] = "castail" /\ tail' = NULL /\ NodeReset(t, NULL) /\ pc'[t] = "enable"
        /\ \A u \in Threads \ {t} : pc'[u] = pc[u]
    BY DEF CasTail, Goto, TypeOK
  <1>2. /\ q \in Seq(Threads) /\ Len(q) \in Nat
        /\ \A k, l \in 1..Len(q) : q[k] = q[l] => k = l
        /\ \A u \in Threads : pc[u] \in QueuedPcs <=> \E i \in 1..Len(q) : q[i] = u
        /\ Fresh /\ Started /\ tail = IF Len(q) = 0 THEN NULL ELSE q[Len(q)]
    BY DEF QInv, QueueOf
  <1>3. PICK j \in 1..Len(q) : q[j] = t
    BY <1>1, Placed DEF QInv, QueuedPcs
  <1>4. j = 1
    <2>1. IsHead(q[j])
      BY <1>1, <1>3 DEF IsHead
    <2> QED
      BY <2>1 DEF QInv, HeadAt
  <1>5. Len(q) = 1 /\ q[1] = t
    <2>1. Len(q) \in 1..Len(q) /\ q[Len(q)] = t
      BY <1>2, <1>3
    <2> QED
      BY <1>2, <1>3, <1>4, <2>1
  <1>6. \A u \in Threads : pc[u] \in QueuedPcs => u = t
    <2>1. \A i \in 1..Len(q) : i = 1
      BY <1>5
    <2> QED
      BY <1>2, <1>5, <2>1
  <1>7. \A u \in Threads : pc'[u] \notin QueuedPcs
    BY <1>1, <1>6 DEF QueuedPcs, ShufflePcs
  <1>8. QueueOf(<< >>)'
    BY <1>1, <1>7 DEF QueueOf
  <1>9. Fresh'
    <2>1. ASSUME NEW u \in Threads
          PROVE  /\ next'[u] = NULL /\ last_visited'[u] = NULL
                 /\ lstatus'[u] = 0 /\ sleader'[u] = 0 /\ wcount'[u] = 0
      <3>1. CASE u = t
        BY <1>1, <3>1 DEF NodeReset, TypeOK
      <3>2. CASE u # t
        <4>1. pc[u] \notin QueuedPcs
          BY <1>6, <3>2
        <4> QED
          BY <1>1, <1>2, <3>2, <4>1 DEF NodeReset, TypeOK, Fresh
      <3> QED
        BY <3>1, <3>2
    <2> QED
      BY <2>1 DEF Fresh
  <1>10. Started'
    BY <1>7 DEF Started, QueuedPcs
  <1> QED
    BY <1>5, <1>8, <1>9, <1>10 DEF QInv

LEMMA NotifyStep ==
  ASSUME TypeOK, NEW q, QInv(q), NULL \notin Threads, NEW t \in Threads, Notify(t)
  PROVE  q # << >> /\ q[1] = t /\ QInv(Tail(q))'
  <1> DEFINE n == Len(q)
             r == Tail(q)
  <1>1. /\ pc[t] = "notify" /\ UNCHANGED <<tail, pred, sh>>
        /\ pc'[t] = "cs" /\ \A u \in Threads \ {t} : pc'[u] = pc[u]
    BY DEF Notify, Goto, TypeOK, lockVars
  <1>2. /\ q \in Seq(Threads)
        /\ \A k \in 1..n : q[k] \in Threads /\ pc[q[k]] \in QueuedPcs
        /\ \A k, l \in 1..n : q[k] = q[l] => k = l
        /\ \A u \in Threads : pc[u] \in QueuedPcs <=> \E i \in 1..n : q[i] = u
        /\ n \in Nat /\ Started /\ Fresh
        /\ tail = IF n = 0 THEN NULL ELSE q[n]
    BY DEF QInv, QueueOf
  <1>3. PICK j \in 1..n : q[j] = t
    BY <1>1, Placed DEF QInv, QueuedPcs
  <1>4. j = 1
    <2>1. IsHead(q[j])
      BY <1>1, <1>3 DEF IsHead
    <2> QED
      BY <2>1 DEF QInv, HeadAt
  <1>5. 1 \in 1..n /\ q[1] = t /\ next[t] # NULL
    BY <1>1, <1>3, <1>4 DEF QInv, HeadAt
  <1>6. ~Moved(t)
    <2>1. SUFFICES ASSUME NEW m \in Threads, pc[m] \in MovePcs, sh[m].last = t \/ sh[m].curr = t
                   PROVE  FALSE
      BY DEF Moved, MovePcs
    <2>2. PICK k \in 1..n : q[k] = m
      BY <2>1, Placed DEF QInv, QueuedPcs, ShufflePcs, MovePcs
    <2>3. k # 1
      BY <1>1, <1>5, <2>1, <2>2 DEF MovePcs
    <2>4. FrameAt(q, k) /\ pc[q[k]] \in FramePcs
      BY <2>1, <2>2 DEF QInv, FramePcs, ShufflePcs, MovePcs
    <2>5. On(q, k, t)
      BY <2>1, <2>2, <2>4 DEF FrameAt
    <2> QED
      BY <1>2, <1>5, <2>3, <2>5 DEF On
  <1>7. 2 \in 1..n /\ next[t] = q[2] /\ pc[q[2]] # "link" /\ q[2] \in Threads /\ q[2] # t
    <2>1. 1 < n /\ next[t] = q[1 + 1] /\ pc[q[1 + 1]] # "link"
      BY <1>5, <1>6, NextOf
    <2> QED
      BY <1>2, <1>5, <2>1
  <1>8. /\ lstatus'[q[2]] = 1
        /\ \A u \in Threads \ {t} :
             /\ u # q[2] => lstatus'[u] = lstatus[u]
             /\ next'[u] = next[u] /\ sleader'[u] = sleader[u] /\ wcount'[u] = wcount[u]
             /\ last_visited'[u] = last_visited[u] /\ nid'[u] = nid[u]
        /\ lstatus'[t] = 0 /\ next'[t] = NULL /\ sleader'[t] = 0 /\ wcount'[t] = 0
        /\ last_visited'[t] = NULL
    BY <1>1, <1>7 DEF Notify, TypeOK
  <1>9. /\ r \in Seq(Threads) /\ Len(r) = n - 1
        /\ \A i \in 1..(n - 1) : i + 1 \in 2..n /\ r[i] = q[i + 1]
    BY <1>2, <1>7
  <1>10. \A i \in 2..n : i \in 1..n /\ q[i] \in Threads \ {t}
    BY <1>2, <1>5
  <1> HIDE DEF r
  <1>11. QueueOf(r)'
    <2>1. \A i, k \in 1..Len(r) : r[i] = r[k] => i = k
      <3>1. SUFFICES ASSUME NEW i \in 1..Len(r), NEW k \in 1..Len(r), r[i] = r[k]
                     PROVE  i = k
        OBVIOUS
      <3>2. i + 1 \in 1..n /\ k + 1 \in 1..n /\ q[i + 1] = q[k + 1]
        BY <1>2, <1>9, <3>1
      <3>3. i + 1 = k + 1
        BY <1>2, <3>2
      <3> QED
        BY <3>3
    <2>2. ASSUME NEW u \in Threads
          PROVE  pc'[u] \in QueuedPcs <=> \E i \in 1..Len(r) : r[i] = u
      <3>1. CASE u = t
        <4>1. pc'[t] \notin QueuedPcs
          BY <1>1 DEF QueuedPcs, ShufflePcs
        <4> QED
          BY <1>9, <1>10, <3>1, <4>1
      <3>2. CASE u # t
        <4>1. pc'[u] = pc[u]
          BY <1>1, <3>2
        <4>2. ASSUME NEW i \in 1..n, q[i] = u
              PROVE  \E k \in 1..Len(r) : r[k] = u
          <5>1. i # 1
            BY <1>5, <3>2, <4>2
          <5>2. i - 1 \in 1..Len(r) /\ i - 1 \in 1..(n - 1) /\ (i - 1) + 1 = i
            BY <1>2, <1>9, <5>1
          <5>3. r[i - 1] = u
            BY <1>9, <4>2, <5>2
          <5> QED
            BY <5>2, <5>3
        <4>3. ASSUME NEW k \in 1..Len(r), r[k] = u
              PROVE  \E i \in 1..n : q[i] = u
          BY <1>2, <1>9, <4>3, SMTT(30)
        <4> QED
          BY <1>2, <4>1, <4>2, <4>3
      <3> QED
        BY <3>1, <3>2
    <2>3. tail' = IF Len(r) = 0 THEN NULL ELSE r[Len(r)]
      <3>1. n # 0 /\ n - 1 # 0 /\ n - 1 \in 1..(n - 1) /\ (n - 1) + 1 = n
        BY <1>2, <1>7
      <3> QED
        BY <1>1, <1>2, <1>9, <3>1
    <2> QED
      BY <1>9, <2>1, <2>2, <2>3 DEF QueueOf
  <1>12. Fresh'
    <2>1. ASSUME NEW u \in Threads, pc'[u] \notin QueuedPcs
          PROVE  /\ next'[u] = NULL /\ last_visited'[u] = NULL
                 /\ lstatus'[u] = 0 /\ sleader'[u] = 0 /\ wcount'[u] = 0
      <3>1. CASE u = t
        BY <1>8, <3>1
      <3>2. CASE u # t
        <4>1. pc[u] \notin QueuedPcs /\ u # q[2]
          BY <1>1, <1>2, <1>7, <2>1, <3>2
        <4> QED
          BY <1>2, <1>8, <3>2, <4>1 DEF Fresh
      <3> QED
        BY <3>1, <3>2
    <2> QED
      BY <2>1 DEF Fresh
  <1>13. Started'
    BY <1>1, <1>2, <1>8 DEF Started, ShufflePcs
  <1>14. ASSUME NEW i \in 1..Len(r)
         PROVE  HeadAt(r, i)'
    <2>1. HeadAt(q, i + 1) /\ r[i] = q[i + 1] /\ q[i + 1] \in Threads \ {t} /\ i + 1 \in 1..n
      BY <1>9, <1>10 DEF QInv
    <2>2. pc'[r[i]] = "notify" => next'[r[i]] # NULL
      BY <1>1, <1>8, <2>1 DEF HeadAt
    <2>3. CASE i = 1
      <3>1. IsHead(r[i])'
        BY <1>8, <2>1, <2>3 DEF IsHead
      <3> QED
        BY <2>2, <2>3, <3>1 DEF HeadAt
    <2>4. CASE i # 1
      <3>1. q[i + 1] # q[2] /\ ~IsHead(q[i + 1])
        BY <1>2, <1>7, <1>9, <2>1, <2>4 DEF HeadAt
      <3>2. ~IsHead(r[i])'
        BY <1>1, <1>8, <2>1, <3>1 DEF IsHead
      <3> QED
        BY <2>2, <2>4, <3>2 DEF HeadAt
    <2> QED
      BY <2>3, <2>4
  <1>15. \A u : Moved(u)' <=> Moved(u)
    BY <1>1 DEF Moved, MovePcs
  <1>16. ASSUME NEW i \in 1..Len(r)
         PROVE  LinkAt(r, i)'
    <2>1. LinkAt(q, i + 1) /\ r[i] = q[i + 1] /\ q[i + 1] \in Threads \ {t}
      BY <1>9, <1>10 DEF QInv
    <2>2. /\ i < Len(r) => /\ i + 1 < n /\ r[i + 1] = q[(i + 1) + 1]
                            /\ q[(i + 1) + 1] \in Threads \ {t}
          /\ i = Len(r) => i + 1 = n
          /\ i = Len(r) \/ i < Len(r)
      BY <1>2, <1>9, <1>10
    <2>3. pc'[r[i]] = "link" => i >= 2 /\ pred'[r[i]] = r[i - 1] /\ wcount'[r[i]] = 0
      <3>1. SUFFICES ASSUME pc'[r[i]] = "link"
                     PROVE  i >= 2 /\ pred'[r[i]] = r[i - 1] /\ wcount'[r[i]] = 0
        OBVIOUS
      <3>2. pc[q[i + 1]] = "link"
        BY <1>1, <2>1, <3>1
      <3>3. i # 1
        BY <1>7, <3>2
      <3>4. i >= 2 /\ (i - 1) + 1 = i /\ i - 1 \in 1..(n - 1) /\ (i + 1) - 1 = i
        BY <1>2, <1>9, <3>3
      <3>5. r[i - 1] = q[i]
        BY <1>9, <3>4
      <3> QED
        BY <1>1, <1>8, <2>1, <3>2, <3>4, <3>5 DEF LinkAt
    <2>4. next'[q[i + 1]] = next[q[i + 1]] /\ (i < Len(r) => pc'[r[i + 1]] = pc[q[(i + 1) + 1]])
      BY <1>1, <1>8, <2>1, <2>2
    <2>5. i < Len(r) /\ pc'[r[i + 1]] # "link" /\ ~Moved(r[i])' => next'[r[i]] = r[i + 1]
      BY <1>15, <2>1, <2>2, <2>4 DEF LinkAt
    <2>6. i = Len(r) \/ pc'[r[i + 1]] = "link" => next'[r[i]] = NULL
      BY <2>1, <2>2, <2>4 DEF LinkAt
    <2> QED
      BY <2>3, <2>5, <2>6 DEF LinkAt
  <1>17. Shift(q, r, 1)
    BY <1>2, <1>7, <1>9 DEF Shift
  <1>18. \A i \in (1 + 1)..Len(q) : i \in 1..n /\ q[i] \in Threads \ {t}
    BY <1>10
  <1>19. Calm(q, 1)
    BY <1>1, <1>8, <1>18 DEF Calm
  <1>20. ASSUME NEW u \in Threads \ {t}
         PROVE  /\ Token(u)' => Token(u)
                /\ Led(u)' => Led(u)
                /\ Resumable(u)' => Resumable(u)
                /\ \A x \in Threads : Mark(u, x)' => Mark(u, x)
    <2>1. \A x \in Threads : Mark(u, x)' => Mark(u, x)
      BY <1>1, <1>8 DEF Mark
    <2>2. Token(u)' <=> Token(u)
      BY <1>1, <1>8 DEF Token
    <2> QED
      BY <1>1, <2>1, <2>2 DEF Led, Resumable
  <1>21. ASSUME NEW j1 \in 1..Len(r)
         PROVE  /\ TokenAt(r, j1)' /\ LedAt(r, j1)' /\ MarkAt(r, j1)'
                /\ FrameAt(r, j1)' /\ LoopAt(r, j1)' /\ MoveAt(r, j1)' /\ AppointAt(r, j1)'
    <2> DEFINE j2 == j1 + 1
    <2>1. j2 \in (1 + 1)..Len(q) /\ j2 - 1 = j1 /\ q[j2] \in Threads \ {t} /\ j2 \in 1..n
      BY <1>2, <1>9, <1>18
    <2>2. /\ TokenAt(q, j2) /\ LedAt(q, j2) /\ MarkAt(q, j2)
          /\ FrameAt(q, j2) /\ LoopAt(q, j2) /\ MoveAt(q, j2) /\ AppointAt(q, j2)
      BY <2>1 DEF QInv
    <2> HIDE DEF j2
    <2>3. \A i \in (1 + 1)..Len(q) : Token(q[i])' => Token(q[i])
      BY <1>18, <1>20
    <2>4. \A i \in (Len(q) - 1 + 1)..Len(r) : ~Token(r[i])'
      BY <1>2, <1>9
    <2>5. pc'[q[j2]] = pc[q[j2]] /\ sh'[q[j2]] = sh[q[j2]]
      BY <1>1, <2>1
    <2>6. \A i \in (1 + 1)..Len(q) : next[q[i]] # NULL => next'[q[i]] = next[q[i]]
      BY <1>8, <1>18
    <2>7. \A u \in Threads : u # NULL
      OBVIOUS
    <2>8. TokenAt(r, j2 - 1)'
      BY <1>17, <1>19, <2>1, <2>2, <2>3, <2>4, TokenKept
    <2>9. LedAt(r, j2 - 1)'
      BY <1>17, <1>19, <1>20, <2>1, <2>2, <2>3, LedKept
    <2>10. MarkAt(r, j2 - 1)'
      BY <1>17, <1>19, <1>20, <2>1, <2>2, MarkKept
    <2>11. FrameAt(r, j2 - 1)'
      BY <1>17, <2>1, <2>2, <2>5, FrameKept
    <2>12. LoopAt(r, j2 - 1)'
      BY <1>17, <1>19, <2>1, <2>2, <2>5, LoopKept
    <2>13. MoveAt(r, j2 - 1)'
      BY <1>17, <1>19, <2>1, <2>2, <2>5, <2>6, <2>7, MoveKept
    <2>14. AppointAt(r, j2 - 1)'
      BY <1>17, <1>19, <2>1, <2>2, <2>5, AppointKept
    <2> QED
      BY <2>1, <2>8, <2>9, <2>10, <2>11, <2>12, <2>13, <2>14
  <1>22. QInv(r)'
    BY <1>11, <1>12, <1>13, <1>14, <1>16, <1>21 DEF QInv
  <1> QED
    BY <1>2, <1>5, <1>22 DEF r

\* r is q with the element behind position p moved next to position i.
MovedTo(q, r, i, p) ==
  /\ Len(r) = Len(q)
  /\ \A k \in 1..i : r[k] = q[k]
  /\ r[i + 1] = q[p + 1]
  /\ \A k \in (i + 1)..p : r[k + 1] = q[k]
  /\ \A k \in (p + 2)..Len(q) : r[k] = q[k]

\* What is at position k of q is at the same position of r, or in the same stretch.
AlsoIn(q, r, i, p, k) ==
  \E l \in 1..Len(r) : /\ r[l] = q[k]
                       /\ k \in (i + 1)..(p + 1) => l \in (i + 1)..(p + 1)
                       /\ k \notin (i + 1)..(p + 1) => l = k

\* Where the elements of q are once the one behind p is moved next to i.
LEMMA MovedNext ==
  ASSUME NEW q \in Seq(Threads), NEW i \in 1..Len(q), NEW p \in 1..Len(q), i < p, p < Len(q),
         NEW r, r = Abs!MoveForward(q, i + 1, p + 1)
  PROVE  r \in Seq(Threads) /\ MovedTo(q, r, i, p)
  <1> DEFINE S(k) == IF k = i + 1 THEN p + 1 ELSE IF k \in (i + 2)..(p + 1) THEN k - 1 ELSE k
  <1>1. Len(q) \in Nat /\ DOMAIN q = 1..Len(q) /\ i + 1 + 1 = i + 2
    OBVIOUS
  <1>2. r = [k \in 1..Len(q) |-> IF k = i + 1 THEN q[p + 1]
                                 ELSE IF k \in (i + 2)..(p + 1) THEN q[k - 1] ELSE q[k]]
    BY <1>1 DEF Abs!MoveForward
  <1>3. r \in [1..Len(q) -> Threads]
    <2>1. ASSUME NEW k \in 1..Len(q)
          PROVE  (IF k = i + 1 THEN q[p + 1]
                  ELSE IF k \in (i + 2)..(p + 1) THEN q[k - 1] ELSE q[k]) \in Threads
      <3>1. p + 1 \in 1..Len(q) /\ (k \in (i + 2)..(p + 1) => k - 1 \in 1..Len(q))
        BY <1>1
      <3> QED
        BY <3>1
    <2> QED
      BY <1>2, <2>1
  <1>4. r \in Seq(Threads) /\ Len(r) = Len(q)
    BY <1>1, <1>3
  <1>5. \A k \in 1..i : r[k] = q[k]
    BY <1>1, <1>2
  <1>6. r[i + 1] = q[p + 1]
    BY <1>1, <1>2
  <1>7. ASSUME NEW k \in (i + 1)..p
        PROVE  r[k + 1] = q[k]
    <2>1. k + 1 \in 1..Len(q) /\ k + 1 \in (i + 2)..(p + 1) /\ k + 1 # i + 1 /\ (k + 1) - 1 = k
      BY <1>1
    <2> QED
      BY <1>2, <2>1
  <1>8. \A k \in (p + 2)..Len(q) : r[k] = q[k]
    BY <1>1, <1>2
  <1> QED
    BY <1>4, <1>5, <1>6, <1>7, <1>8 DEF MovedTo

\* Each position of the one sequence is a position of the other, and the stretch
\* behind i up to p + 1 stays a stretch.
LEMMA MovedPlaces ==
  ASSUME NEW q \in Seq(Threads), NEW r, NEW i \in 1..Len(q), NEW p \in 1..Len(q), i < p, p < Len(q),
         MovedTo(q, r, i, p)
  PROVE  \A k \in 1..Len(q) : AlsoIn(q, r, i, p, k) /\ AlsoIn(r, q, i, p, k)
  <1> TAKE k \in 1..Len(q)
  <1>0. Len(r) = Len(q)
    BY DEF MovedTo
  <1>1. /\ \A l \in 1..i : r[l] = q[l]
        /\ r[i + 1] = q[p + 1]
        /\ \A l \in (i + 1)..p : r[l + 1] = q[l]
        /\ \A l \in (p + 2)..Len(q) : r[l] = q[l]
    BY DEF MovedTo
  <1>2. Len(q) \in Nat
    OBVIOUS
  <1>3. CASE k \notin (i + 1)..(p + 1)
    <2>1. k \in 1..i \/ k \in (p + 2)..Len(q)
      BY <1>2, <1>3
    <2> QED
      BY <1>0, <1>1, <1>3, <2>1 DEF AlsoIn
  <1>4. CASE k \in (i + 1)..(p + 1)
    <2>1. \E l \in 1..Len(q) : r[l] = q[k] /\ l \in (i + 1)..(p + 1)
      <3>1. CASE k = p + 1
        <4>1. i + 1 \in 1..Len(q) /\ i + 1 \in (i + 1)..(p + 1)
          BY <1>2
        <4> QED
          BY <1>1, <3>1, <4>1
      <3>2. CASE k # p + 1
        <4>1. k \in (i + 1)..p /\ k + 1 \in 1..Len(q) /\ k + 1 \in (i + 1)..(p + 1)
          BY <1>2, <1>4, <3>2
        <4> QED
          BY <1>1, <4>1
      <3> QED
        BY <3>1, <3>2
    <2>2. \E l \in 1..Len(q) : r[k] = q[l] /\ l \in (i + 1)..(p + 1)
      <3>1. CASE k = i + 1
        <4>1. p + 1 \in 1..Len(q) /\ p + 1 \in (i + 1)..(p + 1)
          BY <1>2
        <4> QED
          BY <1>1, <3>1, <4>1
      <3>2. CASE k # i + 1
        <4>1. k - 1 \in (i + 1)..p /\ k - 1 \in 1..Len(q) /\ k - 1 \in (i + 1)..(p + 1) /\ (k - 1) + 1 = k
          BY <1>2, <1>4, <3>2
        <4> QED
          BY <1>1, <4>1
      <3> QED
        BY <3>1, <3>2
    <2> QED
      BY <1>0, <1>4, <2>1, <2>2 DEF AlsoIn
  <1> QED
    BY <1>3, <1>4

LEMMA MovedDistinct ==
  ASSUME NEW q \in Seq(Threads), NEW i \in 1..Len(q), NEW p \in 1..Len(q), i < p, p < Len(q),
         NEW r, MovedTo(q, r, i, p),
         \A k, l \in 1..Len(q) : q[k] = q[l] => k = l
  PROVE  \A k, l \in 1..Len(r) : r[k] = r[l] => k = l
  <1>0. /\ Len(r) = Len(q)
        /\ \A l \in 1..i : r[l] = q[l]
        /\ r[i + 1] = q[p + 1]
        /\ \A l \in (i + 1)..p : r[l + 1] = q[l]
        /\ \A l \in (p + 2)..Len(q) : r[l] = q[l]
    BY DEF MovedTo
  <1> DEFINE S(k) == IF k = i + 1 THEN p + 1 ELSE IF k \in (i + 2)..(p + 1) THEN k - 1 ELSE k
  <1>1. Len(q) \in Nat
    OBVIOUS
  <1>2. \A k \in 1..Len(q) : S(k) \in 1..Len(q)
    BY <1>1
  <1>3. \A k, l \in 1..Len(q) : S(k) = S(l) => k = l
    BY <1>1
  <1>4. ASSUME NEW k \in 1..Len(q)
        PROVE  r[k] = q[S(k)]
    <2>2. CASE k = i + 1
      BY <1>0, <2>2
    <2>3. CASE k \in (i + 2)..(p + 1)
      <3>1. k - 1 \in (i + 1)..p /\ (k - 1) + 1 = k /\ S(k) = k - 1
        BY <1>1, <2>3
      <3> QED
        BY <1>0, <3>1
    <2>4. CASE k # i + 1 /\ k \notin (i + 2)..(p + 1)
      <3>1. (k \in 1..i \/ k \in (p + 2)..Len(q)) /\ S(k) = k
        BY <1>1, <2>4
      <3> QED
        BY <1>0, <3>1
    <2> QED
      BY <2>2, <2>3, <2>4
  <1> HIDE DEF S
  <1>5. SUFFICES ASSUME NEW k \in 1..Len(q), NEW l \in 1..Len(q), r[k] = r[l]
                 PROVE  k = l
    BY <1>0
  <1>6. q[S(k)] = q[S(l)]
    BY <1>4, <1>5
  <1>7. S(k) = S(l)
    BY <1>2, <1>6
  <1> QED
    BY <1>3, <1>7

\* The store that takes a waiter out of its place is the one that moves it forward:
\* from there on it counts as being where it will be.
LEMMA UnlinkStep ==
  ASSUME TypeOK, NEW q, QInv(q), NULL \notin Threads, NEW t \in Threads, Unlink(t)
  PROVE  \E j \in 1..Len(q) : \E i \in j..Len(q) : \E p \in (i + 1)..Len(q) :
           /\ q[j] = t /\ p + 1 < Len(q)
           /\ \A k \in (i + 1)..p : nid[q[k]] # nid[q[p + 1]]
           /\ QInv(Abs!MoveForward(q, i + 1, p + 1))'
  <1>1. /\ pc[t] = "unlink" /\ next' = [next EXCEPT ![sh[t].prev] = sh[t].nxt]
        /\ UNCHANGED <<tail, lstatus, sleader, wcount, nid, last_visited, pred, sh>>
    BY DEF Unlink, lockVars
  <1>2. pc'[t] = "relink" /\ \A u \in Threads \ {t} : pc'[u] = pc[u]
    BY DEF Unlink, Goto, TypeOK
  <1>3. PICK j \in 1..Len(q) : \E i \in j..Len(q) : \E p \in i..Len(q) :
          /\ q[j] = t /\ q[i] = sh[t].last /\ q[p] = sh[t].prev
          /\ nid[q[i]] = nid[t] /\ Counted(q, j, i) /\ Clean(q, i, p, t)
          /\ q[p + 1] = sh[t].curr /\ i < p /\ p + 1 < Len(q) /\ nid[q[p + 1]] = nid[t]
          /\ wcount[q[p + 1]] = 1 /\ q[p + 2] = sh[t].nxt /\ Reached(q, p + 2)
    BY <1>1, AtLoop DEF LoopPcs
  <1>4. PICK i \in j..Len(q) : \E p \in i..Len(q) :
          /\ q[j] = t /\ q[i] = sh[t].last /\ q[p] = sh[t].prev
          /\ nid[q[i]] = nid[t] /\ Counted(q, j, i) /\ Clean(q, i, p, t)
          /\ q[p + 1] = sh[t].curr /\ i < p /\ p + 1 < Len(q) /\ nid[q[p + 1]] = nid[t]
          /\ wcount[q[p + 1]] = 1 /\ q[p + 2] = sh[t].nxt /\ Reached(q, p + 2)
    BY <1>3
  <1>5. PICK p \in i..Len(q) :
          /\ q[j] = t /\ q[i] = sh[t].last /\ q[p] = sh[t].prev
          /\ nid[q[i]] = nid[t] /\ Counted(q, j, i) /\ Clean(q, i, p, t)
          /\ q[p + 1] = sh[t].curr /\ i < p /\ p + 1 < Len(q) /\ nid[q[p + 1]] = nid[t]
          /\ wcount[q[p + 1]] = 1 /\ q[p + 2] = sh[t].nxt /\ Reached(q, p + 2)
    BY <1>4
  <1>6. /\ q \in Seq(Threads) /\ Len(q) \in Nat /\ QueueOf(q) /\ Fresh /\ Started
        /\ \A k \in 1..Len(q) : q[k] \in Threads /\ pc[q[k]] \in QueuedPcs
        /\ \A k, l \in 1..Len(q) : q[k] = q[l] => k = l
    BY DEF QInv, QueueOf
  <1>7. /\ i \in 1..Len(q) /\ p \in 1..Len(q) /\ p < Len(q) /\ p + 2 \in 1..Len(q)
        /\ p + 1 \in 1..Len(q) /\ i + 1 \in 1..Len(q) /\ i + 1 \in (i + 1)..p /\ Len(q) \in (p + 2)..Len(q)
        /\ (i + 1) + 1 = i + 2 /\ i # p /\ j <= i
    BY <1>5, <1>6
  <1> DEFINE r == Abs!MoveForward(q, i + 1, p + 1)
  <1>r. r = Abs!MoveForward(q, i + 1, p + 1) /\ i < p
    BY <1>5
  <1> HIDE DEF r
  <1>m. r \in Seq(Threads) /\ MovedTo(q, r, i, p)
    BY <1>r, <1>6, <1>7, MovedNext
  <1>8. /\ r \in Seq(Threads) /\ Len(r) = Len(q)
        /\ \A k \in 1..i : r[k] = q[k]
        /\ r[i + 1] = q[p + 1]
        /\ \A k \in (i + 1)..p : r[k + 1] = q[k]
        /\ \A k \in (p + 2)..Len(q) : r[k] = q[k]
    BY <1>m DEF MovedTo
  <1>9. \A k, l \in 1..Len(q) : r[k] = r[l] => k = l
    <2>1. \A k, l \in 1..Len(q) : q[k] = q[l] => k = l
      BY <1>6
    <2>2. \A k, l \in 1..Len(r) : r[k] = r[l] => k = l
      <3>1. q \in Seq(Threads) /\ i \in 1..Len(q) /\ p \in 1..Len(q) /\ p < Len(q) /\ i < p
        BY <1>r, <1>6, <1>7
      <3> QED
        BY <1>m, <2>1, <3>1, MovedDistinct
    <2> QED
      BY <1>8, <2>2
  <1>10. \A k \in 1..Len(q) : AlsoIn(q, r, i, p, k) /\ AlsoIn(r, q, i, p, k)
    BY <1>m, <1>r, <1>6, <1>7, MovedPlaces
  <1>11. \A k \in 1..Len(q) : r[k] \in Threads /\ pc[r[k]] \in QueuedPcs
    BY <1>6, <1>8, <1>10 DEF AlsoIn
  <1>12. /\ next'[q[p]] = q[p + 2] /\ q[p + 2] # NULL
         /\ \A u \in Threads : u # q[p] => next'[u] = next[u]
    BY <1>1, <1>5, <1>6, <1>7 DEF TypeOK
  <1>13. \A u \in Threads : (pc'[u] \in QueuedPcs <=> pc[u] \in QueuedPcs) /\ (pc'[u] = "link" <=> pc[u] = "link")
    BY <1>1, <1>2 DEF QueuedPcs, ShufflePcs
  \* Nobody up to p + 2 has still to link itself.
  <1>14. ASSUME NEW k \in 1..Len(q), k <= p + 2
         PROVE  pc[q[k]] # "link"
    <2>1. CASE k = 1
      <3>1. LinkAt(q, k)
        BY DEF QInv
      <3> QED
        BY <2>1, <3>1 DEF LinkAt
    <2>2. CASE k # 1
      <3>1. k \in 2..(p + 2)
        BY <1>6, <1>14, <2>2
      <3> QED
        BY <1>5, <3>1 DEF Reached
    <2> QED
      BY <2>1, <2>2
  <1>15. ASSUME NEW k \in 1..Len(q), k <= p + 2
         PROVE  pc[r[k]] # "link"
    <2>1. PICK l \in 1..Len(q) : /\ r[k] = q[l]
                                 /\ k \in (i + 1)..(p + 1) => l \in (i + 1)..(p + 1)
                                 /\ k \notin (i + 1)..(p + 1) => l = k
      BY <1>8, <1>10 DEF AlsoIn
    <2>2. l <= p + 2
      BY <1>6, <1>15, <2>1
    <2> QED
      BY <1>14, <2>1, <2>2
  <1>16. QueueOf(r)'
    <2>1. ASSUME NEW u \in Threads
          PROVE  pc'[u] \in QueuedPcs <=> \E k \in 1..Len(q) : r[k] = u
      <3>1. pc[u] \in QueuedPcs <=> \E k \in 1..Len(q) : q[k] = u
        BY <1>6 DEF QueueOf
      <3>2. (\E k \in 1..Len(q) : q[k] = u) <=> (\E k \in 1..Len(q) : r[k] = u)
        <4>1. \A k \in 1..Len(q) : \E l \in 1..Len(q) : r[l] = q[k]
          BY <1>8, <1>10 DEF AlsoIn
        <4>2. \A k \in 1..Len(q) : \E l \in 1..Len(q) : q[l] = r[k]
          BY <1>8, <1>10 DEF AlsoIn
        <4> QED
          BY <4>1, <4>2, Zenon
      <3> QED
        BY <1>13, <3>1, <3>2
    <2>2. tail' = IF Len(q) = 0 THEN NULL ELSE r[Len(q)]
      BY <1>1, <1>6, <1>7, <1>8 DEF QueueOf
    <2> QED
      BY <1>8, <1>9, <2>1, <2>2 DEF QueueOf
  <1>17. Fresh'
    <2>1. pc[q[p]] \in QueuedPcs
      BY <1>6, <1>7
    <2> QED
      BY <1>1, <1>6, <1>12, <1>13, <2>1 DEF Fresh
  <1>18. Started'
    BY <1>1, <1>2, <1>6 DEF Started, ShufflePcs
  <1>19. ASSUME NEW k \in 1..Len(q)
         PROVE  HeadAt(r, k)'
    <2>1. PICK l \in 1..Len(q) : /\ r[k] = q[l]
                                 /\ k \in (i + 1)..(p + 1) => l \in (i + 1)..(p + 1)
                                 /\ k \notin (i + 1)..(p + 1) => l = k
      BY <1>8, <1>10 DEF AlsoIn
    <2>2. k = 1 <=> l = 1
      BY <1>6, <1>7, <2>1
    <2>3. IsHead(q[l])' <=> IsHead(q[l])
      BY <1>1, <1>2, <1>6 DEF IsHead, ShufflePcs
    <2>4. HeadAt(q, l)
      BY DEF QInv
    <2>5. pc'[q[l]] = "notify" => next'[q[l]] # NULL
      BY <1>1, <1>2, <1>6, <1>12, <2>4 DEF HeadAt
    <2> QED
      BY <2>1, <2>2, <2>3, <2>4, <2>5 DEF HeadAt
  <1>20. \A u : ~Moved(u)
    BY <1>1, NoneMoved DEF ShufflePcs, MovePcs
  <1>21. Moved(r[i])' /\ Moved(r[i + 1])'
    BY <1>1, <1>2, <1>5, <1>7, <1>8 DEF Moved, MovePcs
  \* The next fields before the step.
  <1>22. ASSUME NEW k \in 1..Len(q)
         PROVE  /\ k < Len(q) /\ pc[q[k + 1]] # "link" => next[q[k]] = q[k + 1]
                /\ k = Len(q) \/ pc[q[k + 1]] = "link" => next[q[k]] = NULL
                /\ pc[q[k]] = "link" => pred[q[k]] = q[k - 1] /\ wcount[q[k]] = 0
    BY <1>20 DEF QInv, LinkAt
  <1>23. ASSUME NEW k \in 1..Len(q), k # p
         PROVE  next'[q[k]] = next[q[k]]
    BY <1>6, <1>7, <1>12, <1>23
  <1>24. ASSUME NEW k \in 1..Len(q)
         PROVE  LinkAt(r, k)'
    <2>1. pc'[r[k]] = "link" => k >= 2 /\ pred'[r[k]] = r[k - 1] /\ wcount'[r[k]] = 0
      <3>1. SUFFICES ASSUME pc[r[k]] = "link"
                     PROVE  k >= 2 /\ pred[r[k]] = r[k - 1] /\ wcount[r[k]] = 0
        BY <1>1, <1>11, <1>13
      <3>2. ~(k <= p + 2)
        BY <1>15, <3>1
      <3>3. k \in (p + 2)..Len(q) /\ k - 1 \in (p + 2)..Len(q) /\ k >= 2
        BY <1>6, <3>2
      <3> QED
        BY <1>8, <1>22, <3>1, <3>3
    <2>2. ASSUME k < Len(q), ~Moved(r[k])', pc[r[k + 1]] # "link"
          PROVE  next'[r[k]] = r[k + 1]
      <3>1. k # i /\ k # i + 1
        BY <1>21, <2>2
      <3>2. CASE k < i
        <4>1. k \in 1..i /\ k + 1 \in 1..i /\ k # p
          BY <1>6, <3>2
        <4> QED
          BY <1>8, <1>22, <1>23, <2>2, <4>1
      <3>3. CASE k \in (i + 2)..p
        <4> DEFINE l == k - 1
        <4>1. l \in 1..Len(q) /\ l \in (i + 1)..p /\ l + 1 = k /\ l # p /\ k \in (i + 1)..p /\ k <= p + 2 /\ l < Len(q)
          BY <1>6, <3>3
        <4> HIDE DEF l
        <4>2. r[k] = q[l] /\ r[k + 1] = q[k]
          BY <1>8, <4>1
        <4>3. next[q[l]] = q[k]
          BY <1>14, <1>22, <4>1
        <4> QED
          BY <1>23, <4>1, <4>2, <4>3
      <3>4. CASE k = p + 1
        <4>1. p \in (i + 1)..p /\ p + 2 \in (p + 2)..Len(q) /\ (p + 1) + 1 = p + 2
          BY <1>6, <1>7
        <4> QED
          BY <1>8, <1>12, <3>4, <4>1
      <3>5. CASE k >= p + 2
        <4>1. k \in (p + 2)..Len(q) /\ k + 1 \in (p + 2)..Len(q) /\ k # p
          BY <1>6, <2>2, <3>5
        <4> QED
          BY <1>8, <1>22, <1>23, <2>2, <4>1
      <3> QED
        BY <1>6, <3>1, <3>2, <3>3, <3>4, <3>5
    <2>3. ASSUME k = Len(q) \/ (k < Len(q) /\ pc[r[k + 1]] = "link")
          PROVE  next'[r[k]] = NULL
      <3>1. k \in (p + 2)..Len(q) /\ k # p /\ (k < Len(q) => k + 1 \in (p + 2)..Len(q))
        <4>1. CASE k = Len(q)
          BY <1>6, <1>7, <4>1
        <4>2. CASE k < Len(q) /\ pc[r[k + 1]] = "link"
          <5>1. k + 1 \in 1..Len(q)
            BY <1>6, <4>2
          <5>2. ~(k + 1 <= p + 2)
            BY <1>15, <4>2, <5>1
          <5> QED
            BY <1>6, <5>1, <5>2
        <4> QED
          BY <2>3, <4>1, <4>2
      <3>2. next[q[k]] = NULL
        BY <1>8, <1>22, <2>3, <3>1
      <3> QED
        BY <1>8, <1>23, <3>1, <3>2
    <2>4. k = Len(q) \/ (k < Len(q) /\ k + 1 \in 1..Len(q))
      BY <1>6
    <2> QED
      BY <1>8, <1>11, <1>13, <2>1, <2>2, <2>3, <2>4 DEF LinkAt
  <1>25. \A u \in Threads : /\ Token(u)' => Token(u)
                            /\ Led(u)' => Led(u)
                            /\ \A x \in Threads : Mark(u, x)' => Mark(u, x)
    <2>1. \A u \in Threads : Token(u)' => Token(u)
      BY <1>1, <1>2 DEF Token, ShufflePcs
    <2>2. \A u, x : Mark(u, x)' => Mark(u, x)
      BY <1>1, <1>2 DEF Mark
    <2> QED
      BY <1>1, <1>2, <2>1, <2>2 DEF Led, FramePcs, ShufflePcs
  <1>26. Token(q[j])
    BY <1>1, <1>5 DEF Token, ShufflePcs
  <1>27. ASSUME NEW k \in 1..Len(q)
         PROVE  /\ Token(r[k])' => k = j
                /\ Led(r[k])' => k <= j
    <2>1. PICK l \in 1..Len(q) : /\ r[k] = q[l]
                                 /\ k \in (i + 1)..(p + 1) => l \in (i + 1)..(p + 1)
                                 /\ k \notin (i + 1)..(p + 1) => l = k
      BY <1>8, <1>10 DEF AlsoIn
    <2>2. (Token(q[l]) => l = j) /\ (Led(q[l]) => l <= j)
      BY <1>6, <1>26, OneToken
    <2>3. l <= j => l = k
      BY <1>6, <1>7, <2>1
    <2> QED
      BY <1>6, <1>7, <1>25, <2>1, <2>2, <2>3
  <1>28. j \in 1..i /\ \A k \in 1..j : k \in 1..i /\ k \in 1..Len(q)
    BY <1>6, <1>7
  <1>29. ASSUME NEW k \in 1..Len(q)
         PROVE  TokenAt(r, k)'
    <2>1. SUFFICES ASSUME k = j
                   PROVE  \A m \in 1..Len(q) : (m # k => ~Token(r[m])') /\ (m < k => wcount'[r[m]] = 1)
      BY <1>8, <1>27 DEF TokenAt
    <2>2. TokenAt(q, j)
      BY DEF QInv
    <2>3. \A m \in 1..Len(q) : m < j => m \in 1..i /\ wcount[q[m]] = 1
      BY <1>6, <1>7, <1>26, <2>2 DEF TokenAt
    <2> QED
      BY <1>1, <1>8, <1>27, <2>1, <2>3
  <1>30. ASSUME NEW k \in 1..Len(q)
         PROVE  LedAt(r, k)'
    <2>1. SUFFICES ASSUME Led(r[k])'
                   PROVE  Counted(r, 1, k)' /\ \A m \in 1..(k - 1) : ~Token(r[m])'
      BY DEF LedAt
    <2>2. k \in 1..j
      BY <1>27, <2>1
    <2>3. Led(q[k]) /\ LedAt(q, k)
      BY <1>8, <1>11, <1>25, <1>28, <2>1, <2>2 DEF QInv
    <2>4. Counted(q, 1, k)
      BY <2>3 DEF LedAt
    <2>5. \A m \in 1..k : m \in 1..i
      BY <1>28, <2>2
    <2>6. Counted(r, 1, k)'
      BY <1>1, <1>8, <2>4, <2>5 DEF Counted
    <2>7. \A m \in 1..(k - 1) : m \in 1..Len(q) /\ m # j
      BY <1>6, <2>2
    <2> QED
      BY <1>27, <2>6, <2>7
  <1>31. ASSUME NEW k \in 1..Len(q), k <= j, NEW x, On(q, k, x)
         PROVE  On(r, k, x)
    <2>1. PICK m \in k..Len(q) : q[m] = x
      BY <1>31 DEF On
    <2>0. m \in 1..Len(q)
      BY <1>6
    <2>2. PICK l \in 1..Len(q) : /\ r[l] = q[m]
                                 /\ m \in (i + 1)..(p + 1) => l \in (i + 1)..(p + 1)
                                 /\ m \notin (i + 1)..(p + 1) => l = m
      BY <1>8, <1>10, <2>0 DEF AlsoIn
    <2>3. l \in k..Len(q)
      BY <1>6, <1>7, <1>31, <2>2
    <2> QED
      BY <1>8, <2>1, <2>2, <2>3 DEF On
  <1>32. ASSUME NEW k \in 1..Len(q)
         PROVE  MarkAt(r, k)'
    <2>1. SUFFICES ASSUME NEW x \in Threads, Mark(r[k], x)'
                   PROVE  \E m \in k..Len(q) : /\ r[m] = x /\ Reached(r, m)'
                                               /\ Resumable(r[k])' => Clean(r, k, m, r[k])'
      BY <1>8 DEF MarkAt
    <2>2. Led(r[k])'
      BY <2>1 DEF Led
    <2>3. k \in 1..j
      BY <1>27, <2>2
    <2>4. r[k] = q[k] /\ Mark(q[k], x)
      BY <1>8, <1>11, <1>25, <1>28, <2>1, <2>3
    <2>5. MarkAt(q, k)
      BY DEF QInv
    <2>6. PICK m \in k..Len(q) : q[m] = x /\ Reached(q, m)
      BY <2>4, <2>5 DEF MarkAt
    <2>0. m \in 1..Len(q)
      BY <1>6
    <2>7. PICK l \in 1..Len(q) : /\ r[l] = q[m]
                                 /\ m \in (i + 1)..(p + 1) => l \in (i + 1)..(p + 1)
                                 /\ m \notin (i + 1)..(p + 1) => l = m
      BY <1>8, <1>10, <2>0 DEF AlsoIn
    <2>8. l \in k..Len(q)
      BY <1>6, <1>7, <2>3, <2>7
    <2>9. ASSUME NEW h \in 2..l
          PROVE  pc'[r[h]] # "link"
      <3>0. h \in 1..Len(q)
        BY <1>6
      <3>1. CASE h <= p + 2
        BY <1>11, <1>13, <1>15, <3>0, <3>1
      <3>2. CASE ~(h <= p + 2)
        <4>1. h \in (p + 2)..Len(q) /\ l = m /\ h \in 2..m
          BY <1>6, <2>7, <3>2
        <4> QED
          BY <1>6, <1>8, <1>13, <2>6, <3>0, <4>1 DEF Reached
      <3> QED
        BY <3>1, <3>2
    <2>10. ~Resumable(r[k])'
      <3>1. Token(r[k])' => pc'[r[k]] = "relink"
        BY <1>2, <1>5, <1>27, <2>4
      <3> QED
        BY <3>1 DEF Resumable, MovePcs
    <2> QED
      BY <2>6, <2>7, <2>8, <2>9, <2>10 DEF Reached
  <1>33. ASSUME NEW k \in 1..Len(q)
         PROVE  FrameAt(r, k)'
    <2>1. SUFFICES ASSUME pc'[r[k]] \in FramePcs
                   PROVE  \A x \in {sh[r[k]].prev, sh[r[k]].last, sh[r[k]].curr, sh[r[k]].nxt,
                                    sh[r[k]].leader, sh[r[k]].qend} : x = NULL \/ On(r, k, x)
      BY <1>1 DEF FrameAt, On
    <2>2. k \in 1..j
      BY <1>27, <2>1 DEF Led
    <2>3. r[k] = q[k] /\ pc[q[k]] \in FramePcs /\ FrameAt(q, k)
      <3>1. pc[r[k]] \in FramePcs
        BY <1>1, <1>2, <1>11, <2>1 DEF FramePcs, ShufflePcs
      <3> QED
        BY <1>8, <1>28, <2>2, <3>1 DEF QInv
    <2>4. \A x \in {sh[q[k]].prev, sh[q[k]].last, sh[q[k]].curr, sh[q[k]].nxt,
                    sh[q[k]].leader, sh[q[k]].qend} : x = NULL \/ On(q, k, x)
      BY <2>3 DEF FrameAt
    <2> QED
      BY <1>31, <2>2, <2>3, <2>4
  <1>34. \A k \in 1..Len(q) : pc'[r[k]] \in ShufflePcs => k = j /\ r[k] = t /\ pc'[r[k]] = "relink"
    <2>1. \A k \in 1..Len(q) : pc'[r[k]] \in ShufflePcs => k = j
      BY <1>27 DEF Token
    <2> QED
      BY <1>2, <1>5, <1>8, <1>28, <2>1
  <1>35. \A k \in 1..Len(q) : LoopAt(r, k)' /\ AppointAt(r, k)'
    BY <1>34 DEF LoopAt, LoopPcs, AppointAt, ShufflePcs
  <1>36. ASSUME NEW k \in 1..Len(q)
         PROVE  MoveAt(r, k)'
    <2>1. SUFFICES ASSUME pc'[r[k]] \in MovePcs
                   PROVE  MoveAt(r, k)'
      BY DEF MoveAt
    <2>2. k = j /\ r[k] = t /\ pc'[t] = "relink"
      BY <1>34, <2>1 DEF MovePcs, ShufflePcs
    <2>3. p + 1 \in (i + 2)..Len(q) /\ i \in j..Len(q) /\ i \in 1..i /\ p \in (i + 1)..p
      BY <1>6, <1>7
    <2>4. r[i] = q[i] /\ r[i + 1] = q[p + 1] /\ r[p + 1] = q[p] /\ r[i + 2] = q[i + 1]
      BY <1>7, <1>8, <2>3
    <2>5. ASSUME NEW l \in j..(i + 1)
          PROVE  wcount'[r[l]] = 1
      <3>1. CASE l = i + 1
        BY <1>1, <1>5, <2>4, <3>1
      <3>2. CASE l # i + 1
        <4>1. l \in j..i /\ l \in 1..i
          BY <1>6, <3>2
        <4> QED
          BY <1>1, <1>5, <1>8, <4>1 DEF Counted
      <3> QED
        BY <3>1, <3>2
    <2>6. ASSUME NEW l \in 2..(p + 1)
          PROVE  pc'[r[l]] # "link"
      <3>1. l \in 1..Len(q) /\ l <= p + 2
        BY <1>6, <1>7
      <3> QED
        BY <1>11, <1>13, <1>15, <3>1
    <2>7. ASSUME NEW l \in ((i + 1) + 1)..(p + 1)
          PROVE  nid'[r[l]] # nid'[t]
      <3> DEFINE h == l - 1
      <3>1. h \in (i + 1)..p /\ h + 1 = l
        BY <1>6, <1>7
      <3> HIDE DEF h
      <3>2. r[l] = q[h] /\ nid[q[h]] # nid[t]
        BY <1>5, <1>8, <3>1 DEF Clean
      <3> QED
        BY <1>1, <3>2
    <2>8. next'[q[i]] = q[i + 1]
      <3>1. i < Len(q) /\ i + 1 <= p + 2
        BY <1>6, <1>7
      <3> QED
        BY <1>7, <1>14, <1>22, <1>23, <3>1
    <2>9. /\ Counted(r, j, i + 1)' /\ Reached(r, p + 1)' /\ Clean(r, i + 1, p + 1, r[k])'
      BY <2>2, <2>5, <2>6, <2>7 DEF Counted, Reached, Clean
    <2>10. /\ r[i] = sh'[t].last /\ r[i + 1] = sh'[t].curr /\ r[p + 1] = sh'[t].prev
           /\ nid'[r[i]] = nid'[t] /\ nid'[r[i + 1]] = nid'[t] /\ next'[r[i]] = r[i + 2]
      BY <1>1, <1>5, <2>4, <2>8
    <2> QED
      BY <1>8, <2>2, <2>3, <2>9, <2>10 DEF MoveAt
  <1>37. QInv(r)'
    BY <1>8, <1>16, <1>17, <1>18, <1>19, <1>24, <1>29, <1>30, <1>32, <1>33, <1>35, <1>36 DEF QInv
  <1>38. p \in (i + 1)..Len(q) /\ \A k \in (i + 1)..p : nid[q[k]] # nid[q[p + 1]]
    BY <1>5, <1>6, <1>7 DEF Clean
  <1> QED
    BY <1>5, <1>37, <1>38 DEF r

-----------------------------------------------------------------------------
(* The invariant: some sequence of threads is the queue.                     *)

QueueInv == \E q \in Seq(Threads) : QInv(q)

\* Nobody waits at first.
LEMMA InitQueueInv == Init => QInv(<< >>)
  <1> SUFFICES ASSUME Init
               PROVE  QInv(<< >>)
    OBVIOUS
  <1>1. \A t \in Threads : pc[t] \notin QueuedPcs
    BY DEF Init, QueuedPcs, ShufflePcs
  <1>2. QueueOf(<< >>)
    BY <1>1 DEF Init, aqs_mutex_create, QueueOf
  <1>3. Fresh /\ Started
    BY <1>1 DEF Init, Fresh, Started, QueuedPcs
  <1> QED
    BY <1>2, <1>3 DEF QInv

LEMMA IdleStep ==
  ASSUME NEW q, QInv(q), UNCHANGED vars
  PROVE  QInv(q)'
  <1> USE DEF vars, lockVars, nodeVars
  <1>1. QueueOf(q)' /\ Fresh' /\ Started'
    BY DEF QInv, QueueOf, Fresh, Started
  <1>2. \A i \in 1..Len(q) : HeadAt(q, i)' /\ LinkAt(q, i)'
    BY DEF QInv, HeadAt, LinkAt, IsHead, Moved
  <1>3. \A j \in 1..Len(q) : TokenAt(q, j)' /\ LedAt(q, j)' /\ MarkAt(q, j)'
    BY DEF QInv, TokenAt, LedAt, MarkAt, Token, Led, Mark, Resumable, Counted, Reached, Clean
  <1>4. ASSUME NEW j \in 1..Len(q)
        PROVE  FrameAt(q, j)' /\ LoopAt(q, j)' /\ MoveAt(q, j)' /\ AppointAt(q, j)'
    <2>1. FrameAt(q, j) /\ LoopAt(q, j) /\ MoveAt(q, j) /\ AppointAt(q, j)
      BY DEF QInv
    <2>2. FrameAt(q, j)'
      BY <2>1 DEF FrameAt, On
    <2>3. LoopAt(q, j)'
      BY <2>1 DEF LoopAt, Counted, Reached, Clean
    <2>4. MoveAt(q, j)'
      BY <2>1 DEF MoveAt, Counted, Reached, Clean
    <2>5. AppointAt(q, j)'
      BY <2>1 DEF AppointAt, Counted, Reached, Clean
    <2> QED
      BY <2>2, <2>3, <2>4, <2>5
  <1> QED
    BY <1>1, <1>2, <1>3, <1>4 DEF QInv

\* Most steps leave the queue as it is.
KeepsQueue(t) ==
  \/ FastPath(t) \/ SlowPath(t) \/ TryLock(t) \/ Unlock(t)
  \/ LinkPrev(t) \/ DisableStealing(t) \/ CheckTurn(t) \/ WaiterShuffle(t)
  \/ CheckLocked(t) \/ HeadShuffle(t) \/ Acquire(t) \/ GetSuccessor(t)
  \/ (CasTail(t) /\ tail # t) \/ EnableStealing(t) \/ WaitSuccessor(t)
  \/ PassLeadership(t) \/ Scan(t) \/ TailCheck(t) \/ GetNext(t)
  \/ Relink(t) \/ Insert(t) \/ Ready(t) \/ Appoint(t) \/ SetLastVisited(t)

LEMMA KeptStep ==
  ASSUME TypeOK, NEW q, QInv(q), NULL \notin Threads, NEW t \in Threads, KeepsQueue(t)
  PROVE  QInv(q)'
  <1>1. CASE FastPath(t) \/ TryLock(t) \/ Unlock(t) \/ DisableStealing(t) \/ CheckTurn(t)
             \/ CheckLocked(t) \/ Acquire(t) \/ GetSuccessor(t) \/ EnableStealing(t) \/ WaitSuccessor(t)
    BY <1>1, LockSteps
  <1>2. CASE SlowPath(t)
    BY <1>2, SlowPathStep
  <1>3. CASE LinkPrev(t)
    BY <1>3, LinkStep
  <1>4. CASE WaiterShuffle(t)
    BY <1>4, NoShuffleSteps, BeginStep
  <1>5. CASE HeadShuffle(t)
    BY <1>5, NoShuffleSteps, BeginStep
  <1>6. CASE CasTail(t) /\ tail # t
    BY <1>6, NoShuffleSteps
  <1>7. CASE PassLeadership(t)
    BY <1>7, PassStep
  <1>8. CASE Scan(t)
    BY <1>8, ScanStep
  <1>9. CASE TailCheck(t)
    BY <1>9, TailCheckStep
  <1>10. CASE GetNext(t)
    BY <1>10, GetNextStep
  <1>11. CASE Relink(t)
    BY <1>11, RelinkStep
  <1>12. CASE Insert(t)
    BY <1>12, InsertStep
  <1>13. CASE Ready(t)
    BY <1>13, ReadyStep
  <1>14. CASE Appoint(t)
    BY <1>14, AppointStep
  <1>15. CASE SetLastVisited(t)
    BY <1>15, VisitedStep
  <1> QED
    BY <1>1, <1>2, <1>3, <1>4, <1>5, <1>6, <1>7, <1>8, <1>9, <1>10, <1>11, <1>12, <1>13,
       <1>14, <1>15 DEF KeepsQueue

\* The others append a thread, move one forward, or take the front one off.
LEMMA NextCases ==
  ASSUME [Next]_vars
  PROVE  \/ UNCHANGED vars
         \/ \E t \in Threads : \/ KeepsQueue(t) \/ SwapTail(t) \/ Unlink(t) \/ Notify(t)
                               \/ CasTail(t) /\ tail = t
  BY DEF Next, InLock, Shuffle, KeepsQueue

LEMMA NextQueueInv ==
  ASSUME TypeOK, QueueInv, [Next]_vars
  PROVE  QueueInv'
  <1>1. NULL \notin Threads
    BY AqsAssumption
  <1>2. PICK q \in Seq(Threads) : QInv(q)
    BY DEF QueueInv
  <1>3. SUFFICES \E r : QInv(r)'
    <2>1. \A r : QInv(r)' => r \in Seq(Threads)
      BY DEF QInv, QueueOf
    <2> QED
      BY <2>1 DEF QueueInv
  <1>4. CASE UNCHANGED vars
    BY <1>2, <1>4, IdleStep
  <1>5. ASSUME NEW t \in Threads, KeepsQueue(t)
        PROVE  QInv(q)'
    BY <1>1, <1>2, <1>5, KeptStep
  <1>6. ASSUME NEW t \in Threads, SwapTail(t)
        PROVE  QInv(Append(q, t))'
    BY <1>1, <1>2, <1>6, SwapStep
  <1>7. ASSUME NEW t \in Threads, Unlink(t)
        PROVE  \E r : QInv(r)'
    BY <1>1, <1>2, <1>7, UnlinkStep
  <1>8. ASSUME NEW t \in Threads, Notify(t)
        PROVE  QInv(Tail(q))'
    BY <1>1, <1>2, <1>8, NotifyStep
  <1>9. ASSUME NEW t \in Threads, CasTail(t), tail = t
        PROVE  QInv(<< >>)'
    BY <1>1, <1>2, <1>9, EmptyStep
  <1> QED
    BY <1>4, <1>5, <1>6, <1>7, <1>8, <1>9, NextCases

\* In every reachable state some sequence of threads is the queue.
LEMMA QueueInvariant == Spec => [](TypeOK /\ QueueInv)
  <1>1. Init => QueueInv
    <2>1. << >> \in Seq(Threads)
      OBVIOUS
    <2> QED
      BY <2>1, InitQueueInv DEF QueueInv
  <1>2. TypeOK /\ QueueInv /\ [Next]_vars => QueueInv'
    BY NextQueueInv
  <1> QED
    BY <1>1, <1>2, TypeCorrect, PTL DEF Spec

-----------------------------------------------------------------------------
(* The sequence q of the queue invariant is QueueOrder, which the properties *)
(* of Aqs are stated with.                                                   *)

-----------------------------------------------------------------------------
(* The list that a successor function strings together is unique.            *)

\* A set of naturals has a least element.
LEMMA LeastOf ==
  ASSUME NEW T \in SUBSET Nat, T # {}
  PROVE  \E x \in T : \A y \in T : x <= y
  <1>1. \E x \in T : \A y \in T : ~ (<<y, x>> \in OpToRel(<, Nat))
    BY WFMin, NatLessThanWellFounded
  <1>2. PICK x \in T : \A y \in T : ~ (<<y, x>> \in OpToRel(<, Nat))
    BY <1>1
  <1>3. \A y \in T : ~(y < x)
    BY <1>2 DEF OpToRel
  <1> QED
    BY <1>3

\* The first n elements of f are those that succ strings together from front on.
Chain(f, succ, front, n) == \A i \in 1..n : f[i] = IF i = 1 THEN front ELSE succ[f[i - 1]]

LEMMA SameStart ==
  ASSUME NEW n \in Nat, NEW f, NEW g, NEW succ, NEW front,
         Chain(f, succ, front, n), Chain(g, succ, front, n)
  PROVE  \A i \in 1..n : f[i] = g[i]
  <1> DEFINE T == {i \in 1..n : f[i] # g[i]}
  <1>1. SUFFICES ASSUME T # {}
                 PROVE  FALSE
    OBVIOUS
  <1>2. T \in SUBSET Nat
    OBVIOUS
  <1>3. PICK m \in T : \A y \in T : m <= y
    <2> HIDE DEF T
    <2> QED
      BY <1>1, <1>2, LeastOf
  <1>4. m \in 1..n /\ f[m] # g[m]
    BY <1>3
  <1>5. m # 1 /\ m - 1 \in 1..n
    BY <1>4 DEF Chain
  <1>6. m - 1 \notin T
    BY <1>3, <1>4
  <1>7. f[m - 1] = g[m - 1]
    BY <1>5, <1>6
  <1> QED
    BY <1>4, <1>5, <1>7 DEF Chain

LEMMA ListIs ==
  ASSUME NEW S, NEW q \in Seq(S), NEW succ, NEW front, Chain(q, succ, front, Len(q))
  PROVE  ListFrom(succ, front, Len(q)) = q
  <1> DEFINE n == Len(q)
             F(f) == f = [i \in 1..n |-> IF i = 1 THEN front ELSE succ[f[i - 1]]]
             h == CHOOSE f : F(f)
  <1>1. n \in Nat /\ q = [i \in 1..n |-> q[i]]
    OBVIOUS
  <1>2. F(q)
    BY <1>1 DEF Chain
  <1>3. F(h)
    BY <1>2
  <1>4. Chain(h, succ, front, n)
    BY <1>3 DEF Chain
  <1>5. \A i \in 1..n : h[i] = q[i]
    <2> HIDE DEF h
    <2> QED
      BY <1>1, <1>4, SameStart
  <1>6. ListFrom(succ, front, n) = [i \in 1..n |-> h[i]]
    BY DEF ListFrom
  <1> QED
    BY <1>1, <1>5, <1>6

-----------------------------------------------------------------------------
(* QueueOrder is the queue.                                                  *)

LEMMA QueuedIs ==
  ASSUME NEW q, QueueOf(q)
  PROVE  Queued = {q[i] : i \in 1..Len(q)} /\ Cardinality(Queued) = Len(q)
  <1>1. /\ q \in Seq(Threads) /\ Len(q) \in Nat
        /\ \A i, j \in 1..Len(q) : q[i] = q[j] => i = j
        /\ \A i \in 1..Len(q) : q[i] \in Threads
        /\ \A t \in Threads : pc[t] \in QueuedPcs <=> \E i \in 1..Len(q) : q[i] = t
    BY DEF QueueOf
  <1>2. Queued = {q[i] : i \in 1..Len(q)}
    BY <1>1 DEF Queued
  <1>3. q \in [1..Len(q) -> Queued]
    BY <1>1, <1>2
  <1>4. q \in Bijection(1..Len(q), Queued)
    <2>1. \A t \in Queued : \E i \in 1..Len(q) : q[i] = t
      BY <1>2
    <2>2. \A i, j \in 1..Len(q) : q[i] = q[j] => i = j
      BY <1>1
    <2> QED
      BY <1>3, <2>1, <2>2, Fun_IsBij
  <1>5. ExistsBijection(1..Len(q), Queued)
    BY <1>4 DEF ExistsBijection
  <1>6. IsFiniteSet(1..Len(q)) /\ Cardinality(1..Len(q)) = Len(q)
    <2>1. 1 \in Int /\ Len(q) \in Int
      BY <1>1
    <2>2. /\ IsFiniteSet(1..Len(q))
          /\ Cardinality(1..Len(q)) = IF 1 > Len(q) THEN 0 ELSE Len(q) - 1 + 1
      BY <2>1, FS_Interval
    <2> QED
      BY <1>1, <2>2
  <1> QED
    BY <1>2, <1>5, <1>6, FS_Bijection

LEMMA HeadsAre ==
  ASSUME NEW q, QInv(q)
  PROVE  Heads = IF Len(q) = 0 THEN {} ELSE {q[1]}
  <1>0. QueueOf(q) /\ Len(q) \in Nat
    BY DEF QInv, QueueOf
  <1>1. Queued = {q[i] : i \in 1..Len(q)} /\ Len(q) \in Nat
    BY <1>0, QueuedIs
  <1>2. \A i \in 1..Len(q) : IsHead(q[i]) <=> i = 1
    BY DEF QInv, HeadAt
  <1>3. CASE Len(q) = 0
    BY <1>1, <1>3 DEF Heads
  <1>4. CASE Len(q) # 0
    <2>1. 1 \in 1..Len(q)
      BY <1>1, <1>4
    <2> QED
      BY <1>1, <1>2, <1>4, <2>1 DEF Heads
  <1> QED
    BY <1>3, <1>4

\* The stores under way are those that link a position to the one behind it.
LEMMA PendingIs ==
  ASSUME NEW q, QInv(q), NEW s \in PendingStores, NEW i \in 1..Len(q), i < Len(q), s.at = q[i]
  PROVE  s.to = q[i + 1]
  <1>1. /\ q \in Seq(Threads) /\ Len(q) \in Nat
        /\ \A k, l \in 1..Len(q) : q[k] = q[l] => k = l
        /\ \A u \in Threads : pc[u] \in QueuedPcs <=> \E k \in 1..Len(q) : q[k] = u
    BY DEF QInv, QueueOf
  <1>2. ASSUME NEW v \in Threads, pc[v] = "link", s = [at |-> pred[v], to |-> v]
        PROVE  s.to = q[i + 1]
    <2>1. PICK k \in 1..Len(q) : q[k] = v
      BY <1>1, <1>2 DEF QueuedPcs
    <2>2. LinkAt(q, k)
      BY DEF QInv
    <2>3. k >= 2 /\ q[k - 1] = q[i]
      BY <1>2, <2>1, <2>2 DEF LinkAt
    <2>4. k - 1 \in 1..Len(q)
      BY <1>1, <2>3
    <2>5. k - 1 = i
      BY <1>1, <2>3, <2>4
    <2>6. k = i + 1
      BY <1>1, <2>5
    <2> QED
      BY <1>2, <2>1, <2>6
  <1>3. ASSUME NEW m \in Threads, pc[m] \in {"relink", "insert"},
               \/ s = [at |-> sh[m].last, to |-> sh[m].curr]
               \/ s = [at |-> sh[m].curr, to |-> next[sh[m].last]]
        PROVE  s.to = q[i + 1]
    <2>1. PICK j \in 1..Len(q) : \E k \in j..Len(q) : \E p \in (k + 2)..Len(q) :
             q[k] = sh[m].last /\ q[k + 1] = sh[m].curr /\ next[q[k]] = q[k + 2]
      BY <1>3, AtMove DEF MovePcs
    <2>2. PICK k \in j..Len(q) : \E p \in (k + 2)..Len(q) :
             q[k] = sh[m].last /\ q[k + 1] = sh[m].curr /\ next[q[k]] = q[k + 2]
      BY <2>1
    <2>3. /\ k \in 1..Len(q) /\ k + 1 \in 1..Len(q) /\ (k + 1) + 1 = k + 2
      BY <1>1, <2>2
    <2>4. CASE s = [at |-> sh[m].last, to |-> sh[m].curr]
      <3>1. k = i
        BY <1>1, <2>2, <2>3, <2>4
      <3> QED
        BY <2>2, <2>4, <3>1
    <2>5. CASE s = [at |-> sh[m].curr, to |-> next[sh[m].last]]
      <3>1. k + 1 = i
        BY <1>1, <2>2, <2>3, <2>5
      <3> QED
        BY <2>2, <2>3, <2>5, <3>1
    <2> QED
      BY <1>3, <2>4, <2>5
  <1> QED
    BY <1>2, <1>3 DEF PendingStores

LEMMA SuccessorIs ==
  ASSUME NEW q, QInv(q), NEW i \in 1..Len(q), i < Len(q), TypeOK
  PROVE  WithStores(next, PendingStores, Ptr)[q[i]] = q[i + 1]
  <1>1. q[i] \in Threads /\ q[i + 1] \in Threads /\ i + 1 \in 1..Len(q) /\ Len(q) \in Nat
    BY DEF QInv, QueueOf
  <1>2. \A s \in PendingStores : s.at = q[i] => s.to = q[i + 1]
    BY PendingIs
  <1>3. CASE \E s \in PendingStores : s.at = q[i]
    <2>1. (CHOOSE s \in PendingStores : s.at = q[i]).to = q[i + 1]
      BY <1>2, <1>3
    <2> QED
      BY <1>1, <1>3, <2>1 DEF WithStores, Ptr
  <1>4. CASE ~\E s \in PendingStores : s.at = q[i]
    <2>1. pc[q[i + 1]] # "link"
      <3>1. SUFFICES ASSUME pc[q[i + 1]] = "link"
                     PROVE  FALSE
        OBVIOUS
      <3>2. LinkAt(q, i + 1) /\ (i + 1) - 1 = i
        BY <1>1 DEF QInv
      <3>3. pred[q[i + 1]] = q[i]
        BY <1>1, <3>1, <3>2 DEF LinkAt
      <3>4. [at |-> pred[q[i + 1]], to |-> q[i + 1]] \in PendingStores
        BY <1>1, <3>1 DEF PendingStores
      <3> QED
        BY <1>4, <3>3, <3>4
    <2>2. ~Moved(q[i])
      <3>1. SUFFICES ASSUME NEW m \in Threads, \/ pc[m] \in MovePcs /\ sh[m].last = q[i]
                                               \/ pc[m] = "relink" /\ sh[m].curr = q[i]
                     PROVE  FALSE
        BY DEF Moved
      <3>2. pc[m] \in {"relink", "insert"}
        BY <3>1 DEF MovePcs
      <3>3. /\ [at |-> sh[m].last, to |-> sh[m].curr] \in PendingStores
            /\ [at |-> sh[m].curr, to |-> next[sh[m].last]] \in PendingStores
        BY <3>2 DEF PendingStores
      <3> QED
        BY <1>4, <3>1, <3>3
    <2>3. LinkAt(q, i)
      BY DEF QInv
    <2>4. next[q[i]] = q[i + 1]
      BY <2>1, <2>2, <2>3 DEF LinkAt
    <2>5. q[i] \in DOMAIN next
      BY <1>1 DEF TypeOK
    <2> QED
      BY <1>1, <1>4, <2>4, <2>5 DEF WithStores, Ptr
  <1> QED
    BY <1>3, <1>4

LEMMA OrderIs ==
  ASSUME TypeOK, NEW q, QInv(q)
  PROVE  QueueOrder = q
  <1> DEFINE front == IF Heads = {} THEN NULL ELSE CHOOSE t \in Heads : TRUE
             succ  == WithStores(next, PendingStores, Ptr)
  <1>1. q \in Seq(Threads) /\ Len(q) \in Nat /\ Cardinality(Queued) = Len(q)
    BY QueuedIs DEF QInv, QueueOf
  <1>2. 1 \in 1..Len(q) => front = q[1]
    <2>1. 1 \in 1..Len(q) => Heads = {q[1]}
      BY <1>1, HeadsAre
    <2> QED
      BY <2>1
  <1>3. Chain(q, succ, front, Len(q))
    <2>1. ASSUME NEW i \in 1..Len(q), i # 1
          PROVE  q[i] = succ[q[i - 1]]
      <3>1. i - 1 \in 1..Len(q) /\ i - 1 < Len(q) /\ (i - 1) + 1 = i
        BY <1>1, <2>1
      <3> QED
        BY <3>1, SuccessorIs
    <2> QED
      BY <1>2, <2>1 DEF Chain
  <1>4. QueueOrder = ListFrom(succ, front, Len(q))
    BY <1>1 DEF QueueOrder
  <1> HIDE DEF succ, front
  <1> QED
    BY <1>1, <1>3, <1>4, ListIs

-----------------------------------------------------------------------------
(* The safety properties of Aqs.                                             *)

LEMMA OrderIntact ==
  ASSUME TypeOK, NEW q, QInv(q)
  PROVE  QueueIntact
  <1>1. /\ QueueOrder = q /\ Cardinality(Queued) = Len(q) /\ Len(q) \in Nat
        /\ Queued = {q[i] : i \in 1..Len(q)}
        /\ tail = IF Len(q) = 0 THEN NULL ELSE q[Len(q)]
    BY OrderIs, QueuedIs DEF QInv, QueueOf
  <1>2. Len(q) # 0 => Cardinality(Heads) = 1
    BY <1>1, HeadsAre, FS_Singleton
  <1> QED
    BY <1>1, <1>2 DEF QueueIntact

LEMMA OrderLed ==
  ASSUME TypeOK, NEW q, QInv(q)
  PROVE  SingleShuffler
  <1> DEFINE Leads(x) == pc[x] \in ShufflePcs \/ sleader[x] = 1
                         \/ (x \in Heads /\ wcount[x] = 0)
  <1>1. Queued = {q[i] : i \in 1..Len(q)} /\ Len(q) \in Nat
    BY QueuedIs DEF QInv, QueueOf
  <1>2. ASSUME NEW i \in 1..Len(q), NEW j \in 1..Len(q), Leads(q[i]), Leads(q[j])
        PROVE  i = j
    <2>1. 1 \in 1..Len(q) /\ Heads = {q[1]}
      BY <1>1, HeadsAre
    <2>2. \A k \in 1..Len(q) : q[k] = q[1] => k = 1
      BY <2>1 DEF QInv, QueueOf
    <2>3. CASE wcount[q[1]] = 1
      <3>1. Token(q[i]) /\ Token(q[j])
        BY <1>2, <2>1, <2>3 DEF Token
      <3> QED
        BY <3>1, OneToken
    <2>4. CASE wcount[q[1]] # 1
      <3>1. \A k \in 1..Len(q) : k # 1 => ~Token(q[k])
        BY <2>1, <2>4, NoneLed
      <3>2. ASSUME NEW k \in 1..Len(q), Leads(q[k])
            PROVE  k = 1
        BY <2>1, <2>2, <3>1, <3>2 DEF Token
      <3> QED
        BY <1>2, <3>2
    <2> QED
      BY <2>3, <2>4
  <1>3. SUFFICES ASSUME NEW t \in Queued, NEW u \in Queued, Leads(t), Leads(u)
                 PROVE  t = u
    BY DEF SingleShuffler
  <1> QED
    BY <1>1, <1>2, <1>3

LEMMA OrderAlive ==
  ASSUME TypeOK, NEW q, QInv(q)
  PROVE  NodesAlive
  <1>1. /\ QueueOrder = q /\ Len(q) \in Nat /\ DOMAIN q = 1..Len(q)
        /\ Queued = {q[i] : i \in 1..Len(q)}
        /\ \A i \in 1..Len(q) : q[i] \in Threads
    BY OrderIs, QueuedIs DEF QInv, QueueOf
  <1>2. ASSUME NEW j \in 1..Len(q), NEW u, On(q, j, u)
        PROVE  u \in FromOn(q, q[j])
    <2>1. PICK k \in j..Len(q) : q[k] = u
      BY <1>2 DEF On
    <2>2. k \in 1..Len(q) /\ j \in 1..k
      BY <1>1
    <2>3. k \in {l \in DOMAIN q : \E i \in 1..l : q[i] = q[j]}
      BY <1>1, <2>2
    <2> QED
      BY <2>1, <2>3 DEF FromOn
  <1>3. ASSUME NEW j \in 1..Len(q)
        PROVE  /\ pc[q[j]] \in ShufflePcs \cup {"visited"} =>
                    {sh[q[j]].prev, sh[q[j]].last, sh[q[j]].curr, sh[q[j]].nxt, sh[q[j]].leader,
                     sh[q[j]].qend} \subseteq FromOn(q, q[j]) \cup {NULL}
               /\ last_visited[q[j]] \in FromOn(q, q[j]) \cup {NULL}
    <2>1. FrameAt(q, j) /\ MarkAt(q, j) /\ last_visited[q[j]] \in Ptr
      BY <1>1 DEF QInv, TypeOK
    <2>2. pc[q[j]] \in ShufflePcs \cup {"visited"} =>
            \A x \in {sh[q[j]].prev, sh[q[j]].last, sh[q[j]].curr, sh[q[j]].nxt, sh[q[j]].leader,
                      sh[q[j]].qend} : x \in FromOn(q, q[j]) \cup {NULL}
      BY <1>2, <2>1 DEF FrameAt, FramePcs
    <2>3. last_visited[q[j]] # NULL => On(q, j, last_visited[q[j]])
      BY <2>1 DEF MarkAt, Mark, Ptr, On
    <2> QED
      BY <1>2, <2>2, <2>3
  <1> QED
    BY <1>1, <1>3 DEF NodesAlive

\* The next fields string the queued nodes together from the one very next waiter to
\* the tail, whatever enqueues, leaves and moves are under way.
THEOREM QueueIntactCorrect == Spec => []QueueIntact
  <1>1. TypeOK /\ QueueInv => QueueIntact
    BY OrderIntact DEF QueueInv
  <1> QED
    BY <1>1, QueueInvariant, PTL

\* At most one thread is in shuffle_waiters, is appointed to it or may enter it by
\* itself.
THEOREM SingleShufflerCorrect == Spec => []SingleShuffler
  <1>1. TypeOK /\ QueueInv => SingleShuffler
    BY OrderLed DEF QueueInv
  <1> QED
    BY <1>1, QueueInvariant, PTL

\* The pointers the shuffle leader follows, last_visited among them, are to nodes still
\* queued at or behind itself.
THEOREM NodesAliveCorrect == Spec => []NodesAlive
  <1>1. TypeOK /\ QueueInv => NodesAlive
    BY OrderAlive DEF QueueInv
  <1> QED
    BY <1>1, QueueInvariant, PTL

\* disable_stealing is called by queued threads only, so an empty queue with nobody
\* about to call enable_stealing has the fast path open.
THEOREM FastPathRestoredCorrect == Spec => []FastPathRestored
  <1>1. Init => FastPathRestored
    BY DEF Init, aqs_mutex_create, FastPathRestored
  <1>2. ASSUME TypeOK, QueueInv, FastPathRestored, [Next]_vars
        PROVE  FastPathRestored'
    <2>1. NULL \notin Threads
      BY AqsAssumption
    <2>2. ASSUME NEW t \in Threads, pc[t] \in QueuedPcs
          PROVE  tail # NULL
      <3>1. PICK q \in Seq(Threads) : QInv(q)
        BY <1>2 DEF QueueInv
      <3>2. PICK j \in 1..Len(q) : q[j] = t
        BY <2>2, <3>1, Placed DEF QInv
      <3>3. Len(q) # 0 /\ Len(q) \in 1..Len(q)
        BY <3>2
      <3>4. tail = q[Len(q)] /\ q[Len(q)] \in Threads
        BY <3>1, <3>3 DEF QInv, QueueOf
      <3> QED
        BY <2>1, <3>4
    <2>3. CASE UNCHANGED vars
      BY <1>2, <2>3 DEF FastPathRestored, vars, lockVars
    <2>4. ASSUME NEW t \in Threads, EnableStealing(t)
          PROVE  FastPathRestored'
      BY <2>4 DEF EnableStealing, FastPathRestored
    <2>5. ASSUME NEW t \in Threads, DisableStealing(t)
          PROVE  FastPathRestored'
      <3>1. pc[t] \in QueuedPcs /\ tail' = tail
        BY <2>5 DEF DisableStealing, QueuedPcs
      <3> QED
        BY <2>2, <3>1 DEF FastPathRestored
    <2>6. ASSUME NEW t \in Threads, SwapTail(t)
          PROVE  FastPathRestored'
      BY <2>1, <2>6 DEF SwapTail, FastPathRestored
    <2>7. ASSUME NEW t \in Threads, CasTail(t), tail = t
          PROVE  FastPathRestored'
      <3>1. pc'[t] = "enable"
        BY <1>2, <2>7 DEF CasTail, Goto, TypeOK
      <3> QED
        BY <3>1 DEF FastPathRestored
    <2>8. ASSUME NEW t \in Threads, tail' = tail, no_stealing' = no_stealing, pc[t] # "enable",
                 \A u \in Threads \ {t} : pc'[u] = pc[u]
          PROVE  FastPathRestored'
      BY <1>2, <2>8 DEF FastPathRestored
    <2>9. ASSUME NEW t \in Threads, KeepsQueue(t) \/ Unlink(t) \/ Notify(t),
                 ~EnableStealing(t), ~DisableStealing(t)
          PROVE  FastPathRestored'
      <3>1. tail' = tail /\ no_stealing' = no_stealing /\ pc[t] # "enable"
        BY <2>9 DEF KeepsQueue, FastPath, SlowPath, TryLock, Unlock, LinkPrev, CheckTurn, WaiterShuffle,
          CheckLocked, HeadShuffle, Acquire, GetSuccessor, CasTail, WaitSuccessor, PassLeadership,
          Scan, TailCheck, GetNext, Relink, Insert, Ready, Appoint, SetLastVisited, Unlink, Notify,
          StartShuffle, lockVars
      <3>2. \E l : Goto(t, l)
        BY <2>9 DEF KeepsQueue, FastPath, SlowPath, TryLock, Unlock, LinkPrev, CheckTurn, WaiterShuffle,
          CheckLocked, HeadShuffle, Acquire, GetSuccessor, CasTail, WaitSuccessor, PassLeadership,
          Scan, TailCheck, GetNext, Relink, Insert, Ready, Appoint, SetLastVisited, Unlink, Notify,
          StartShuffle, Leave, Return
      <3>3. \A u \in Threads \ {t} : pc'[u] = pc[u]
        BY <1>2, <3>2 DEF Goto, TypeOK
      <3> QED
        BY <2>8, <3>1, <3>3
    <2> QED
      BY <1>2, <2>3, <2>4, <2>5, <2>6, <2>7, <2>9, NextCases
  <1> QED
    BY <1>1, <1>2, QueueInvariant, PTL DEF Spec

-----------------------------------------------------------------------------
(* Aqs implements ShflQueue: the owner and the waiting queue of a state.     *)

HeadHolds(q) == Len(q) # 0 /\ pc[q[1]] \in HoldPcs

\* The front thread is out of the waiting queue from the moment it holds the lock.
LEMMA WaitIs ==
  ASSUME NEW q, TypeOK, QInv(q)
  PROVE  WaitQueue = IF HeadHolds(q) THEN Tail(q) ELSE q
  <1>1. QueueOrder = q /\ Heads = IF Len(q) = 0 THEN {} ELSE {q[1]}
    BY OrderIs, HeadsAre
  <1>2. Len(q) # 0 => q[1] \in Threads
    BY DEF QInv, QueueOf
  <1>3. Heads \cap Holders # {} <=> HeadHolds(q)
    BY <1>1, <1>2 DEF HeadHolds, Holders
  <1> QED
    BY <1>1, <1>3 DEF WaitQueue

LEMMA WaitNext ==
  ASSUME NEW q
  PROVE  (TypeOK /\ QInv(q) => WaitQueue = IF HeadHolds(q) THEN Tail(q) ELSE q)'
  <1>1. TypeOK /\ QInv(q) => WaitQueue = IF HeadHolds(q) THEN Tail(q) ELSE q
    BY WaitIs
  <1> QED
    BY <1>1, PTL

LEMMA OwnerIs ==
  ASSUME MutualExclusion
  PROVE  /\ \A t \in Threads : pc[t] \in HoldPcs => Owner = t
         /\ (\A t \in Threads : pc[t] \notin HoldPcs) => Owner = NULL
  BY DEF MutualExclusion, Owner, Holders

LEMMA OwnerNext ==
  (MutualExclusion => /\ \A t \in Threads : pc[t] \in HoldPcs => Owner = t
                      /\ (\A t \in Threads : pc[t] \notin HoldPcs) => Owner = NULL)'
  <1>1. MutualExclusion => /\ \A t \in Threads : pc[t] \in HoldPcs => Owner = t
                           /\ (\A t \in Threads : pc[t] \notin HoldPcs) => Owner = NULL
    BY OwnerIs
  <1> QED
    BY <1>1, PTL

\* While the lock is free, there is no owner, and the front thread still waits.
LEMMA FreeIs ==
  ASSUME NEW q, TypeOK, MutualExclusion, QInv(q), locked = 0
  PROVE  Owner = NULL /\ WaitQueue = q /\ \A t \in Threads : pc[t] \notin HoldPcs
  <1>1. \A t \in Threads : pc[t] \notin HoldPcs
    BY DEF MutualExclusion, Holders
  <1>2. ~HeadHolds(q)
    BY <1>1 DEF HeadHolds, QInv, QueueOf
  <1> QED
    BY <1>1, <1>2, OwnerIs, WaitIs

\* A thread that neither waits nor holds the lock is outside.
LEMMA OutsideIs ==
  ASSUME NEW q, TypeOK, MutualExclusion, QInv(q), NEW t \in Threads, pc[t] \notin QueuedPcs \cup HoldPcs
  PROVE  t \in Abs!Outside
  <1>1. q \in Seq(Threads) /\ Len(q) \in Nat /\ \A i \in 1..Len(q) : pc[q[i]] \in QueuedPcs
    BY DEF QInv, QueueOf
  <1>2. t # Owner
    <2>1. NULL \notin Threads
      BY AqsAssumption
    <2> QED
      BY <2>1, OwnerIs
  <1>3. \A i \in DOMAIN WaitQueue : WaitQueue[i] # t
    <2>1. CASE WaitQueue = q
      BY <1>1, <2>1
    <2>2. CASE HeadHolds(q) /\ WaitQueue = Tail(q)
      <3>1. Len(q) # 0
        BY <2>2 DEF HeadHolds
      <3>2. DOMAIN Tail(q) = 1..(Len(q) - 1) /\ \A i \in 1..(Len(q) - 1) : Tail(q)[i] = q[i + 1]
        BY <1>1, <3>1
      <3>3. \A i \in 1..(Len(q) - 1) : i + 1 \in 1..Len(q)
        BY <1>1
      <3> QED
        BY <1>1, <2>2, <3>2, <3>3
    <2> QED
      BY <2>1, <2>2, WaitIs
  <1> QED
    BY <1>2, <1>3 DEF Abs!Outside, Abs!Waiting

\* Steps of a thread that is not queued leave the waiting queue alone.
LEMMA WaitKept ==
  ASSUME NEW q, TypeOK, TypeOK', QInv(q), QInv(q)', NEW t \in Threads, pc[t] \notin QueuedPcs,
         \A u \in Threads \ {t} : pc'[u] = pc[u]
  PROVE  WaitQueue' = WaitQueue
  <1>1. Len(q) # 0 => q[1] \in Threads /\ pc[q[1]] \in QueuedPcs
    BY DEF QInv, QueueOf
  <1>2. HeadHolds(q)' <=> HeadHolds(q)
    BY <1>1 DEF HeadHolds
  <1>3. /\ WaitQueue = IF HeadHolds(q) THEN Tail(q) ELSE q
        /\ WaitQueue' = IF HeadHolds(q)' THEN Tail(q) ELSE q
    BY WaitIs, WaitNext
  <1> QED
    BY <1>2, <1>3

\* Steps after which the same threads hold the lock and wait change nothing.
LEMMA StutterStep ==
  ASSUME NEW q, TypeOK, TypeOK', MutualExclusion, MutualExclusion', QInv(q), QInv(q)',
         \A u \in Threads : pc'[u] \in HoldPcs <=> pc[u] \in HoldPcs,
         nid' = nid
  PROVE  UNCHANGED Abs!vars
  <1>1. Owner' = Owner
    BY OwnerIs, OwnerNext
  <1>2. Len(q) # 0 => q[1] \in Threads
    BY DEF QInv, QueueOf
  <1>3. HeadHolds(q)' <=> HeadHolds(q)
    BY <1>2 DEF HeadHolds
  <1>4. WaitQueue' = WaitQueue
    <2>1. /\ WaitQueue = IF HeadHolds(q) THEN Tail(q) ELSE q
          /\ WaitQueue' = IF HeadHolds(q)' THEN Tail(q) ELSE q
      BY WaitIs, WaitNext
    <2> QED
      BY <1>3, <2>1
  <1> QED
    BY <1>1, <1>4 DEF Abs!vars

-----------------------------------------------------------------------------
(* Each step is one of ShflQueue's or none.                                  *)

LEMMA StealStep ==
  ASSUME NEW q, TypeOK, TypeOK', MutualExclusion, MutualExclusion', QInv(q), QInv(q)',
         NEW t \in Threads, FastPath(t) \/ TryLock(t)
  PROVE  Abs!Steal
  <1>1. /\ pc[t] = "idle" /\ pc'[t] = "cs" /\ locked = 0 /\ nid' = nid
        /\ \A u \in Threads \ {t} : pc'[u] = pc[u]
    BY DEF FastPath, TryLock, Goto, TypeOK, nodeVars
  <1>2. pc[t] \notin QueuedPcs \cup HoldPcs /\ pc'[t] \in HoldPcs
    BY <1>1 DEF QueuedPcs, HoldPcs, ShufflePcs
  <1>3. Owner = NULL
    BY <1>1, FreeIs
  <1>4. Owner' = t /\ t # NULL
    BY <1>2, OwnerNext, AqsAssumption
  <1>5. WaitQueue' = WaitQueue
    BY <1>1, <1>2, WaitKept
  <1>6. t \in Abs!Outside
    BY <1>2, OutsideIs
  <1> QED
    BY <1>1, <1>3, <1>4, <1>5, <1>6 DEF Abs!Steal

LEMMA NoteStep ==
  ASSUME NEW q, TypeOK, TypeOK', MutualExclusion, MutualExclusion', QInv(q), QInv(q)',
         NEW t \in Threads, SlowPath(t)
  PROVE  Abs!Note \/ UNCHANGED Abs!vars
  <1>1. /\ pc[t] = "idle" /\ pc'[t] = "swap"
        /\ \A u \in Threads \ {t} : pc'[u] = pc[u]
    BY DEF SlowPath, Goto, TypeOK
  <1>2. PICK n \in Sockets : nid' = [nid EXCEPT ![t] = n]
    <2>1. Homes[t] \subseteq Sockets
      BY AqsAssumption
    <2> QED
      BY <2>1 DEF SlowPath, NodeReset
  <1>3. pc[t] \notin QueuedPcs \cup HoldPcs /\ pc'[t] \notin HoldPcs
    BY <1>1 DEF QueuedPcs, HoldPcs, ShufflePcs
  <1>4. Owner' = Owner
    BY <1>1, <1>3, OwnerIs, OwnerNext
  <1>5. WaitQueue' = WaitQueue
    BY <1>1, <1>3, WaitKept
  <1>6. t \in Abs!Outside
    BY <1>3, OutsideIs
  <1> QED
    BY <1>2, <1>4, <1>5, <1>6 DEF Abs!Note, Abs!vars

LEMMA EnqueueStep ==
  ASSUME NEW q, TypeOK, TypeOK', MutualExclusion, MutualExclusion', QInv(q),
         NEW t \in Threads, QInv(Append(q, t))', SwapTail(t), nid[t] \in Sockets
  PROVE  Abs!Enqueue
  <1> DEFINE r == Append(q, t)
  <1>1. /\ pc[t] = "swap" /\ pc'[t] \in {"disable", "link"} /\ nid' = nid
        /\ \A u \in Threads \ {t} : pc'[u] = pc[u]
    BY DEF SwapTail, Goto, TypeOK, nodeVars
  <1>2. pc[t] \notin QueuedPcs \cup HoldPcs /\ pc'[t] \notin HoldPcs
    BY <1>1 DEF QueuedPcs, HoldPcs, ShufflePcs
  <1>3. Owner' = Owner
    BY <1>1, <1>2, OwnerIs, OwnerNext
  <1>4. t \in Abs!Outside
    BY <1>2, OutsideIs
  <1>5. /\ q \in Seq(Threads) /\ Len(q) \in Nat
        /\ Len(q) # 0 => q[1] \in Threads /\ pc[q[1]] \in QueuedPcs
    BY DEF QInv, QueueOf
  <1>6. Len(r) = Len(q) + 1 /\ (Len(q) # 0 => r[1] = q[1]) /\ (Len(q) = 0 => r[1] = t)
    BY <1>5
  <1>7. WaitQueue = (IF HeadHolds(q) THEN Tail(q) ELSE q) /\ WaitQueue' = (IF HeadHolds(r)' THEN Tail(r) ELSE r)
    BY WaitIs, WaitNext
  <1>8. HeadHolds(r)' <=> HeadHolds(q)
    <2> HIDE DEF r
    <2> QED
      BY <1>1, <1>2, <1>5, <1>6 DEF HeadHolds
  <1>9. HeadHolds(q) => Tail(r) = Append(Tail(q), t)
    BY <1>5 DEF HeadHolds
  <1>10. WaitQueue' = Append(WaitQueue, t)
    BY <1>7, <1>8, <1>9
  <1> QED
    BY <1>1, <1>3, <1>4, <1>10 DEF Abs!Enqueue

LEMMA GrantStep ==
  ASSUME NEW q, TypeOK, TypeOK', MutualExclusion, MutualExclusion', QInv(q), QInv(q)',
         NEW t \in Threads, Acquire(t)
  PROVE  Abs!Grant
  <1>1. pc[t] = "acquire" /\ pc'[t] = "getsucc" /\ locked = 0 /\ nid' = nid
    BY DEF Acquire, Goto, TypeOK, nodeVars
  <1>2. Owner = NULL /\ WaitQueue = q
    BY <1>1, FreeIs
  <1>3. Owner' = t /\ t # NULL
    BY <1>1, OwnerNext, AqsAssumption DEF HoldPcs
  <1>4. PICK j \in 1..Len(q) : q[j] = t
    BY <1>1, Placed DEF QInv, QueuedPcs
  <1>5. j = 1 /\ Len(q) # 0 /\ q[1] = t
    <2>1. IsHead(q[j]) /\ HeadAt(q, j)
      BY <1>1, <1>4 DEF QInv, IsHead
    <2> QED
      BY <1>4, <2>1 DEF HeadAt
  <1>6. HeadHolds(q)'
    BY <1>1, <1>5 DEF HeadHolds, HoldPcs
  <1>7. WaitQueue' = Tail(q)
    BY <1>6, WaitNext
  <1>8. q # << >> /\ Head(q) = t
    BY <1>5 DEF QInv, QueueOf
  <1> QED
    BY <1>1, <1>2, <1>3, <1>7, <1>8 DEF Abs!Grant

\* Leaving the queue with the lock, to an empty queue or to the next front waiter.
LEMMA ForgetStep ==
  ASSUME NEW q, NEW r, TypeOK, TypeOK', MutualExclusion, MutualExclusion', QInv(q), QInv(r)',
         NEW t \in Threads, Len(q) # 0, q[1] = t, r = Tail(q), pc[t] \in HoldPcs, pc'[t] \in HoldPcs \ QueuedPcs,
         \A u \in Threads \ {t} : pc'[u] = pc[u], nid' = [nid EXCEPT ![t] = NULL]
  PROVE  Abs!Forget \/ UNCHANGED Abs!vars
  <1>1. Owner = t /\ Owner' = t /\ t # NULL
    BY OwnerIs, OwnerNext, AqsAssumption
  <1>2. HeadHolds(q) /\ WaitQueue = r
    BY WaitIs DEF HeadHolds
  <1>3. ~HeadHolds(r)'
    <2>1. SUFFICES ASSUME Len(r) # 0
                   PROVE  pc'[r[1]] \notin HoldPcs
      BY DEF HeadHolds
    <2>2. r[1] \in Threads /\ pc'[r[1]] \in QueuedPcs
      <3>1. QueueOf(r)'
        BY DEF QInv
      <3>2. 1 \in 1..Len(r)
        <4>1. Len(r) \in Nat
          BY <3>1 DEF QueueOf
        <4>2. \A l \in Nat : l # 0 => 1 \in 1..l
          OBVIOUS
        <4> QED
          BY <2>1, <4>1, <4>2
      <3> QED
        BY <3>1, <3>2 DEF QueueOf
    <2>3. r[1] # t
      BY <2>2
    <2> QED
      BY <2>2, <2>3 DEF MutualExclusion, Holders
  <1>4. WaitQueue' = WaitQueue
    BY <1>2, <1>3, WaitNext
  <1> QED
    BY <1>1, <1>4 DEF Abs!Forget, Abs!vars

LEMMA ReleaseStep ==
  ASSUME NEW q, TypeOK, TypeOK', MutualExclusion, MutualExclusion', QInv(q), QInv(q)',
         NEW t \in Threads, Unlock(t)
  PROVE  Abs!Release
  <1>1. /\ pc[t] = "cs" /\ pc'[t] = "idle" /\ nid' = nid /\ locked' = 0
        /\ \A u \in Threads \ {t} : pc'[u] = pc[u]
    BY DEF Unlock, Goto, TypeOK, nodeVars
  <1>2. pc[t] \notin QueuedPcs /\ pc[t] \in HoldPcs
    BY <1>1 DEF QueuedPcs, HoldPcs, ShufflePcs
  <1>3. Owner = t /\ t # NULL
    BY <1>2, OwnerIs, AqsAssumption
  <1>4. Owner' = NULL
    <2>1. \A u \in Threads : pc'[u] \notin HoldPcs
      BY <1>1 DEF MutualExclusion, Holders
    <2> QED
      BY <2>1, OwnerNext
  <1>5. WaitQueue' = WaitQueue
    BY <1>1, <1>2, WaitKept
  <1> QED
    BY <1>1, <1>3, <1>4, <1>5 DEF Abs!Release

\* Taking the front element off commutes with moving one forward behind it.
LEMMA MoveBehind ==
  ASSUME NEW q \in Seq(Threads), NEW i \in 2..Len(q), NEW p \in (i + 1)..Len(q), p + 1 \in 1..Len(q)
  PROVE  Tail(Abs!MoveForward(q, i + 1, p + 1)) = Abs!MoveForward(Tail(q), i, p)
  <1> DEFINE m == Abs!MoveForward(q, i + 1, p + 1)
             l == Abs!MoveForward(Tail(q), i, p)
             n == Len(q)
  <1>1. /\ n \in Nat /\ n # 0 /\ DOMAIN q = 1..n /\ i \in 1..n /\ p \in 1..n /\ p < n /\ i < p
        /\ (i + 1) + 1 = i + 2
    OBVIOUS
  <1>2. /\ Tail(q) \in Seq(Threads) /\ Len(Tail(q)) = n - 1 /\ DOMAIN Tail(q) = 1..(n - 1)
        /\ \A k \in 1..(n - 1) : Tail(q)[k] = q[k + 1]
    BY <1>1
  <1>3. m \in Seq(Threads) /\ Len(m) = n
    BY <1>1, MovedNext DEF MovedTo
  <1>4. m = [k \in 1..n |-> IF k = i + 1 THEN q[p + 1]
                            ELSE IF k \in (i + 2)..(p + 1) THEN q[k - 1] ELSE q[k]]
    BY <1>1 DEF Abs!MoveForward
  <1>5. l = [k \in 1..(n - 1) |-> IF k = i THEN Tail(q)[p]
                                  ELSE IF k \in (i + 1)..p THEN Tail(q)[k - 1] ELSE Tail(q)[k]]
    BY <1>2 DEF Abs!MoveForward
  <1> HIDE DEF m, l
  <1>6. Tail(m) = [k \in 1..(n - 1) |-> m[k + 1]]
    <2> DEFINE s == Tail(m)
    <2>1. s \in Seq(Threads) /\ Len(s) = n - 1 /\ \A k \in 1..(n - 1) : s[k] = m[k + 1]
      BY <1>1, <1>3
    <2> HIDE DEF s
    <2>2. s = [k \in 1..Len(s) |-> s[k]]
      BY <2>1
    <2>3. s = [k \in 1..(n - 1) |-> m[k + 1]]
      BY <2>1, <2>2
    <2> QED
      BY <2>3 DEF s
  <1>7. ASSUME NEW k \in 1..(n - 1)
        PROVE  m[k + 1] = l[k]
    <2>1. k + 1 \in 1..n /\ (k + 1) - 1 = k
      BY <1>1
    <2>2. CASE k = i
      <3>1. Tail(q)[p] = q[p + 1]
        BY <1>1, <1>2
      <3> QED
        BY <1>4, <1>5, <2>1, <2>2, <3>1
    <2>3. CASE k \in (i + 1)..p
      <3>1. k + 1 \in (i + 2)..(p + 1) /\ k # i /\ k + 1 # i + 1
        BY <1>1, <2>3
      <3>2. k - 1 \in 1..(n - 1) /\ (k - 1) + 1 = k
        BY <1>1, <2>3
      <3>3. Tail(q)[k - 1] = q[k]
        BY <1>2, <3>2
      <3> QED
        BY <1>4, <1>5, <2>1, <2>3, <3>1, <3>3
    <2>4. CASE k # i /\ k \notin (i + 1)..p
      <3>1. k + 1 # i + 1 /\ k + 1 \notin (i + 2)..(p + 1)
        BY <1>1, <2>4
      <3> QED
        BY <1>2, <1>4, <1>5, <2>1, <2>4, <3>1
    <2> QED
      BY <2>2, <2>3, <2>4
  <1>8. l = [k \in 1..(n - 1) |-> l[k]]
    BY <1>5
  <1>9. Tail(m) = l
    BY <1>6, <1>7, <1>8
  <1> QED
    BY <1>9 DEF m, l

LEMMA RegroupStep ==
  ASSUME NEW q, TypeOK, TypeOK', MutualExclusion, MutualExclusion', QInv(q),
         NEW t \in Threads, Unlink(t)
  PROVE  Abs!Regroup
  <1>1. PICK j \in 1..Len(q) : \E i \in j..Len(q) : \E p \in (i + 1)..Len(q) :
           /\ q[j] = t /\ p + 1 < Len(q)
           /\ \A k \in (i + 1)..p : nid[q[k]] # nid[q[p + 1]]
           /\ QInv(Abs!MoveForward(q, i + 1, p + 1))'
    BY UnlinkStep, AqsAssumption
  <1>2. PICK i \in j..Len(q) : \E p \in (i + 1)..Len(q) :
           /\ q[j] = t /\ p + 1 < Len(q)
           /\ \A k \in (i + 1)..p : nid[q[k]] # nid[q[p + 1]]
           /\ QInv(Abs!MoveForward(q, i + 1, p + 1))'
    BY <1>1
  <1>3. PICK p \in (i + 1)..Len(q) :
           /\ q[j] = t /\ p + 1 < Len(q)
           /\ \A k \in (i + 1)..p : nid[q[k]] # nid[q[p + 1]]
           /\ QInv(Abs!MoveForward(q, i + 1, p + 1))'
    BY <1>2
  <1> DEFINE r == Abs!MoveForward(q, i + 1, p + 1)
  <1>4. /\ pc[t] = "unlink" /\ pc'[t] = "relink" /\ nid' = nid
        /\ \A u \in Threads \ {t} : pc'[u] = pc[u]
    BY DEF Unlink, Goto, TypeOK
  <1>5. Owner' = Owner
    BY <1>4, OwnerIs, OwnerNext DEF HoldPcs
  <1>6. q \in Seq(Threads) /\ Len(q) \in Nat /\ \A k \in 1..Len(q) : q[k] \in Threads
    BY DEF QInv, QueueOf
  <1>7. i \in 1..Len(q) /\ p \in 1..Len(q) /\ i < p /\ p < Len(q) /\ p + 1 \in 1..Len(q) /\ 1 \in 1..i
    BY <1>3, <1>6
  <1>8. r[1] = q[1] /\ Len(r) = Len(q)
    BY <1>6, <1>7, MovedNext DEF MovedTo
  <1>9. /\ WaitQueue = IF HeadHolds(q) THEN Tail(q) ELSE q
        /\ WaitQueue' = IF HeadHolds(r)' THEN Tail(r) ELSE r
    BY <1>3, WaitIs, WaitNext
  <1> HIDE DEF r
  <1>10. HeadHolds(r)' <=> HeadHolds(q)
    BY <1>4, <1>6, <1>7, <1>8 DEF HeadHolds, HoldPcs
  <1>11. CASE ~HeadHolds(q)
    <2>1. WaitQueue = q /\ WaitQueue' = Abs!MoveForward(q, i + 1, p + 1)
      BY <1>9, <1>10, <1>11 DEF r
    <2>2. /\ i + 1 \in 2..Len(q) /\ p + 1 \in 3..Len(q) /\ i + 1 < p + 1 /\ (p + 1) - 1 = p
      BY <1>6, <1>7
    <2> QED
      BY <1>3, <1>4, <1>5, <2>1, <2>2 DEF Abs!Regroup
  <1>12. CASE HeadHolds(q)
    <2>1. j # 1
      BY <1>3, <1>4, <1>12 DEF HeadHolds, HoldPcs
    <2>2. i \in 2..Len(q)
      BY <1>6, <2>1
    <2>3. WaitQueue' = Abs!MoveForward(Tail(q), i, p)
      BY <1>3, <1>6, <1>7, <1>9, <1>10, <1>12, <2>2, MoveBehind DEF r
    <2>4. WaitQueue = Tail(q)
      BY <1>9, <1>12
    <2>5. /\ Len(Tail(q)) = Len(q) - 1
          /\ \A k \in 1..(Len(q) - 1) : Tail(q)[k] = q[k + 1]
      BY <1>6, <1>7
    <2>6. i \in 2..(Len(q) - 1) /\ p \in 3..(Len(q) - 1) /\ i < p /\ p \in 1..(Len(q) - 1)
      BY <1>6, <1>7, <2>2
    <2>7. ASSUME NEW k \in i..(p - 1)
          PROVE  nid[Tail(q)[k]] # nid[Tail(q)[p]]
      <3>1. k \in 1..(Len(q) - 1) /\ k + 1 \in (i + 1)..p
        BY <1>6, <1>7
      <3>2. Tail(q)[k] = q[k + 1] /\ Tail(q)[p] = q[p + 1]
        BY <2>5, <2>6, <3>1
      <3> QED
        BY <1>3, <3>1, <3>2
    <2> QED
      BY <1>4, <1>5, <2>3, <2>4, <2>5, <2>6, <2>7 DEF Abs!Regroup
  <1> QED
    BY <1>11, <1>12

\* The steps that neither take nor leave the lock nor note a socket.
LEMMA QuietSteps ==
  ASSUME TypeOK, NEW t \in Threads, KeepsQueue(t),
         ~FastPath(t), ~TryLock(t), ~SlowPath(t), ~Acquire(t), ~Unlock(t)
  PROVE  nid' = nid /\ \A u \in Threads : pc'[u] \in HoldPcs <=> pc[u] \in HoldPcs
  <1>1. nid' = nid
    BY DEF KeepsQueue, LinkPrev, DisableStealing, CheckTurn, WaiterShuffle, CheckLocked, HeadShuffle,
      GetSuccessor, CasTail, EnableStealing, WaitSuccessor, PassLeadership, Scan, TailCheck, GetNext,
      Relink, Insert, Ready, Appoint, SetLastVisited, StartShuffle, nodeVars
  <1>2. PICK l : Goto(t, l) /\ (l \in HoldPcs <=> pc[t] \in HoldPcs)
    BY DEF KeepsQueue, LinkPrev, DisableStealing, CheckTurn, WaiterShuffle, CheckLocked, HeadShuffle,
      GetSuccessor, CasTail, EnableStealing, WaitSuccessor, PassLeadership, Scan, TailCheck, GetNext,
      Relink, Insert, Ready, Appoint, SetLastVisited, StartShuffle, Leave, Return, HoldPcs
  <1>3. pc'[t] = l /\ \A u \in Threads \ {t} : pc'[u] = pc[u]
    BY <1>2 DEF Goto, TypeOK
  <1> QED
    BY <1>1, <1>2, <1>3

\* A thread notes its socket before it swaps the tail.
Noted == \A t \in Threads : pc[t] = "swap" => nid[t] \in Sockets

LEMMA NextNoted ==
  ASSUME TypeOK, Noted, [Next]_vars
  PROVE  Noted'
  <1>1. CASE UNCHANGED vars
    BY <1>1 DEF Noted, vars, nodeVars
  <1>2. ASSUME NEW t \in Threads, pc'[t] # "swap",
               \A u \in Threads \ {t} : pc'[u] = pc[u] /\ nid'[u] = nid[u]
        PROVE  Noted'
    BY <1>2 DEF Noted
  <1>3. ASSUME NEW t \in Threads, SlowPath(t)
        PROVE  Noted'
    <2>1. Homes[t] \subseteq Sockets
      BY AqsAssumption
    <2>2. /\ nid'[t] \in Sockets
          /\ \A u \in Threads \ {t} : pc'[u] = pc[u] /\ nid'[u] = nid[u]
      BY <1>3, <2>1 DEF SlowPath, NodeReset, Goto, TypeOK
    <2> QED
      BY <2>2 DEF Noted
  <1>4. ASSUME NEW t \in Threads, FastPath(t) \/ TryLock(t) \/ Unlock(t) \/ Acquire(t) \/ SwapTail(t)
                                  \/ Unlink(t)
        PROVE  Noted'
    <2>1. /\ pc'[t] # "swap"
          /\ \A u \in Threads \ {t} : pc'[u] = pc[u] /\ nid'[u] = nid[u]
      BY <1>4 DEF FastPath, TryLock, Unlock, Acquire, SwapTail, Unlink, Goto, TypeOK, nodeVars
    <2> QED
      BY <1>2, <2>1
  <1>5. ASSUME NEW t \in Threads, Notify(t) \/ CasTail(t)
        PROVE  Noted'
    <2>1. /\ pc'[t] # "swap"
          /\ \A u \in Threads \ {t} : pc'[u] = pc[u] /\ nid'[u] = nid[u]
      BY <1>5 DEF Notify, CasTail, NodeReset, Goto, TypeOK, nodeVars
    <2> QED
      BY <1>2, <2>1
  <1>6. ASSUME NEW t \in Threads, KeepsQueue(t),
               ~FastPath(t), ~TryLock(t), ~SlowPath(t), ~Acquire(t), ~Unlock(t)
        PROVE  Noted'
    <2>1. nid' = nid
      BY <1>6, QuietSteps
    <2>2. PICK l : Goto(t, l) /\ l # "swap"
      BY <1>6 DEF KeepsQueue, LinkPrev, DisableStealing, CheckTurn, WaiterShuffle, CheckLocked, HeadShuffle,
        GetSuccessor, CasTail, EnableStealing, WaitSuccessor, PassLeadership, Scan, TailCheck, GetNext,
        Relink, Insert, Ready, Appoint, SetLastVisited, StartShuffle, Leave, Return
    <2>3. pc'[t] = l /\ \A u \in Threads \ {t} : pc'[u] = pc[u]
      BY <2>2 DEF Goto, TypeOK
    <2> QED
      BY <1>2, <2>1, <2>2, <2>3
  <1> QED
    BY <1>1, <1>3, <1>4, <1>5, <1>6, NextCases

LEMMA NextRefines ==
  ASSUME TypeOK, TypeOK', MutualExclusion, MutualExclusion', QueueInv, Noted, [Next]_vars
  PROVE  [Abs!Next]_(Abs!vars)
  <1>1. NULL \notin Threads
    BY AqsAssumption
  <1>2. PICK q \in Seq(Threads) : QInv(q)
    BY DEF QueueInv
  <1>3. CASE UNCHANGED vars
    <2>1. QInv(q)'
      BY <1>2, <1>3, IdleStep
    <2>2. pc' = pc /\ nid' = nid
      BY <1>3 DEF vars, nodeVars
    <2>3. \A u \in Threads : pc'[u] \in HoldPcs <=> pc[u] \in HoldPcs
      BY <2>2
    <2> QED
      BY <1>2, <2>1, <2>2, <2>3, StutterStep
  <1>4. ASSUME NEW t \in Threads, KeepsQueue(t)
        PROVE  [Abs!Next]_(Abs!vars)
    <2>1. QInv(q)'
      BY <1>1, <1>2, <1>4, KeptStep
    <2>2. CASE FastPath(t) \/ TryLock(t)
      <3>1. Abs!Steal
        BY <1>2, <2>1, <2>2, StealStep
      <3> QED
        BY <3>1 DEF Abs!Next
    <2>3. CASE SlowPath(t)
      <3>1. Abs!Note \/ UNCHANGED Abs!vars
        BY <1>2, <2>1, <2>3, NoteStep
      <3> QED
        BY <3>1 DEF Abs!Next
    <2>4. CASE Acquire(t)
      <3>1. Abs!Grant
        BY <1>2, <2>1, <2>4, GrantStep
      <3> QED
        BY <3>1 DEF Abs!Next
    <2>5. CASE Unlock(t)
      <3>1. Abs!Release
        BY <1>2, <2>1, <2>5, ReleaseStep
      <3> QED
        BY <3>1 DEF Abs!Next
    <2>6. CASE ~FastPath(t) /\ ~TryLock(t) /\ ~SlowPath(t) /\ ~Acquire(t) /\ ~Unlock(t)
      <3>1. nid' = nid /\ \A u \in Threads : pc'[u] \in HoldPcs <=> pc[u] \in HoldPcs
        BY <1>4, <2>6, QuietSteps
      <3>2. UNCHANGED Abs!vars
        BY <1>2, <2>1, <3>1, StutterStep
      <3> QED
        BY <3>2
    <2> QED
      BY <2>2, <2>3, <2>4, <2>5, <2>6
  <1>5. ASSUME NEW t \in Threads, SwapTail(t)
        PROVE  [Abs!Next]_(Abs!vars)
    <2>1. QInv(Append(q, t))'
      BY <1>1, <1>2, <1>5, SwapStep
    <2>2. nid[t] \in Sockets
      BY <1>5 DEF Noted, SwapTail
    <2>3. Abs!Enqueue
      BY <1>2, <1>5, <2>1, <2>2, EnqueueStep
    <2> QED
      BY <2>3 DEF Abs!Next
  <1>6. ASSUME NEW t \in Threads, Unlink(t)
        PROVE  [Abs!Next]_(Abs!vars)
    <2>1. Abs!Regroup
      BY <1>2, <1>6, RegroupStep
    <2> QED
      BY <2>1 DEF Abs!Next
  <1>7. ASSUME NEW t \in Threads, Notify(t) \/ (CasTail(t) /\ tail = t)
        PROVE  [Abs!Next]_(Abs!vars)
    <2>1. /\ pc[t] \in HoldPcs /\ pc'[t] \in HoldPcs \ QueuedPcs
          /\ \A u \in Threads \ {t} : pc'[u] = pc[u]
          /\ nid' = [nid EXCEPT ![t] = NULL]
      BY <1>7 DEF Notify, CasTail, NodeReset, Goto, TypeOK, HoldPcs, QueuedPcs, ShufflePcs
    <2>2. Len(q) # 0 /\ q[1] = t /\ \E r : r = Tail(q) /\ QInv(r)'
      <3>1. CASE Notify(t)
        <4>1. q # << >> /\ q[1] = t /\ QInv(Tail(q))'
          BY <1>1, <1>2, <3>1, NotifyStep
        <4>2. Len(q) # 0 /\ q[1] = t
          BY <4>1
        <4>3. \E r : r = Tail(q) /\ QInv(r)'
          BY <4>1
        <4> QED
          BY <4>2, <4>3
      <3>2. CASE CasTail(t) /\ tail = t
        <4>1. Len(q) = 1 /\ q[1] = t /\ QInv(<< >>)'
          BY <1>1, <1>2, <3>2, EmptyStep
        <4>2. << >> = Tail(q)
          BY <4>1
        <4>3. Len(q) # 0 /\ q[1] = t
          BY <4>1
        <4>4. \E r : r = Tail(q) /\ QInv(r)'
          BY <4>1, <4>2
        <4> QED
          BY <4>3, <4>4
      <3> QED
        BY <1>7, <3>1, <3>2
    <2>3. Abs!Forget \/ UNCHANGED Abs!vars
      BY <1>2, <2>1, <2>2, ForgetStep
    <2> QED
      BY <2>3 DEF Abs!Next
  <1> QED
    BY <1>3, <1>4, <1>5, <1>6, <1>7, NextCases

LEMMA InitRefines == Init => Abs!Init
  <1> SUFFICES ASSUME Init
               PROVE  Abs!Init
    OBVIOUS
  <1>1. \A t \in Threads : pc[t] \notin HoldPcs
    BY DEF Init, HoldPcs
  <1>2. Owner = NULL
    BY <1>1 DEF Owner, Holders
  <1>3. TypeOK /\ QInv(<< >>)
    BY InitTypeInv, InitQueueInv DEF TypeInv
  <1>4. WaitQueue = << >>
    BY <1>3, WaitIs DEF HeadHolds
  <1> QED
    BY <1>2, <1>4 DEF Abs!Init, Init

\* The lock implements the abstract shuffled queue: whatever the interleaving of
\* enqueuing, shuffling, stealing and handing over, each step is one of ShflQueue's or
\* changes neither the owner nor the queue.
THEOREM RefinementCorrect == Spec => Refinement
  <1>1. Init => Noted
    BY DEF Init, Noted
  <1>2. TypeOK /\ Noted /\ [Next]_vars => Noted'
    BY NextNoted
  <1>3. TypeOK /\ TypeOK' /\ MutualExclusion /\ MutualExclusion' /\ QueueInv /\ Noted /\ [Next]_vars
          => [Abs!Next]_(Abs!vars)
    BY NextRefines
  <1> QED
    BY InitRefines, <1>1, <1>2, <1>3, MutexCorrect, QueueInvariant, PTL DEF Spec, Refinement, Abs!Spec

-----------------------------------------------------------------------------
(* What the abstract queue gives its waiters.                                *)

\* A thread waits at most once: without it a waiter could leave the front
\* and still be ahead, and neither property below would be preserved.
AbsQueueInv ==
  /\ WaitQueue \in Seq(Threads)
  /\ \A i, j \in 1..Len(WaitQueue) : WaitQueue[i] = WaitQueue[j] => i = j

\* Where the element at position k of MoveForward(q, i, j) stood in q.
Source(i, j, k) == IF k = i THEN j ELSE IF k \in (i + 1)..j THEN k - 1 ELSE k

\* MoveForward permutes the positions.
LEMMA MoveForwardType ==
  ASSUME NEW q \in Seq(Threads), NEW i \in 2..Len(q), NEW j \in 3..Len(q), i < j
  PROVE  /\ Abs!MoveForward(q, i, j) \in Seq(Threads)
         /\ Len(Abs!MoveForward(q, i, j)) = Len(q)
         /\ \A k \in 1..Len(q) : /\ Source(i, j, k) \in 1..Len(q)
                                 /\ Abs!MoveForward(q, i, j)[k] = q[Source(i, j, k)]
         /\ \A k, l \in 1..Len(q) : Source(i, j, k) = Source(i, j, l) => k = l
  <1> DEFINE m == Abs!MoveForward(q, i, j)
  <1>0. Len(q) \in Nat /\ DOMAIN q = 1..Len(q)
    OBVIOUS
  <1>1. \A k \in 1..Len(q) : Source(i, j, k) \in 1..Len(q)
    BY <1>0 DEF Source
  <1>2. m = [k \in 1..Len(q) |-> q[Source(i, j, k)]]
    BY <1>0 DEF Abs!MoveForward, Source
  <1>3. m \in [1..Len(q) -> Threads]
    BY <1>0, <1>1, <1>2
  <1>4. m \in Seq(Threads) /\ Len(m) = Len(q)
    BY <1>0, <1>3
  <1>5. \A k, l \in 1..Len(q) : Source(i, j, k) = Source(i, j, l) => k = l
    BY <1>0 DEF Source
  <1> QED
    BY <1>1, <1>2, <1>4, <1>5

\* Two positions whose order MoveForward changes: the later one moved, over
\* the earlier one.
LEMMA MoveForwardOrder ==
  ASSUME NEW i \in Nat, NEW j \in Nat, NEW k \in Nat, NEW l \in Nat,
         i < j, k < l, Source(i, j, l) < Source(i, j, k)
  PROVE  Source(i, j, k) = j /\ Source(i, j, l) \in i..(j - 1)
  BY DEF Source

LEMMA InitAbsQueueInv == Abs!Init => AbsQueueInv
  BY DEF Abs!Init, AbsQueueInv

LEMMA NextAbsQueueInv ==
  ASSUME AbsQueueInv, [Abs!Next]_(Abs!vars)
  PROVE  AbsQueueInv'
  <1> USE DEF AbsQueueInv
  <1>1. CASE UNCHANGED WaitQueue
    BY <1>1
  <1>2. CASE Abs!Enqueue
    BY <1>2 DEF Abs!Enqueue, Abs!Outside, Abs!Waiting
  <1>3. CASE Abs!Grant
    BY <1>3 DEF Abs!Grant
  <1>4. CASE Abs!Regroup
    <2>1. PICK i \in 2..Len(WaitQueue), j \in 3..Len(WaitQueue) :
            i < j /\ WaitQueue' = Abs!MoveForward(WaitQueue, i, j)
      BY <1>4 DEF Abs!Regroup
    <2>2. /\ WaitQueue' \in Seq(Threads) /\ Len(WaitQueue') = Len(WaitQueue)
          /\ \A k \in 1..Len(WaitQueue) : /\ Source(i, j, k) \in 1..Len(WaitQueue)
                                          /\ WaitQueue'[k] = WaitQueue[Source(i, j, k)]
          /\ \A k, l \in 1..Len(WaitQueue) : Source(i, j, k) = Source(i, j, l) => k = l
      BY <2>1, MoveForwardType
    <2> QED
      BY <2>2
  <1> QED
    BY <1>1, <1>2, <1>3, <1>4 DEF Abs!Next, Abs!Steal, Abs!Note, Abs!Forget, Abs!Release, Abs!vars

\* A step keeps the waiters of each socket in order.
LEMMA NextSameOrder ==
  ASSUME AbsQueueInv, [Abs!Next]_(Abs!vars), WaitQueue # WaitQueue'
  PROVE  Abs!SameOrder(WaitQueue, WaitQueue')
  <1> USE DEF AbsQueueInv
  <1>1. CASE Abs!Enqueue
    BY <1>1 DEF Abs!Enqueue, Abs!Outside, Abs!Waiting, Abs!SameOrder, Abs!Before
  <1>2. CASE Abs!Grant
    <2>1. /\ Len(WaitQueue) \in Nat /\ Len(WaitQueue') = Len(WaitQueue) - 1
          /\ \A k \in 1..Len(WaitQueue') : k + 1 \in 1..Len(WaitQueue) /\ WaitQueue'[k] = WaitQueue[k + 1]
      BY <1>2 DEF Abs!Grant
    <2>2. DOMAIN WaitQueue = 1..Len(WaitQueue) /\ DOMAIN WaitQueue' = 1..Len(WaitQueue')
      BY <1>2 DEF Abs!Grant
    <2>3. SUFFICES ASSUME NEW t \in Threads, NEW u \in Threads,
                          Abs!Before(WaitQueue, t, u), Abs!Before(WaitQueue', u, t)
                   PROVE  FALSE
      BY DEF Abs!SameOrder
    <2>4. PICK p \in 1..Len(WaitQueue), r \in 1..Len(WaitQueue) :
            p < r /\ WaitQueue[p] = t /\ WaitQueue[r] = u
      BY <2>2, <2>3 DEF Abs!Before
    <2>5. PICK k \in 1..Len(WaitQueue'), l \in 1..Len(WaitQueue') :
            k < l /\ WaitQueue'[k] = u /\ WaitQueue'[l] = t
      BY <2>2, <2>3 DEF Abs!Before
    <2>6. k + 1 = r /\ l + 1 = p
      BY <2>1, <2>4, <2>5
    <2> QED
      BY <2>1, <2>4, <2>5, <2>6
  <1>3. CASE Abs!Regroup
    <2>1. PICK i \in 2..Len(WaitQueue), j \in 3..Len(WaitQueue) :
            /\ i < j
            /\ \A k \in i..(j - 1) : nid[WaitQueue[k]] # nid[WaitQueue[j]]
            /\ WaitQueue' = Abs!MoveForward(WaitQueue, i, j)
      BY <1>3 DEF Abs!Regroup
    <2>2. /\ Len(WaitQueue) \in Nat /\ Len(WaitQueue') = Len(WaitQueue)
          /\ WaitQueue \in Seq(Threads) /\ WaitQueue' \in Seq(Threads)
          /\ \A k \in 1..Len(WaitQueue) : /\ Source(i, j, k) \in 1..Len(WaitQueue)
                                          /\ WaitQueue'[k] = WaitQueue[Source(i, j, k)]
      <3>1. PICK q \in Seq(Threads) : q = WaitQueue
        OBVIOUS
      <3>2. WaitQueue' = Abs!MoveForward(q, i, j) /\ i \in 2..Len(q) /\ j \in 3..Len(q) /\ i < j
        BY <2>1, <3>1
      <3> QED
        BY <3>1, <3>2, MoveForwardType
    <2>3. SUFFICES ASSUME NEW t \in Threads, NEW u \in Threads, nid[t] = nid[u],
                          Abs!Before(WaitQueue, t, u), Abs!Before(WaitQueue', u, t)
                   PROVE  FALSE
      BY DEF Abs!SameOrder
    <2>4. PICK p \in 1..Len(WaitQueue), r \in 1..Len(WaitQueue) :
            p < r /\ WaitQueue[p] = t /\ WaitQueue[r] = u
      BY <2>2, <2>3 DEF Abs!Before
    <2>5. PICK k \in 1..Len(WaitQueue), l \in 1..Len(WaitQueue) :
            k < l /\ WaitQueue'[k] = u /\ WaitQueue'[l] = t
      <3>1. DOMAIN WaitQueue' = 1..Len(WaitQueue)
        BY <2>2
      <3> QED
        BY <2>3, <3>1 DEF Abs!Before
    <2>6. Source(i, j, k) = r /\ Source(i, j, l) = p
      BY <2>2, <2>4, <2>5
    <2>7. r = j /\ p \in i..(j - 1)
      <3>1. i \in Nat /\ j \in Nat /\ k \in Nat /\ l \in Nat
        BY <2>2
      <3> QED
        BY <2>1, <2>4, <2>5, <2>6, <3>1, MoveForwardOrder
    <2> QED
      BY <2>1, <2>3, <2>4, <2>7
  <1> QED
    BY <1>1, <1>2, <1>3 DEF Abs!Next, Abs!Steal, Abs!Note, Abs!Forget, Abs!Release, Abs!vars

\* Two waiters of a socket are never reordered: first come, first served
\* within a socket, whatever the shuffling and the stealing.
THEOREM SocketFifoCorrect == Abs!Spec => Abs!SocketFifo
  <1>1. AbsQueueInv /\ [Abs!Next]_(Abs!vars) => AbsQueueInv'
    BY NextAbsQueueInv
  <1>2. AbsQueueInv /\ [Abs!Next]_(Abs!vars) =>
          [\A q \in {WaitQueue}, r \in {WaitQueue'} : q = r \/ Abs!SameOrder(q, r)]_(Abs!vars)
    BY NextSameOrder
  <1> QED
    BY InitAbsQueueInv, <1>1, <1>2, PTL DEF Abs!Spec, Abs!SocketFifo

\* The front waiter leaves the queue only with the lock in its hands.
THEOREM FrontKeptCorrect == Abs!Spec => Abs!FrontKept
  <1>1. AbsQueueInv /\ [Abs!Next]_(Abs!vars) => AbsQueueInv'
    BY NextAbsQueueInv
  <1>2. ASSUME AbsQueueInv, [Abs!Next]_(Abs!vars), WaitQueue # <<>>,
               WaitQueue' = <<>> \/ Head(WaitQueue') # Head(WaitQueue)
        PROVE  (Owner = NULL /\ Owner' = Head(WaitQueue)) \/ UNCHANGED Abs!vars
    <2> USE <1>2 DEF AbsQueueInv
    <2>1. CASE Abs!Enqueue
      BY <2>1 DEF Abs!Enqueue
    <2>2. CASE Abs!Grant
      BY <2>2 DEF Abs!Grant
    <2>3. CASE Abs!Regroup
      <3>1. PICK i \in 2..Len(WaitQueue), j \in 3..Len(WaitQueue) :
              i < j /\ WaitQueue' = Abs!MoveForward(WaitQueue, i, j)
        BY <2>3 DEF Abs!Regroup
      <3>2. /\ Len(WaitQueue) \in Nat /\ Len(WaitQueue') = Len(WaitQueue) /\ WaitQueue' \in Seq(Threads)
            /\ WaitQueue'[1] = WaitQueue[Source(i, j, 1)]
        BY <3>1, MoveForwardType
      <3>3. Source(i, j, 1) = 1
        BY <3>1, <3>2 DEF Source
      <3> QED
        BY <3>1, <3>2, <3>3
    <2> QED
      BY <2>1, <2>2, <2>3 DEF Abs!Next, Abs!Steal, Abs!Note, Abs!Forget, Abs!Release, Abs!vars
  <1>3. AbsQueueInv /\ [Abs!Next]_(Abs!vars) =>
          [WaitQueue # <<>> /\ (WaitQueue' = <<>> \/ Head(WaitQueue') # Head(WaitQueue))
             => Owner = NULL /\ Owner' = Head(WaitQueue)]_(Abs!vars)
    BY <1>2 DEF Abs!vars
  <1> QED
    BY InitAbsQueueInv, <1>1, <1>3, PTL DEF Abs!Spec, Abs!FrontKept

\* Two waiters of a socket are served in the order they enqueued in, although
\* successive leaders resume each other's half-done shuffling.
THEOREM SameSocketFifoCorrect == Spec => SameSocketFifo
  BY RefinementCorrect, SocketFifoCorrect DEF Refinement, SameSocketFifo
=============================================================================
