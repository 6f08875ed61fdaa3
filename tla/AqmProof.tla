------------------------------ MODULE AqmProof ------------------------------
(***************************************************************************)
(* Theorems about Aqm for any number of threads and sockets: the types of  *)
(* its variables, mutual exclusion, the invariant of its waiting queue, the*)
(* parking and waking of the threads on it, and what follows: the          *)
(* properties of Aqm that are stated with QueueOrder, no lost wake-up, and *)
(* that it implements ShflQueue.                                           *)
(***************************************************************************)
EXTENDS Aqm, TLAPS, FiniteSetTheorems, FunctionTheorems, WellFoundedInduction

\* The program points of shuffle_waiters at which its locals are set.
LoopPcs == ShufflePcs \ {"pass", "appoint"}

(***************************************************************************)
(* TypeOK alone is not inductive: Scan, GetNext and Relink read the next   *)
(* field of a local of shuffle_waiters, whose type follows only if that    *)
(* local is a node.                                                        *)
(***************************************************************************)
FrameOK ==
  \A t \in Threads :
    /\ pc[t] \in LoopPcs => sh[t].prev \in Threads /\ sh[t].last \in Threads
    /\ pc[t] \in LoopPcs \ {"scan", "ready"} => sh[t].curr \in Threads

TypeInv == TypeOK /\ FrameOK

\* The initial state is well typed.
LEMMA InitTypeInv == Init => TypeInv
  BY AqmAssumption
  DEF Init, aqm_mutex_create, TypeInv, TypeOK, FrameOK, Ptr, Frame, NoFrame, Pcs, LoopPcs, ShufflePcs,
      PARKED, PWAIT, LOCKED, UNPWAIT

\* Storing a frame leaves the other threads' frames alone.
LEMMA FrameStep ==
  ASSUME TypeInv, NEW t \in Threads, NEW f \in Frame, NEW l \in Pcs,
         sh' = [sh EXCEPT ![t] = f], Goto(t, l),
         l \in LoopPcs => f.prev \in Threads /\ f.last \in Threads,
         l \in LoopPcs \ {"scan", "ready"} => f.curr \in Threads
  PROVE  /\ sh' \in [Threads -> Frame]
         /\ pc' \in [Threads -> Pcs]
         /\ FrameOK'
  <1>1. sh \in [Threads -> Frame] /\ pc \in [Threads -> Pcs]
    BY DEF TypeInv, TypeOK
  <1>2. sh' \in [Threads -> Frame] /\ pc' \in [Threads -> Pcs]
    BY <1>1 DEF Goto
  <1>3. sh'[t] = f /\ pc'[t] = l
    BY <1>1 DEF Goto
  <1>4. \A u \in Threads \ {t} : sh'[u] = sh[u] /\ pc'[u] = pc[u]
    BY <1>1 DEF Goto
  <1>5. FrameOK'
    BY <1>3, <1>4 DEF FrameOK, TypeInv
  <1> QED
    BY <1>2, <1>5

\* A step inside the loop that does not touch the frame.
LEMMA SameFrame ==
  ASSUME TypeInv, NEW t \in Threads, NEW l \in Pcs, Goto(t, l), UNCHANGED sh, pc[t] \in LoopPcs,
         pc[t] \in {"scan", "ready"} => l \in {"scan", "ready"}
  PROVE  /\ sh' \in [Threads -> Frame]
         /\ pc' \in [Threads -> Pcs]
         /\ FrameOK'
  <1>1. sh' = [sh EXCEPT ![t] = sh[t]] /\ sh[t] \in Frame
    BY DEF TypeInv, TypeOK
  <1> QED
    BY <1>1, FrameStep DEF TypeInv, FrameOK

\* Leaving the loop for the appointment of the next leader keeps the types.
LEMMA LeaveStep ==
  ASSUME TypeInv, NEW t \in Threads, Leave(t)
  PROVE  /\ sh' \in [Threads -> Frame]
         /\ pc' \in [Threads -> Pcs]
         /\ FrameOK'
  <1> DEFINE f == [sh[t] EXCEPT !.leader = sh[t].last]
  <1>1. sh[t] \in Frame
    BY DEF TypeInv, TypeOK
  <1>2. f \in Frame
    BY <1>1 DEF Frame
  <1>3. sh' = [sh EXCEPT ![t] = f] /\ Goto(t, "appoint")
    BY DEF Leave
  <1> HIDE DEF f
  <1> QED
    BY <1>2, <1>3, FrameStep, "appoint" \in Pcs, "appoint" \notin LoopPcs
    DEF Pcs, QueuedPcs, ShufflePcs, LoopPcs

\* Returning from shuffle_waiters keeps the types.
LEMMA ReturnStep ==
  ASSUME TypeInv, NEW t \in Threads, Return(t)
  PROVE  /\ sh' \in [Threads -> Frame]
         /\ pc' \in [Threads -> Pcs]
         /\ FrameOK'
  <1>1. NoFrame \in Frame
    BY DEF NoFrame, Frame, Ptr
  <1>2. PICK l \in {"head", "spin"} : Goto(t, l)
    BY DEF Return
  <1>3. l \in Pcs /\ l \notin LoopPcs
    BY DEF Pcs, QueuedPcs, LoopPcs, ShufflePcs
  <1> QED
    BY <1>1, <1>2, <1>3, FrameStep DEF Return

\* A step that leaves the frames alone and moves the program counter
\* elsewhere than into the loop of shuffle_waiters.
LEMMA PcStep ==
  ASSUME TypeInv, NEW t \in Threads, NEW l \in Pcs \ LoopPcs, Goto(t, l), UNCHANGED sh
  PROVE  /\ sh' \in [Threads -> Frame]
         /\ pc' \in [Threads -> Pcs]
         /\ FrameOK'
  <1>1. sh \in [Threads -> Frame] /\ pc \in [Threads -> Pcs]
    BY DEF TypeInv, TypeOK
  <1>2. sh' \in [Threads -> Frame] /\ pc' \in [Threads -> Pcs]
    BY <1>1 DEF Goto
  <1>3. pc'[t] = l /\ \A u \in Threads \ {t} : pc'[u] = pc[u]
    BY <1>1 DEF Goto
  <1>4. FrameOK'
    BY <1>3 DEF FrameOK, TypeInv
  <1> QED
    BY <1>2, <1>4

\* Entering shuffle_waiters keeps the types.
LEMMA StartStep ==
  ASSUME TypeInv, NEW t \in Threads, NEW b \in {0, 1}, StartShuffle(t, b),
         should_park' \in [Threads -> {0, 1}]
  PROVE  TypeInv'
  <1> DEFINE f == [NoFrame EXCEPT !.prev = t, !.last = t, !.is_next_waiter = b]
  <1>1. f \in Frame /\ f.prev \in Threads /\ f.last \in Threads
    BY DEF NoFrame, Frame, Ptr
  <1>2. sh' = [sh EXCEPT ![t] = f]
    BY DEF StartShuffle
  <1>3. PICK l \in {"scan", "pass"} : Goto(t, l)
    BY DEF StartShuffle
  <1>4. l \in Pcs /\ l \notin LoopPcs \ {"scan", "ready"}
    BY DEF Pcs, QueuedPcs, ShufflePcs, LoopPcs
  <1> HIDE DEF f
  <1>5. sh' \in [Threads -> Frame] /\ pc' \in [Threads -> Pcs] /\ FrameOK'
    BY <1>1, <1>2, <1>3, <1>4, FrameStep
  <1> QED
    BY <1>5 DEF StartShuffle, TypeInv, TypeOK, lockVars

\* FutexWake moves t on, and at most one other thread, which it wakes.
LEMMA WakeUpdate ==
  ASSUME pc \in [Threads -> Pcs], NEW t \in Threads, NEW u, NEW l \in Pcs,
         pc' = [pc EXCEPT ![t] = l, ![u] = IF @ = "asleep" THEN "awake" ELSE @]
  PROVE  /\ pc' \in [Threads -> Pcs] /\ pc'[t] \in {l, "awake"}
         /\ \A v \in Threads \ {t} : pc'[v] \in {pc[v], "awake"}
  <1>1. "awake" \in Pcs
    BY DEF Pcs, QueuedPcs, ParkPcs
  <1>2. \A v \in Threads \ {t} : pc'[v] \in {pc[v], "awake"}
    OBVIOUS
  <1>3. pc'[t] \in {l, "awake"}
    OBVIOUS
  <1> QED
    BY <1>1, <1>2, <1>3

\* Every action preserves the types.
LEMMA NextTypeInv ==
  ASSUME TypeInv, [Next]_vars
  PROVE  TypeInv'
  <1> USE AqmAssumption
  <1>0. CASE UNCHANGED vars
    BY <1>0 DEF vars, lockVars, nodeVars, TypeInv, TypeOK, FrameOK
  <1>n. ASSUME NEW t \in Threads,
               \/ FastPath(t) \/ SlowPath(t) \/ InLock(t) \/ Shuffle(t)
               \/ Interrupt(t) \/ Unlock(t)
        PROVE  TypeInv'
    <2> USE DEF TypeInv, TypeOK, Ptr, Pcs, QueuedPcs, HoldPcs, ShufflePcs, ParkPcs, LoopPcs,
                lockVars, nodeVars, PARKED, PWAIT, LOCKED, UNPWAIT
    <2>1. CASE FastPath(t)
      BY <1>n, <2>1, PcStep DEF FastPath
    <2>2. CASE SlowPath(t)
      BY <1>n, <2>2, PcStep DEF SlowPath, NodeReset
    <2>3. CASE SwapTail(t)
      BY <1>n, <2>3, PcStep DEF SwapTail
    <2>4. CASE LinkPrev(t)
      BY <1>n, <2>4, PcStep DEF LinkPrev
    <2>5. CASE Spin(t)
      <3>1. CASE StartShuffle(t, 0)
        BY <1>n, <2>5, <3>1, StartStep DEF Spin
      <3>2. CASE (Goto(t, "head") \/ Goto(t, "park")) /\ UNCHANGED <<lockVars, nodeVars, peer, should_park, sh>>
        BY <1>n, <3>2, PcStep
      <3> QED
        BY <2>5, <3>1, <3>2 DEF Spin
    <2>6. CASE Park(t)
      BY <1>n, <2>6, PcStep DEF Park
    <2>7. CASE Sleep(t)
      BY <1>n, <2>7, PcStep DEF Sleep
    <2>8. CASE FutexWait(t)
      BY <1>n, <2>8, PcStep DEF FutexWait
    <2>9. CASE Awake(t)
      BY <1>n, <2>9, PcStep DEF Awake
    <2>10. CASE Interrupt(t)
      BY <1>n, <2>10, PcStep DEF Interrupt
    <2>11. CASE DisableStealing(t)
      BY <1>n, <2>11, PcStep DEF DisableStealing
    <2>12. CASE AwaitFree(t)
      BY <1>n, <2>12, PcStep DEF AwaitFree
    <2>13. CASE Acquire(t)
      BY <1>n, <2>13, PcStep DEF Acquire
    <2>14. CASE GetSuccessor(t)
      BY <1>n, <2>14, PcStep DEF GetSuccessor
    <2>15. CASE CasTail(t)
      BY <1>n, <2>15, PcStep, SMTT(30) DEF CasTail, NodeReset
    <2>16. CASE EnableStealing(t)
      BY <1>n, <2>16, PcStep DEF EnableStealing
    <2>17. CASE WaitSuccessor(t)
      BY <1>n, <2>17, PcStep DEF WaitSuccessor
    <2>18. CASE Notify(t)
      BY <1>n, <2>18, PcStep DEF Notify
    <2>19. CASE Unlock(t)
      BY <1>n, <2>19, PcStep DEF Unlock
    <2>20. CASE HeadShuffle(t)
      <3>1. CASE StartShuffle(t, 1)
        BY <1>n, <2>20, <3>1, StartStep DEF HeadShuffle, StartShuffle
      <3>2. CASE Goto(t, "steal") /\ UNCHANGED <<lockVars, nodeVars, peer, should_park, sh>>
        BY <1>n, <3>2, PcStep
      <3> QED
        BY <2>20, <3>1, <3>2 DEF HeadShuffle
    <2>21. CASE SetPstate(t)
      <3>1. CASE pc[t] = "swake"
        BY <1>n, <2>21, <3>1, SameFrame DEF SetPstate
      <3>2. CASE pc[t] = "hwake"
        BY <1>n, <2>21, <3>2, PcStep DEF SetPstate
      <3> QED
        BY <2>21, <3>1, <3>2 DEF SetPstate
    <2>22. CASE FutexWake(t)
      <3> DEFINE u == Wakee(t)
                 l == IF pc[t] = "sfutex" THEN "mark" ELSE "cs"
      <3>1. pc' = [pc EXCEPT ![t] = l, ![u] = IF @ = "asleep" THEN "awake" ELSE @]
        BY <2>22 DEF FutexWake
      <3>2. l \in Pcs /\ (l \in LoopPcs => pc[t] = "sfutex" /\ l = "mark")
        BY <2>22 DEF FutexWake
      <3> HIDE DEF u, l
      <3>3. /\ pc' \in [Threads -> Pcs] /\ pc'[t] \in {l, "awake"}
            /\ \A v \in Threads \ {t} : pc'[v] \in {pc[v], "awake"}
        BY <1>n, <3>1, <3>2, WakeUpdate
      <3>4. FrameOK'
        BY <1>n, <2>22, <3>2, <3>3 DEF FutexWake, FrameOK
      <3> QED
        BY <1>n, <2>22, <3>3, <3>4 DEF FutexWake
    <2>23. CASE PassLeadership(t)
      <3>1. CASE next[t] = NULL
        BY <1>n, <2>23, <3>1, ReturnStep DEF PassLeadership
      <3>2. CASE next[t] # NULL
        <4> DEFINE f == [sh[t] EXCEPT !.leader = next[t]]
        <4>1. f \in Frame
          BY <1>n DEF Frame
        <4>2. sh' = [sh EXCEPT ![t] = f] /\ Goto(t, "appoint")
          BY <2>23, <3>2 DEF PassLeadership
        <4> QED
          BY <1>n, <2>23, <4>1, <4>2, FrameStep DEF PassLeadership
      <3> QED
        BY <3>1, <3>2
    <2>24. CASE Scan(t)
      <3>1. sh[t].prev \in Threads /\ sh[t].last \in Threads
        BY <1>n, <2>24 DEF Scan, FrameOK
      <3>2. next[sh[t].prev] \in Ptr
        BY <3>1
      <3>3. CASE next[sh[t].prev] = NULL
        BY <1>n, <2>24, <3>3, LeaveStep DEF Scan
      <3>4. CASE next[sh[t].prev] # NULL
        <4> DEFINE f == [sh[t] EXCEPT !.curr = next[sh[t].prev]]
        <4>1. f \in Frame /\ f.curr \in Threads
              /\ f.prev \in Threads /\ f.last \in Threads
          BY <1>n, <3>1, <3>2, <3>4 DEF Frame
        <4>2. sh' = [sh EXCEPT ![t] = f] /\ Goto(t, "tailcheck")
          BY <2>24, <3>4 DEF Scan
        <4> HIDE DEF f
        <4>3. sh' \in [Threads -> Frame] /\ pc' \in [Threads -> Pcs] /\ FrameOK'
          BY <1>n, <4>1, <4>2, FrameStep
        <4> QED
          BY <2>24, <4>3 DEF Scan
      <3> QED
        BY <3>3, <3>4
    <2>25. CASE TailCheck(t)
      <3> DEFINE c == sh[t].curr
      <3>1. sh[t].prev \in Threads /\ sh[t].last \in Threads /\ c \in Threads
        BY <1>n, <2>25 DEF TailCheck, FrameOK
      <3>2. sh' \in [Threads -> Frame] /\ pc' \in [Threads -> Pcs] /\ FrameOK'
        <4>1. CASE Leave(t)
          BY <1>n, <4>1, LeaveStep
        <4>2. CASE sh' = [sh EXCEPT ![t].prev = c] /\ Goto(t, "ready")
          <5> DEFINE f == [sh[t] EXCEPT !.prev = c]
          <5>1. f \in Frame /\ f.prev \in Threads /\ f.last \in Threads
            BY <1>n, <3>1 DEF Frame
          <5>2. sh' = [sh EXCEPT ![t] = f]
            BY <4>2
          <5> HIDE DEF f
          <5> QED
            BY <1>n, <4>2, <5>1, <5>2, FrameStep
        <4>3. CASE UNCHANGED sh /\ (Goto(t, "unpark") \/ Goto(t, "getnext"))
          BY <1>n, <2>25, <4>3, SameFrame DEF TailCheck
        <4> QED
          BY <2>25, <4>1, <4>2, <4>3 DEF TailCheck
      <3> QED
        BY <2>25, <3>2 DEF TailCheck
    <2>26. CASE GetNext(t)
      <3>1. sh[t].prev \in Threads /\ sh[t].last \in Threads /\ sh[t].curr \in Threads
        BY <1>n, <2>26 DEF GetNext, FrameOK
      <3>2. CASE next[sh[t].curr] = NULL
        BY <1>n, <2>26, <3>2, LeaveStep DEF GetNext
      <3>3. CASE next[sh[t].curr] # NULL
        <4> DEFINE f == [sh[t] EXCEPT !.nxt = next[sh[t].curr]]
        <4>1. f \in Frame /\ f.prev \in Threads /\ f.last \in Threads /\ f.curr \in Threads
          BY <1>n, <3>1 DEF Frame
        <4>2. sh' = [sh EXCEPT ![t] = f] /\ Goto(t, "unpark")
          BY <2>26, <3>3 DEF GetNext
        <4> HIDE DEF f
        <4>3. sh' \in [Threads -> Frame] /\ pc' \in [Threads -> Pcs] /\ FrameOK'
          BY <1>n, <4>1, <4>2, FrameStep
        <4> QED
          BY <1>n, <2>26, <3>3, <4>3 DEF GetNext
      <3> QED
        BY <3>2, <3>3
    <2>27. CASE Unpark(t)
      BY <1>n, <2>27, SameFrame DEF Unpark
    <2>28. CASE Mark(t)
      <3> DEFINE f == [sh[t] EXCEPT !.last = sh[t].curr, !.prev = sh[t].curr, !.one_shuffle = 1]
      <3>0. sh[t] \in Frame /\ sh[t].curr \in Threads
        BY <1>n, <2>28 DEF Mark, FrameOK
      <3>1. sh' \in [Threads -> Frame] /\ pc' \in [Threads -> Pcs] /\ FrameOK'
        <4>1. CASE sh' = [sh EXCEPT ![t] = f] /\ Goto(t, "ready")
          <5>1. f \in Frame /\ f.prev \in Threads /\ f.last \in Threads
            BY <3>0 DEF Frame
          <5> HIDE DEF f
          <5> QED
            BY <1>n, <4>1, <5>1, FrameStep
        <4>2. CASE UNCHANGED sh /\ Goto(t, "unlink")
          BY <1>n, <2>28, <4>2, SameFrame DEF Mark
        <4> QED
          BY <2>28, <4>1, <4>2 DEF Mark
      <3>2. wcount' \in [Threads -> {0, 1}]
        BY <1>n, <2>28 DEF Mark
      <3> QED
        BY <2>28, <3>1, <3>2 DEF Mark
    <2>29. CASE Unlink(t)
      <3>1. sh[t].nxt \in Ptr
        BY <1>n DEF Frame
      <3> QED
        BY <1>n, <2>29, <3>1, SameFrame DEF Unlink
    <2>30. CASE Relink(t)
      <3>1. next[sh[t].last] \in Ptr
        BY <1>n, <2>30 DEF Relink, FrameOK
      <3> QED
        BY <1>n, <2>30, <3>1, SameFrame DEF Relink
    <2>31. CASE Insert(t)
      <3> DEFINE f == [sh[t] EXCEPT !.last = sh[t].curr, !.one_shuffle = 1]
      <3>1. sh[t] \in Frame /\ sh[t].prev \in Threads /\ sh[t].curr \in Threads
        BY <1>n, <2>31 DEF Insert, FrameOK
      <3>2. f \in Frame /\ f.prev \in Threads /\ f.last \in Threads
        BY <3>1 DEF Frame
      <3>3. sh' = [sh EXCEPT ![t] = f]
        BY <2>31 DEF Insert
      <3> HIDE DEF f
      <3>4. sh' \in [Threads -> Frame] /\ pc' \in [Threads -> Pcs] /\ FrameOK'
        BY <1>n, <2>31, <3>2, <3>3, FrameStep DEF Insert
      <3> QED
        BY <2>31, <3>1, <3>4 DEF Insert
    <2>32. CASE Ready(t)
      <3>1. CASE Leave(t)
        BY <1>n, <2>32, <3>1, LeaveStep DEF Ready
      <3>2. CASE Goto(t, "scan") /\ UNCHANGED sh
        BY <1>n, <2>32, <3>2, SameFrame DEF Ready
      <3> QED
        BY <2>32, <3>1, <3>2 DEF Ready
    <2>33. CASE Appoint(t)
      BY <1>n, <2>33, ReturnStep DEF Appoint
    <2> QED
      BY <1>n, <2>1, <2>2, <2>3, <2>4, <2>5, <2>6, <2>7, <2>8, <2>9, <2>10, <2>11,
         <2>12, <2>13, <2>14, <2>15, <2>16, <2>17, <2>18, <2>19, <2>20, <2>21,
         <2>22, <2>23, <2>24, <2>25, <2>26, <2>27, <2>28, <2>29, <2>30, <2>31, <2>32, <2>33
      DEF InLock, Shuffle
  <1> QED
    BY <1>0, <1>n DEF Next

\* Every variable of the lock, of its nodes and of the threads keeps its type,
\* whatever the number of threads and sockets.
THEOREM AqmTypeCorrect == Spec => []TypeOK
  <1>1. TypeInv /\ [Next]_vars => TypeInv'
    BY NextTypeInv
  <1> QED
    BY InitTypeInv, <1>1, PTL DEF Spec, TypeInv

-----------------------------------------------------------------------------
(***************************************************************************)
(* Mutual exclusion is inductive once the types are known: locked is set   *)
(* only by a compare-and-swap, which succeeds when nobody holds the lock,  *)
(* and cleared only by the holder.                                         *)
(***************************************************************************)

\* A step of t that neither takes nor gives up the lock.
LEMMA HoldersKept ==
  ASSUME TypeOK, MutualExclusion, NEW t \in Threads, NEW l \in Pcs,
         Goto(t, l), UNCHANGED locked, pc[t] \in HoldPcs <=> l \in HoldPcs
  PROVE  MutualExclusion'
  <1>1. pc'[t] = l /\ \A u \in Threads \ {t} : pc'[u] = pc[u]
    BY DEF TypeOK, Goto
  <1>2. Holders' = Holders
    BY <1>1 DEF Holders
  <1> QED
    BY <1>2 DEF MutualExclusion

\* A step of t that swaps locked from 0 to 1.
LEMMA HolderEnters ==
  ASSUME TypeOK, MutualExclusion, NEW t \in Threads, NEW l \in HoldPcs,
         Goto(t, l), locked = 0, locked' = 1
  PROVE  MutualExclusion'
  <1>1. pc'[t] = l /\ \A u \in Threads \ {t} : pc'[u] = pc[u]
    BY DEF TypeOK, Goto
  <1>2. Holders = {}
    BY DEF MutualExclusion
  <1>3. Holders' = {t}
    BY <1>1, <1>2 DEF Holders
  <1> QED
    BY <1>3 DEF MutualExclusion

\* No step lets a second thread in, or loses track of the holder in locked.
LEMMA NextMutualExclusion ==
  ASSUME TypeInv, MutualExclusion, [Next]_vars
  PROVE  MutualExclusion'
  <1> USE DEF TypeInv
  <1>0. CASE UNCHANGED vars
    BY <1>0 DEF vars, lockVars, MutualExclusion, Holders
  <1>n. ASSUME NEW t \in Threads,
               \/ FastPath(t) \/ SlowPath(t) \/ InLock(t) \/ Shuffle(t)
               \/ Interrupt(t) \/ Unlock(t)
        PROVE  MutualExclusion'
    <2>1. CASE FastPath(t)
      BY <2>1, <1>n, HolderEnters DEF FastPath, HoldPcs
    <2>2. CASE Acquire(t)
      <3>1. CASE locked = 0
        BY <2>2, <3>1, <1>n, HolderEnters DEF Acquire, HoldPcs
      <3>2. CASE locked # 0
        <4>1. UNCHANGED locked /\ pc[t] \notin HoldPcs /\ Goto(t, "steal")
          BY <2>2, <3>2 DEF Acquire, HoldPcs, TypeOK
        <4> QED
          BY <1>n, <4>1, HoldersKept DEF HoldPcs, Pcs, QueuedPcs
      <3> QED
        BY <3>1, <3>2
    <2>3. CASE Unlock(t)
      <3>1. t \in Holders
        BY <1>n, <2>3 DEF Unlock, Holders, HoldPcs
      <3>2. Holders = {t}
        BY <3>1 DEF MutualExclusion
      <3>3. pc'[t] = "idle" /\ \A u \in Threads \ {t} : pc'[u] = pc[u]
        BY <1>n, <2>3 DEF Unlock, Goto, TypeOK
      <3>4. Holders' = {}
        BY <3>2, <3>3 DEF Holders, HoldPcs
      <3>5. locked' = 0
        BY <2>3 DEF Unlock
      <3> QED
        BY <3>4, <3>5 DEF MutualExclusion
    <2>4. CASE FutexWake(t)
      <3> DEFINE u == Wakee(t)
                 l == IF pc[t] = "sfutex" THEN "mark" ELSE "cs"
      <3>1. pc' = [pc EXCEPT ![t] = l, ![u] = IF @ = "asleep" THEN "awake" ELSE @]
        BY <2>4 DEF FutexWake
      <3>2. (pc[t] \in HoldPcs <=> l \in HoldPcs) /\ l # "asleep"
        BY <2>4 DEF FutexWake, HoldPcs
      <3>3. UNCHANGED locked
        BY <2>4 DEF FutexWake, lockVars
      <3> HIDE DEF u, l
      <3>4. \A v \in Threads : pc'[v] \in HoldPcs <=> pc[v] \in HoldPcs
        BY <1>n, <3>1, <3>2 DEF TypeOK, HoldPcs
      <3>5. Holders' = Holders
        BY <3>4 DEF Holders
      <3> QED
        BY <3>3, <3>5 DEF MutualExclusion
    <2>5. ASSUME SlowPath(t) \/ SwapTail(t) \/ LinkPrev(t) \/ DisableStealing(t) \/ Interrupt(t)
                 \/ Spin(t) \/ Park(t) \/ Sleep(t) \/ FutexWait(t) \/ Awake(t) \/ AwaitFree(t)
                 \/ HeadShuffle(t) \/ Shuffle(t) \/ (SetPstate(t) /\ pc[t] = "swake")
          PROVE  MutualExclusion'
      <3>1. UNCHANGED locked /\ pc[t] \notin HoldPcs
        BY <2>5 DEF SlowPath, SwapTail, LinkPrev, DisableStealing, Interrupt, Spin, Park, Sleep,
          FutexWait, Awake, AwaitFree, Shuffle, PassLeadership, Scan, TailCheck, GetNext, Unpark,
          Mark, Unlink, Relink, Insert, Ready, Appoint, HeadShuffle, SetPstate, StartShuffle,
          HoldPcs, lockVars
      <3>2. \E l \in Pcs \ HoldPcs : Goto(t, l)
        BY <2>5, Zenon DEF SlowPath, SwapTail, LinkPrev, DisableStealing, Interrupt, Spin, Park, Sleep,
          FutexWait, Awake, AwaitFree, Shuffle, PassLeadership, Scan, TailCheck, GetNext, Unpark,
          Mark, Unlink, Relink, Insert, Ready, Appoint, HeadShuffle, SetPstate, StartShuffle,
          Leave, Return, HoldPcs, Pcs, QueuedPcs, ParkPcs, ShufflePcs
      <3> QED
        BY <1>n, <3>1, <3>2, HoldersKept
    <2>6. ASSUME GetSuccessor(t) \/ CasTail(t) \/ EnableStealing(t)
                 \/ WaitSuccessor(t) \/ Notify(t) \/ (SetPstate(t) /\ pc[t] = "hwake")
          PROVE  MutualExclusion'
      <3>1. UNCHANGED locked /\ pc[t] \in HoldPcs
        BY <2>6 DEF GetSuccessor, CasTail, EnableStealing, WaitSuccessor, Notify, SetPstate,
          HoldPcs, lockVars
      <3>2. \E l \in Pcs \cap HoldPcs : Goto(t, l)
        BY <2>6 DEF GetSuccessor, CasTail, EnableStealing, WaitSuccessor, Notify, SetPstate,
          HoldPcs, Pcs
      <3> QED
        BY <1>n, <3>1, <3>2, HoldersKept
    <2> QED
      BY <1>n, <2>1, <2>2, <2>3, <2>4, <2>5, <2>6 DEF InLock, SetPstate
  <1> QED
    BY <1>0, <1>n DEF Next

\* Mutual exclusion of the fast path, which stealers may take while somebody waits
\* at the head, and the queue head, for any number of threads and sockets.
THEOREM AqmMutexCorrect == Spec => []MutualExclusion
  <1>1. Init => MutualExclusion
    BY DEF Init, aqm_mutex_create, MutualExclusion, Holders, HoldPcs
  <1>2. TypeInv /\ MutualExclusion /\ [Next]_vars => TypeInv' /\ MutualExclusion'
    BY NextTypeInv, NextMutualExclusion
  <1> QED
    BY InitTypeInv, <1>1, <1>2, PTL DEF Spec

-----------------------------------------------------------------------------
(* The waiting queue, as in AqsProof, without the positions that Aqs          *)
(* stores for the next leader.                                               *)

\* The program points of the scanning loop, and those between the stores that move
\* a waiter.
WakePcs == {"unpark", "swake", "sfutex", "mark"}
ScanPcs == {"scan", "tailcheck", "getnext", "unlink", "ready"} \cup WakePcs
MovePcs == {"relink", "insert"}

\* u is at position j of q or behind it.
On(q, j, u) == \E k \in j..Len(q) : q[k] = u

\* Everybody behind the front up to position k has linked itself.
Reached(q, k) == \A l \in 2..k : pc[q[l]] # "link"

\* Nobody behind position i up to k is of u's socket.
Clean(q, i, k, u) == \A l \in (i + 1)..k : nid[q[l]] # nid[u]

\* Everybody from i to k has been batched.
Counted(q, i, k) == \A l \in i..k : wcount[q[l]] = 1

\* u shuffles or is appointed to.
Token(u) == pc[u] \in ShufflePcs \/ sleader[u] = 1

\* The next field of u is behind the queue: a waiter is being moved next to it.
Moved(u) ==
  \E m \in Threads : \/ pc[m] \in MovePcs /\ sh[m].last = u
                     \/ pc[m] = "relink" /\ sh[m].curr = u

\* q lists the queued threads, each once, up to the tail.
QueueOf(q) ==
  /\ q \in Seq(Threads)
  /\ \A i, j \in 1..Len(q) : q[i] = q[j] => i = j
  /\ \A t \in Threads : pc[t] \in QueuedPcs <=> \E i \in 1..Len(q) : q[i] = t
  /\ tail = IF Len(q) = 0 THEN NULL ELSE q[Len(q)]

\* A thread outside the queue has its node as initialised.
Fresh ==
  \A t \in Threads : pc[t] \notin QueuedPcs =>
    /\ next[t] = NULL /\ sleader[t] = 0 /\ wcount[t] = 0
    /\ lstatus[t] = IF pc[t] = "swap" THEN PWAIT ELSE PARKED

\* Who shuffles has given up its appointment and is batched.
Started == \A t \in Threads : pc[t] \in ShufflePcs => sleader[t] = 0 /\ wcount[t] = 1

\* The very next waiter is the front one, and it leaves once its successor is linked.
HeadAt(q, i) ==
  /\ IsHead(q[i]) <=> i = 1
  /\ pc[q[i]] = "notify" => next[q[i]] # NULL /\ peer[q[i]] = next[q[i]]

\* Neighbours on q are linked, but for an enqueuer's store still to come and a move
\* under way.
LinkAt(q, i) ==
  /\ pc[q[i]] = "link" => i >= 2 /\ peer[q[i]] = q[i - 1] /\ wcount[q[i]] = 0
  /\ i < Len(q) /\ pc[q[i + 1]] # "link" /\ ~Moved(q[i]) => next[q[i]] = q[i + 1]
  /\ i = Len(q) \/ pc[q[i + 1]] = "link" => next[q[i]] = NULL

\* Nobody else shuffles or is appointed to, and everyone ahead has been batched.
TokenAt(q, j) ==
  Token(q[j]) => \A i \in 1..Len(q) : (i # j => ~Token(q[i])) /\ (i < j => wcount[q[i]] = 1)

\* The locals of shuffle_waiters are queued at or behind the shuffler.
FrameAt(q, j) ==
  pc[q[j]] \in ShufflePcs =>
    LET f == sh[q[j]]
    IN  \A x \in {f.prev, f.last, f.curr, f.nxt, f.leader} : x = NULL \/ On(q, j, x)

\* In the loop: last at i ends the batch, prev at p is as far as the scan has come,
\* and between the two nobody is of the shuffler's socket.
LoopFrom(q, j, i, p) ==
  LET u == q[j]
      f == sh[u]
  IN  /\ q[i] = f.last /\ q[p] = f.prev
      /\ nid[q[i]] = nid[u] /\ Counted(q, j, i) /\ Reached(q, p) /\ Clean(q, i, p, u)
      /\ pc[u] \in {"tailcheck", "getnext", "unlink"} \cup WakePcs =>
           p < Len(q) /\ q[p + 1] = f.curr /\ Reached(q, p + 1)
      /\ pc[u] \in {"getnext", "unlink"} \cup WakePcs =>
           p + 1 < Len(q) /\ nid[q[p + 1]] = nid[u]
      /\ pc[u] \in {"getnext", "unlink"} => i < p
      /\ pc[u] \in {"unlink"} \cup WakePcs /\ i < p => q[p + 2] = f.nxt /\ Reached(q, p + 2)
      /\ pc[u] = "unlink" => wcount[q[p + 1]] = 1

LoopAt(q, j) ==
  pc[q[j]] \in ScanPcs => \E i \in j..Len(q) : \E p \in i..Len(q) : LoopFrom(q, j, i, p)

\* Between the three stores of a move: curr is on q next to last already.
MoveFrom(q, j, i, p) ==
  LET u == q[j]
      f == sh[u]
  IN  /\ q[i] = f.last /\ q[i + 1] = f.curr /\ q[p] = f.prev
      /\ nid[q[i]] = nid[u] /\ nid[q[i + 1]] = nid[u]
      /\ Counted(q, j, i + 1) /\ Reached(q, p) /\ Clean(q, i + 1, p, u)
      /\ next[q[i]] = q[i + 2]
      /\ pc[u] = "insert" => next[q[i + 1]] = q[i + 2]

MoveAt(q, j) ==
  pc[q[j]] \in MovePcs => \E i \in j..Len(q) : \E p \in (i + 2)..Len(q) : MoveFrom(q, j, i, p)

\* Leaving shuffle_waiters: the next leader.
AppointAt(q, j) ==
  pc[q[j]] = "appoint" => \E k \in j..Len(q) : q[k] = sh[q[j]].leader /\ Counted(q, j, k - 1)

\* The inductive invariant: q is the waiting queue, whatever is under way.
QInv(q) ==
  /\ QueueOf(q)
  /\ Fresh
  /\ Started
  /\ \A i \in 1..Len(q) : HeadAt(q, i) /\ LinkAt(q, i)
  /\ \A j \in 1..Len(q) : TokenAt(q, j)
  /\ \A j \in 1..Len(q) : FrameAt(q, j) /\ LoopAt(q, j) /\ MoveAt(q, j) /\ AppointAt(q, j)

-----------------------------------------------------------------------------
(* What a step keeps that does not reorder the queue.                        *)

\* r is q without its first d threads, and with others at its end.
Shift(q, r, d) ==
  /\ q \in Seq(Threads) /\ r \in Seq(Threads) /\ d \in Nat
  /\ d <= Len(q) /\ Len(q) <= Len(r) + d
  /\ \A i \in 1..(Len(q) - d) : r[i] = q[i + d]

\* The step leaves the sockets of the threads behind position d alone, resets no
\* count and unlinks nobody.
Calm(q, d) ==
  \A i \in (d + 1)..Len(q) :
    /\ nid'[q[i]] = nid[q[i]]
    /\ wcount[q[i]] = 1 => wcount'[q[i]] = 1
    /\ pc[q[i]] # "link" => pc'[q[i]] # "link"

LEMMA ShiftIndex ==
  ASSUME NEW q, NEW r, NEW d, Shift(q, r, d), NEW i \in (d + 1)..Len(q)
  PROVE  i - d \in 1..Len(r) /\ r[i - d] = q[i] /\ (i - d) + d = i
  BY DEF Shift

LEMMA OnKept ==
  ASSUME NEW q, NEW r, NEW d, Shift(q, r, d), NEW j \in (d + 1)..Len(q), NEW u, On(q, j, u)
  PROVE  On(r, j - d, u)
  <1>1. PICK k \in j..Len(q) : q[k] = u
    BY DEF On
  <1>2. k \in (d + 1)..Len(q)
    BY DEF Shift
  <1>3. k - d \in (j - d)..Len(r) /\ r[k - d] = u
    BY <1>1, <1>2, ShiftIndex DEF Shift
  <1> QED
    BY <1>3 DEF On

LEMMA ReachedKept ==
  ASSUME NEW q, NEW r, NEW d, Shift(q, r, d), Calm(q, d), NEW k \in (d + 1)..Len(q), Reached(q, k)
  PROVE  Reached(r, k - d)'
  <1> SUFFICES ASSUME NEW l \in 2..(k - d)
               PROVE  pc'[r[l]] # "link"
    BY DEF Reached
  <1>1. l + d \in (d + 1)..Len(q) /\ l + d \in 2..k /\ l \in 1..(Len(q) - d)
    BY DEF Shift
  <1>2. r[l] = q[l + d]
    BY <1>1 DEF Shift
  <1> QED
    BY <1>1, <1>2 DEF Reached, Calm

LEMMA CountedKept ==
  ASSUME NEW q, NEW r, NEW d, Shift(q, r, d), Calm(q, d), NEW i \in (d + 1)..Len(q),
         NEW k \in Nat, k <= Len(q), Counted(q, i, k)
  PROVE  Counted(r, i - d, k - d)'
  <1> SUFFICES ASSUME NEW l \in (i - d)..(k - d)
               PROVE  wcount'[r[l]] = 1
    BY DEF Counted
  <1>1. l + d \in (d + 1)..Len(q) /\ l + d \in i..k /\ l \in 1..(Len(q) - d)
    BY DEF Shift
  <1>2. r[l] = q[l + d]
    BY <1>1 DEF Shift
  <1> QED
    BY <1>1, <1>2 DEF Counted, Calm

LEMMA CleanKept ==
  ASSUME NEW q, NEW r, NEW d, Shift(q, r, d), Calm(q, d), NEW i \in (d + 1)..Len(q),
         NEW k \in (d + 1)..Len(q), NEW u, nid'[u] = nid[u], Clean(q, i, k, u)
  PROVE  Clean(r, i - d, k - d, u)'
  <1> SUFFICES ASSUME NEW l \in (i - d + 1)..(k - d)
               PROVE  nid'[r[l]] # nid'[u]
    BY DEF Clean
  <1>1. l + d \in (d + 1)..Len(q) /\ l + d \in (i + 1)..k /\ l \in 1..(Len(q) - d)
    BY DEF Shift
  <1>2. r[l] = q[l + d]
    BY <1>1 DEF Shift
  <1> QED
    BY <1>1, <1>2 DEF Clean, Calm

LEMMA FrameKept ==
  ASSUME NEW q, NEW r, NEW d, Shift(q, r, d), NEW j \in (d + 1)..Len(q), FrameAt(q, j),
         pc'[q[j]] = pc[q[j]], sh'[q[j]] = sh[q[j]]
  PROVE  FrameAt(r, j - d)'
  <1>1. r[j - d] = q[j]
    BY ShiftIndex
  <1> SUFFICES ASSUME pc[q[j]] \in ShufflePcs,
                      NEW x \in {sh[q[j]].prev, sh[q[j]].last, sh[q[j]].curr, sh[q[j]].nxt,
                                 sh[q[j]].leader}, x # NULL
               PROVE  \E k \in (j - d)..Len(r) : r[k] = x
    BY <1>1, SMTT(30) DEF FrameAt, On
  <1>2. On(q, j, x)
    BY DEF FrameAt
  <1>3. On(r, j - d, x)
    BY <1>2, OnKept
  <1> QED
    BY <1>3 DEF On

LEMMA LoopKept ==
  ASSUME NEW q, NEW r, NEW d, Shift(q, r, d), Calm(q, d), NEW j \in (d + 1)..Len(q), LoopAt(q, j),
         pc'[q[j]] = pc[q[j]], sh'[q[j]] = sh[q[j]]
  PROVE  LoopAt(r, j - d)'
  <1> SUFFICES ASSUME pc[q[j]] \in ScanPcs
               PROVE  LoopAt(r, j - d)'
    BY ShiftIndex DEF LoopAt
  <1>1. PICK i \in j..Len(q) : \E p \in i..Len(q) : LoopFrom(q, j, i, p)
    BY DEF LoopAt
  <1>2. PICK p \in i..Len(q) : LoopFrom(q, j, i, p)
    BY <1>1
  <1> DEFINE u == q[j]
             f == sh[u]
             Behind == pc[u] \in {"tailcheck", "getnext", "unlink"} \cup WakePcs
             Local == pc[u] \in {"getnext", "unlink"} \cup WakePcs
             Found == pc[u] \in {"unlink"} \cup WakePcs /\ i < p
  <1>3. /\ q[i] = f.last /\ q[p] = f.prev
        /\ nid[q[i]] = nid[u] /\ Counted(q, j, i) /\ Reached(q, p) /\ Clean(q, i, p, u)
        /\ Behind => p < Len(q) /\ q[p + 1] = f.curr /\ Reached(q, p + 1)
        /\ Local => p + 1 < Len(q) /\ nid[q[p + 1]] = nid[u]
        /\ pc[u] \in {"getnext", "unlink"} => i < p
        /\ Found => q[p + 2] = f.nxt /\ Reached(q, p + 2)
        /\ pc[u] = "unlink" => wcount[q[p + 1]] = 1
        /\ Local => Behind
        /\ Found => Local
        /\ pc[u] = "unlink" => Local
    BY <1>2 DEF LoopFrom
  <1>4. /\ i \in (d + 1)..Len(q) /\ p \in (d + 1)..Len(q) /\ Len(q) \in Nat /\ Len(r) \in Nat
        /\ d \in Nat /\ Len(q) <= Len(r) + d /\ j \in (d + 1)..Len(q) /\ i \in Nat /\ i <= Len(q)
    BY DEF Shift
  <1>5. \A k \in (d + 1)..Len(q) : r[k - d] = q[k] /\ nid'[q[k]] = nid[q[k]]
                                   /\ (wcount[q[k]] = 1 => wcount'[q[k]] = 1)
    BY ShiftIndex DEF Calm
  <1>6. pc'[u] = pc[u] /\ sh'[u] = f
    OBVIOUS
  <1> HIDE DEF u, f, Behind, Local, Found
  <1>7. u = q[j]
    BY DEF u
  <1>8. r[i - d] = q[i] /\ r[p - d] = q[p] /\ r[j - d] = u /\ nid'[q[i]] = nid[q[i]] /\ nid'[u] = nid[u]
    BY <1>4, <1>5, <1>7
  <1>9. i - d \in (j - d)..Len(r) /\ p - d \in (i - d)..Len(r)
    BY <1>4
  <1>10. Counted(r, j - d, i - d)'
    BY <1>3, <1>4, CountedKept
  <1>11. Reached(r, p - d)'
    BY <1>3, <1>4, ReachedKept
  <1>12. Clean(r, i - d, p - d, u)'
    BY <1>3, <1>4, <1>8, CleanKept
  <1>13. ASSUME Behind
         PROVE  p - d < Len(r) /\ r[p - d + 1] = f.curr /\ Reached(r, p - d + 1)'
    <2>1. p < Len(q)
      BY <1>3, <1>13
    <2>2. p + 1 \in (d + 1)..Len(q) /\ (p + 1) - d = p - d + 1 /\ p - d < Len(r)
      BY <1>4, <2>1
    <2>3. r[(p + 1) - d] = q[p + 1]
      BY <1>5, <2>2
    <2>4. Reached(r, (p + 1) - d)'
      BY <1>3, <1>13, <2>2, ReachedKept
    <2> QED
      BY <1>3, <1>13, <2>2, <2>3, <2>4
  <1>14. ASSUME Local
         PROVE  /\ p - d + 1 < Len(r) /\ nid'[r[p - d + 1]] = nid'[u]
                /\ wcount[q[p + 1]] = 1 => wcount'[r[p - d + 1]] = 1
    <2>1. p + 1 < Len(q)
      BY <1>3, <1>14
    <2>2. p + 1 \in (d + 1)..Len(q) /\ (p + 1) - d = p - d + 1 /\ p - d + 1 < Len(r)
      BY <1>4, <2>1
    <2>3. r[(p + 1) - d] = q[p + 1] /\ nid'[q[p + 1]] = nid[q[p + 1]]
          /\ (wcount[q[p + 1]] = 1 => wcount'[q[p + 1]] = 1)
      BY <1>5, <2>2
    <2> QED
      BY <1>3, <1>8, <1>14, <2>2, <2>3
  <1>15. ASSUME Found
         PROVE  r[p - d + 2] = f.nxt /\ Reached(r, p - d + 2)'
    <2>1. p + 1 < Len(q)
      BY <1>3, <1>15
    <2>2. p + 2 \in (d + 1)..Len(q) /\ (p + 2) - d = p - d + 2
      BY <1>4, <2>1
    <2>3. r[(p + 2) - d] = q[p + 2]
      BY <1>5, <2>2
    <2>4. Reached(r, (p + 2) - d)'
      BY <1>3, <1>15, <2>2, ReachedKept
    <2> QED
      BY <1>3, <1>15, <2>2, <2>3, <2>4
  <1>16. i - d < p - d <=> i < p
    BY <1>4
  <1>17. LoopFrom(r, j - d, i - d, p - d)'
    BY <1>3, <1>6, <1>8, <1>10, <1>11, <1>12, <1>13, <1>14, <1>15, <1>16 DEF LoopFrom, Behind, Local, Found
  <1> QED
    BY <1>9, <1>17 DEF LoopAt

LEMMA MoveKept ==
  ASSUME NEW q, NEW r, NEW d, Shift(q, r, d), Calm(q, d), NEW j \in (d + 1)..Len(q), MoveAt(q, j),
         pc'[q[j]] = pc[q[j]], sh'[q[j]] = sh[q[j]],
         \A i \in (d + 1)..Len(q) : next[q[i]] # NULL => next'[q[i]] = next[q[i]],
         \A u \in Threads : u # NULL
  PROVE  MoveAt(r, j - d)'
  <1>a. r[j - d] = q[j]
    BY ShiftIndex
  <1> SUFFICES ASSUME pc[q[j]] \in MovePcs
               PROVE  MoveAt(r, j - d)'
    BY <1>a DEF MoveAt
  <1> DEFINE u == q[j]
             f == sh[u]
  <1>1. PICK i \in j..Len(q) : \E p \in (i + 2)..Len(q) : MoveFrom(q, j, i, p)
    BY DEF MoveAt
  <1>0. PICK p \in (i + 2)..Len(q) : MoveFrom(q, j, i, p)
    BY <1>1
  <1>2. /\ q[i] = f.last /\ q[i + 1] = f.curr /\ q[p] = f.prev
        /\ nid[q[i]] = nid[u] /\ nid[q[i + 1]] = nid[u]
        /\ Counted(q, j, i + 1) /\ Reached(q, p) /\ Clean(q, i + 1, p, u)
        /\ next[q[i]] = q[i + 2]
        /\ pc[u] = "insert" => next[q[i + 1]] = q[i + 2]
    BY <1>0 DEF MoveFrom
  <1>3. /\ i \in (d + 1)..Len(q) /\ p \in (d + 1)..Len(q) /\ Len(q) \in Nat /\ Len(r) \in Nat
        /\ d \in Nat /\ Len(q) <= Len(r) + d
        /\ i + 1 \in (d + 1)..Len(q) /\ i + 2 \in (d + 1)..Len(q)
        /\ (i + 1) - d = i - d + 1 /\ (i + 2) - d = i - d + 2
    <2>1. Len(q) \in Nat /\ Len(r) \in Nat /\ d \in Nat /\ Len(q) <= Len(r) + d
      BY DEF Shift
    <2>2. i \in (d + 1)..Len(q) /\ p \in (d + 1)..Len(q)
      BY <2>1
    <2>3. i + 1 \in (d + 1)..Len(q) /\ i + 2 \in (d + 1)..Len(q)
      BY <2>1
    <2>4. (i + 1) - d = i - d + 1 /\ (i + 2) - d = i - d + 2
      BY <2>1
    <2> QED
      BY <2>1, <2>2, <2>3, <2>4
  <1>4. /\ r[i - d] = q[i] /\ r[p - d] = q[p] /\ r[j - d] = u
        /\ r[i - d + 1] = q[i + 1] /\ r[i - d + 2] = q[i + 2]
        /\ i - d \in (j - d)..Len(r) /\ p - d \in (i - d + 2)..Len(r)
    <2>0. \A k \in (d + 1)..Len(q) : r[k - d] = q[k]
      BY ShiftIndex
    <2>1. r[i - d] = q[i]
      BY <1>3, <2>0
    <2>2. r[p - d] = q[p]
      BY <1>3, <2>0
    <2>3. r[j - d] = u
      BY <2>0
    <2>4. r[(i + 1) - d] = q[i + 1]
      BY <1>3, <2>0
    <2>5. r[(i + 2) - d] = q[i + 2]
      BY <1>3, <2>0
    <2>6. i - d \in (j - d)..Len(r) /\ p - d \in (i - d + 2)..Len(r)
      BY <1>3
    <2> QED
      BY <1>3, <2>1, <2>2, <2>3, <2>4, <2>5, <2>6
  <1>5. nid'[q[i]] = nid[q[i]] /\ nid'[u] = nid[u] /\ nid'[q[i + 1]] = nid[q[i + 1]]
    BY <1>3 DEF Calm
  <1>6. Counted(r, j - d, i - d + 1)' /\ Reached(r, p - d)' /\ Clean(r, i - d + 1, p - d, u)'
    <2>0. i + 1 \in Nat /\ i + 1 <= Len(q)
      BY <1>3, SMTT(30)
    <2>1. Counted(r, j - d, (i + 1) - d)'
      BY <1>2, <2>0, CountedKept
    <2>2. Reached(r, p - d)'
      BY <1>2, <1>3, ReachedKept
    <2>3. Clean(r, (i + 1) - d, p - d, u)'
      BY <1>2, <1>3, <1>5, CleanKept
    <2> QED
      BY <1>3, <2>1, <2>2, <2>3
  <1>7. q[i + 2] # NULL
    BY <1>3, SMTT(30) DEF Shift
  <1>8. next'[q[i]] = q[i + 2] /\ (pc[u] = "insert" => next'[q[i + 1]] = q[i + 2])
    BY <1>2, <1>3, <1>7
  <1> HIDE DEF u, f
  <1>9. /\ r[i - d] = f.last /\ r[i - d + 1] = f.curr /\ r[p - d] = f.prev
        /\ nid'[r[i - d]] = nid'[u] /\ nid'[r[i - d + 1]] = nid'[u]
        /\ next'[r[i - d]] = r[i - d + 2]
        /\ pc[u] = "insert" => next'[r[i - d + 1]] = r[i - d + 2]
    BY <1>2, <1>4, <1>5, <1>8
  <1>10. r[j - d] = u /\ pc'[u] = pc[u] /\ sh'[u] = f
    BY <1>4 DEF u, f
  <1> QED
    <2>1. MoveFrom(r, j - d, i - d, p - d)'
      BY <1>4, <1>6, <1>9, <1>10 DEF MoveFrom
    <2> QED
      BY <1>4, <2>1 DEF MoveAt

LEMMA AppointKept ==
  ASSUME NEW q, NEW r, NEW d, Shift(q, r, d), Calm(q, d), NEW j \in (d + 1)..Len(q), AppointAt(q, j),
         pc'[q[j]] = pc[q[j]], sh'[q[j]] = sh[q[j]]
  PROVE  AppointAt(r, j - d)'
  <1> DEFINE u == q[j]
  <1>0. r[j - d] = u /\ Len(q) \in Nat /\ d \in Nat /\ Len(r) \in Nat /\ Len(q) <= Len(r) + d
    BY ShiftIndex DEF Shift
  <1> SUFFICES ASSUME pc[u] = "appoint"
               PROVE  \E k \in (j - d)..Len(r) : r[k] = sh[u].leader /\ Counted(r, j - d, k - 1)'
    BY <1>0 DEF AppointAt
  <1>1. PICK k \in j..Len(q) : q[k] = sh[u].leader /\ Counted(q, j, k - 1)
    BY DEF AppointAt
  <1>2. k \in (d + 1)..Len(q) /\ k - 1 \in Nat /\ k - 1 <= Len(q) /\ (k - 1) - d = k - d - 1
    BY <1>0
  <1>3. r[k - d] = q[k]
    BY <1>2, ShiftIndex
  <1>4. k - d \in (j - d)..Len(r)
    BY <1>0
  <1>5. Counted(r, j - d, (k - 1) - d)'
    BY <1>1, <1>2, CountedKept
  <1> QED
    BY <1>1, <1>2, <1>3, <1>4, <1>5

LEMMA TokenKept ==
  ASSUME NEW q, NEW r, NEW d, Shift(q, r, d), Calm(q, d), NEW j \in (d + 1)..Len(q), TokenAt(q, j),
         \A i \in (d + 1)..Len(q) : Token(q[i])' => Token(q[i]),
         \A i \in (Len(q) - d + 1)..Len(r) : ~Token(r[i])'
  PROVE  TokenAt(r, j - d)'
  <1> SUFFICES ASSUME Token(q[j])', NEW i \in 1..Len(r)
               PROVE  (i # j - d => ~Token(r[i])') /\ (i < j - d => wcount'[r[i]] = 1)
    BY ShiftIndex DEF TokenAt
  <1>0. Len(q) \in Nat /\ d \in Nat /\ Len(r) \in Nat /\ Len(q) <= Len(r) + d
    BY DEF Shift
  <1>1. CASE i \in (Len(q) - d + 1)..Len(r)
    BY <1>0, <1>1
  <1>2. CASE i \in 1..(Len(q) - d)
    <2>1. r[i] = q[i + d] /\ i + d \in (d + 1)..Len(q) /\ i + d \in 1..Len(q)
      BY <1>0, <1>2 DEF Shift
    <2>2. (i # j - d => i + d # j) /\ (i < j - d => i + d < j)
      BY <1>0, <1>2
    <2> QED
      BY <2>1, <2>2 DEF TokenAt, Calm
  <1> QED
    BY <1>0, <1>1, <1>2

-----------------------------------------------------------------------------
(* Steps that leave the queue as it is.                                      *)

LEMMA ShiftSelf ==
  ASSUME NEW q \in Seq(Threads)
  PROVE  Shift(q, q, 0)
  BY DEF Shift

\* Of two threads in the queue only one may shuffle or be appointed.
LEMMA OneToken ==
  ASSUME NEW q, QInv(q), NEW j \in 1..Len(q), Token(q[j]), NEW k \in 1..Len(q), k # j
  PROVE  ~Token(q[k])
  BY DEF QInv, TokenAt

\* A thread that shuffles is at some position of the queue.
LEMMA Placed ==
  ASSUME NEW q, QueueOf(q), NEW t \in Threads, pc[t] \in QueuedPcs
  PROVE  \E j \in 1..Len(q) : q[j] = t
  BY DEF QueueOf

\* The step leaves u alone, but for a futex wake-up.
Alike(u) ==
  /\ pc'[u] = pc[u] \/ (pc[u] = "asleep" /\ pc'[u] = "awake")
  /\ sh'[u] = sh[u] /\ peer'[u] = peer[u]

\* The step makes nobody the very next waiter, and changes no status outside the
\* queue but for a node that is being initialised.
SameHeads ==
  /\ \A u \in Threads : lstatus'[u] = LOCKED <=> lstatus[u] = LOCKED
  /\ \A u \in Threads : pc[u] \notin QueuedPcs =>
       lstatus'[u] = IF pc'[u] = "swap" THEN PWAIT ELSE PARKED

LEMMA AlikePcs ==
  ASSUME NEW u, Alike(u)
  PROVE  /\ pc'[u] \in QueuedPcs <=> pc[u] \in QueuedPcs
         /\ \A l \in Pcs \ {"asleep", "awake"} : pc'[u] = l <=> pc[u] = l
         /\ pc'[u] \in ShufflePcs <=> pc[u] \in ShufflePcs
         /\ pc'[u] \in ShufflePcs => pc'[u] = pc[u]
  BY DEF Alike, QueuedPcs, ParkPcs, ShufflePcs

\* A step of t that neither stores a next field nor changes t's place.
LEMMA QuietStep ==
  ASSUME NEW q, QInv(q), NEW t \in Threads, \A u \in Threads \ {t} : Alike(u),
         pc'[t] \in QueuedPcs <=> pc[t] \in QueuedPcs,
         pc[t] \notin MovePcs \cup {"link"}, pc'[t] \notin MovePcs \cup {"link"},
         IsHead(t)' <=> IsHead(t), pc'[t] = "notify" => next[t] # NULL /\ peer'[t] = next[t],
         UNCHANGED <<tail, next>>, SameHeads,
         \A u \in Threads : pc[u] \notin QueuedPcs => sleader'[u] = sleader[u] /\ wcount'[u] = wcount[u],
         \A u \in Threads : pc[u] = "link" => wcount'[u] = wcount[u]
  PROVE  QueueOf(q)' /\ Fresh' /\ \A i \in 1..Len(q) : HeadAt(q, i)' /\ LinkAt(q, i)'
  <1>1. QueueOf(q) /\ Fresh /\ q \in Seq(Threads) /\ Len(q) \in Nat
    BY DEF QInv, QueueOf
  <1>2. \A u \in Threads : /\ pc'[u] \in QueuedPcs <=> pc[u] \in QueuedPcs
                           /\ pc'[u] = "link" <=> pc[u] = "link"
                           /\ pc'[u] = "relink" <=> pc[u] = "relink"
                           /\ pc'[u] = "insert" <=> pc[u] = "insert"
    <2>1. TAKE u \in Threads
    <2>2. CASE u = t
      BY <2>2 DEF MovePcs
    <2>3. CASE u # t
      <3>1. Alike(u)
        BY <2>3
      <3> QED
        BY <3>1, AlikePcs DEF Pcs, QueuedPcs, ShufflePcs
    <2> QED
      BY <2>2, <2>3
  <1>3. QueueOf(q)'
    BY <1>1, <1>2 DEF QueueOf
  <1>4. Fresh'
    BY <1>1, <1>2 DEF Fresh, SameHeads
  <1>5. ASSUME NEW i \in 1..Len(q)
        PROVE  HeadAt(q, i)'
    <2>1. q[i] \in Threads /\ HeadAt(q, i)
      BY <1>1 DEF QInv
    <2>2. CASE q[i] = t
      BY <2>1, <2>2 DEF HeadAt
    <2>3. CASE q[i] # t
      <3>1. Alike(q[i]) /\ (lstatus'[q[i]] = LOCKED <=> lstatus[q[i]] = LOCKED)
        BY <2>1, <2>3 DEF SameHeads
      <3>2. IsHead(q[i])' <=> IsHead(q[i])
        BY <3>1 DEF IsHead, Alike, ShufflePcs
      <3>3. pc'[q[i]] = "notify" => pc[q[i]] = "notify"
        BY <3>1 DEF Alike
      <3> QED
        BY <2>1, <3>1, <3>2, <3>3 DEF HeadAt, Alike
    <2> QED
      BY <2>2, <2>3
  <1>6. \A u : Moved(u)' <=> Moved(u)
    <2>1. \A m \in Threads : pc[m] \in MovePcs \/ pc'[m] \in MovePcs => sh'[m] = sh[m]
      BY <1>2 DEF Alike, MovePcs
    <2> QED
      BY <1>2, <2>1 DEF Moved, MovePcs
  <1>7. ASSUME NEW i \in 1..Len(q)
        PROVE  LinkAt(q, i)'
    <2>1. LinkAt(q, i) /\ q[i] \in Threads /\ (i < Len(q) => q[i + 1] \in Threads)
      BY <1>1 DEF QInv
    <2>2. pc[q[i]] = "link" => peer'[q[i]] = peer[q[i]]
      BY <2>1 DEF Alike
    <2> QED
      BY <1>1, <1>2, <1>6, <2>1, <2>2 DEF LinkAt
  <1> QED
    BY <1>3, <1>4, <1>5, <1>7

\* What such a step, and any that leaves the queue as it is, keeps of the others.
LEMMA StayOthers ==
  ASSUME NEW q, QInv(q), NULL \notin Threads, Calm(q, 0), NEW t,
         \A u \in Threads \ {t} : Alike(u),
         \/ \A u \in Threads : next[u] # NULL => next'[u] = next[u]
         \/ pc[t] \in MovePcs /\ t \in Threads
  PROVE  \A j \in 1..Len(q) : q[j] # t =>
           FrameAt(q, j)' /\ LoopAt(q, j)' /\ MoveAt(q, j)' /\ AppointAt(q, j)'
  <1>1. q \in Seq(Threads) /\ Shift(q, q, 0) /\ Len(q) \in Nat
    BY ShiftSelf DEF QInv, QueueOf
  <1>2. TAKE j \in 1..Len(q)
  <1>3. HAVE q[j] # t
  <1>4. j \in (0 + 1)..Len(q) /\ j - 0 = j /\ q[j] \in Threads /\ Alike(q[j])
    BY <1>1, <1>3
  <1>a. CASE pc[q[j]] \notin ShufflePcs
    <2>1. pc'[q[j]] \notin ShufflePcs
      BY <1>4, <1>a, AlikePcs
    <2> QED
      BY <2>1 DEF FrameAt, LoopAt, MoveAt, AppointAt, ShufflePcs, ScanPcs, WakePcs, MovePcs
  <1>b. CASE pc[q[j]] \in ShufflePcs
    <2>0. pc'[q[j]] = pc[q[j]] /\ sh'[q[j]] = sh[q[j]]
      BY <1>4, <1>b, AlikePcs DEF Alike
    <2>1. FrameAt(q, j) /\ LoopAt(q, j) /\ MoveAt(q, j) /\ AppointAt(q, j)
      BY DEF QInv
    <2>2. FrameAt(q, j - 0)'
      BY <1>1, <1>4, <2>0, <2>1, FrameKept
    <2>3. LoopAt(q, j - 0)'
      BY <1>1, <1>4, <2>0, <2>1, LoopKept
    <2>4. AppointAt(q, j - 0)'
      BY <1>1, <1>4, <2>0, <2>1, AppointKept
    <2>5. MoveAt(q, j - 0)'
      <3>1. CASE \A u \in Threads : next[u] # NULL => next'[u] = next[u]
        <4>1. \A i \in (0 + 1)..Len(q) : next[q[i]] # NULL => next'[q[i]] = next[q[i]]
          BY <1>1, <3>1
        <4>2. \A u \in Threads : u # NULL
          OBVIOUS
        <4> QED
          BY <1>1, <1>4, <2>0, <2>1, <4>1, <4>2, MoveKept
      <3>2. CASE pc[t] \in MovePcs /\ t \in Threads
        <4>1. PICK k \in 1..Len(q) : q[k] = t
          BY <3>2, Placed DEF QInv, MovePcs, QueuedPcs, ShufflePcs
        <4>2. Token(q[k]) /\ k # j
          BY <1>3, <3>2, <4>1 DEF Token, MovePcs, ShufflePcs
        <4>3. ~Token(q[j])
          BY <4>2, OneToken
        <4> QED
          BY <1>b, <4>3 DEF Token
      <3> QED
        BY <3>1, <3>2
    <2> QED
      BY <1>4, <2>2, <2>3, <2>4, <2>5
  <1> QED
    BY <1>a, <1>b

\* The leadership is where it was or has gone.
LEMMA StayTokens ==
  ASSUME NEW q, QInv(q), Calm(q, 0), \A u \in Threads : Token(u)' => Token(u)
  PROVE  \A j \in 1..Len(q) : TokenAt(q, j)'
  <1>1. q \in Seq(Threads) /\ Shift(q, q, 0) /\ Len(q) \in Nat
    BY ShiftSelf DEF QInv, QueueOf
  <1>2. TAKE j \in 1..Len(q)
  <1>3. j \in (0 + 1)..Len(q) /\ j - 0 = j
    BY <1>1
  <1>4. TokenAt(q, j)
    BY DEF QInv
  <1>5. \A i \in (0 + 1)..Len(q) : Token(q[i])' => Token(q[i])
    BY <1>1
  <1>6. \A i \in (Len(q) - 0 + 1)..Len(q) : ~Token(q[i])'
    BY <1>1
  <1>7. TokenAt(q, j - 0)'
    BY <1>1, <1>3, <1>4, <1>5, <1>6, TokenKept
  <1> QED
    BY <1>3, <1>7

-----------------------------------------------------------------------------
(* The steps outside shuffle_waiters that leave the list alone.              *)

LEMMA BenignStep ==
  ASSUME TypeOK, NEW q, QInv(q), NULL \notin Threads, NEW t \in Threads,
         \A u \in Threads \ {t} : Alike(u),
         pc[t] \notin ShufflePcs \cup {"link"}, pc'[t] \notin ShufflePcs \cup {"link"},
         pc'[t] \in QueuedPcs <=> pc[t] \in QueuedPcs,
         UNCHANGED <<tail, next, sleader, wcount>>, SameHeads,
         \A u \in Threads : pc[u] \in QueuedPcs => nid'[u] = nid[u],
         IsHead(t)' <=> IsHead(t), pc'[t] = "notify" => next[t] # NULL /\ peer'[t] = next[t]
  PROVE  QInv(q)'
  <1>1. /\ q \in Seq(Threads) /\ Len(q) \in Nat
        /\ \A i \in 1..Len(q) : q[i] \in Threads /\ pc[q[i]] \in QueuedPcs
        /\ Started
    BY DEF QInv, QueueOf
  <1>2. QueueOf(q)' /\ Fresh' /\ \A i \in 1..Len(q) : HeadAt(q, i)' /\ LinkAt(q, i)'
    <2>1. pc[t] \notin MovePcs \cup {"link"} /\ pc'[t] \notin MovePcs \cup {"link"}
      BY DEF ShufflePcs, MovePcs
    <2>2. /\ \A u \in Threads : pc[u] \notin QueuedPcs => sleader'[u] = sleader[u] /\ wcount'[u] = wcount[u]
          /\ \A u \in Threads : pc[u] = "link" => wcount'[u] = wcount[u]
      OBVIOUS
    <2> QED
      BY <2>1, <2>2, QuietStep
  <1>3. \A u \in Threads : /\ pc'[u] = "link" <=> pc[u] = "link"
                           /\ pc'[u] \in ShufflePcs <=> pc[u] \in ShufflePcs
    <2>1. TAKE u \in Threads
    <2>2. CASE u = t
      BY <2>2
    <2>3. CASE u # t
      BY <2>3, AlikePcs DEF Pcs, QueuedPcs
    <2> QED
      BY <2>2, <2>3
  <1>4. Calm(q, 0)
    BY <1>1, <1>3 DEF Calm
  <1>5. Started'
    BY <1>1, <1>3 DEF Started
  <1>6. \A j \in 1..Len(q) : TokenAt(q, j)'
    <2>1. \A u \in Threads : Token(u)' => Token(u)
      BY <1>3 DEF Token
    <2> QED
      BY <1>4, <2>1, StayTokens
  <1>7. \A j \in 1..Len(q) : FrameAt(q, j)' /\ LoopAt(q, j)' /\ MoveAt(q, j)' /\ AppointAt(q, j)'
    <2>1. \A j \in 1..Len(q) : q[j] # t =>
            FrameAt(q, j)' /\ LoopAt(q, j)' /\ MoveAt(q, j)' /\ AppointAt(q, j)'
      <3>1. \A u \in Threads : next[u] # NULL => next'[u] = next[u]
        OBVIOUS
      <3> QED
        BY <1>4, <3>1, StayOthers
    <2>2. ASSUME NEW j \in 1..Len(q), q[j] = t
          PROVE  FrameAt(q, j)' /\ LoopAt(q, j)' /\ MoveAt(q, j)' /\ AppointAt(q, j)'
      BY <2>2 DEF FrameAt, LoopAt, MoveAt, AppointAt, ShufflePcs, ScanPcs, WakePcs, MovePcs
    <2> QED
      BY <2>1, <2>2
  <1> QED
    BY <1>2, <1>5, <1>6, <1>7 DEF QInv

\* Who leaves the statuses alone, and initialises no node, makes no head.
LEMMA SameStatus ==
  ASSUME NEW q, QInv(q), UNCHANGED lstatus,
         \A u \in Threads : pc[u] \notin QueuedPcs => (pc'[u] = "swap" <=> pc[u] = "swap")
  PROVE  SameHeads
  BY DEF QInv, Fresh, SameHeads

\* A step of t alone that leaves the nodes alone.
LEMMA PlainStep ==
  ASSUME TypeOK, NEW q, QInv(q), NULL \notin Threads, NEW t \in Threads, NEW l,
         pc' = [pc EXCEPT ![t] = l],
         pc[t] \notin ShufflePcs \cup {"link", "swap"}, l \notin ShufflePcs \cup {"link", "swap"},
         l \in QueuedPcs <=> pc[t] \in QueuedPcs,
         UNCHANGED <<tail, next, lstatus, sleader, wcount, nid, sh>>,
         \A u \in Threads \ {t} : peer'[u] = peer[u],
         IsHead(t)' <=> IsHead(t), l = "notify" => next[t] # NULL /\ peer'[t] = next[t]
  PROVE  QInv(q)'
  <1>1. pc'[t] = l /\ \A u \in Threads \ {t} : pc'[u] = pc[u]
    BY DEF TypeOK
  <1>2. \A u \in Threads \ {t} : Alike(u)
    BY <1>1 DEF Alike
  <1>3. SameHeads
    BY <1>1, SameStatus
  <1> QED
    BY <1>1, <1>2, <1>3, BenignStep

\* Taking and freeing the word, and the steps of the lock call before and behind
\* shuffle_waiters.
LEMMA LockSteps ==
  ASSUME TypeOK, NEW q, QInv(q), NULL \notin Threads, NEW t \in Threads,
         \/ FastPath(t) \/ Unlock(t) \/ DisableStealing(t) \/ AwaitFree(t) \/ Acquire(t)
         \/ GetSuccessor(t) \/ EnableStealing(t) \/ WaitSuccessor(t) \/ Sleep(t)
         \/ FutexWait(t) \/ Awake(t) \/ Interrupt(t)
  PROVE  QInv(q)'
  <1> USE DEF Goto, nodeVars, lockVars, QueuedPcs, ParkPcs, ShufflePcs
  <1> DEFINE Step(l) ==
        /\ pc' = [pc EXCEPT ![t] = l]
        /\ pc[t] \notin ShufflePcs \cup {"link", "swap"} /\ l \notin ShufflePcs \cup {"link", "swap"}
        /\ l \in QueuedPcs <=> pc[t] \in QueuedPcs
        /\ UNCHANGED <<tail, next, lstatus, sleader, wcount, nid, sh>>
        /\ \A u \in Threads \ {t} : peer'[u] = peer[u]
        /\ IsHead(t)' <=> IsHead(t)
        /\ l = "notify" => next[t] # NULL /\ peer'[t] = next[t]
  <1>0. pc \in [Threads -> Pcs] /\ peer \in [Threads -> Ptr]
    BY DEF TypeOK
  <1>1. ASSUME NEW l, Step(l)
        PROVE  QInv(q)'
    BY <1>1, PlainStep
  <1>2. CASE FastPath(t)
    <2>1. Step("cs")
      BY <1>0, <1>2 DEF FastPath, IsHead
    <2> QED
      BY <1>1, <2>1
  <1>3. CASE Unlock(t)
    <2>1. Step("idle")
      BY <1>0, <1>3 DEF Unlock, IsHead
    <2> QED
      BY <1>1, <2>1
  <1>4. CASE DisableStealing(t)
    <2>1. Step("free")
      BY <1>0, <1>4 DEF DisableStealing, IsHead
    <2> QED
      BY <1>1, <2>1
  <1>5. CASE AwaitFree(t)
    <2>1. Step("acquire")
      BY <1>0, <1>5 DEF AwaitFree, IsHead
    <2> QED
      BY <1>1, <2>1
  <1>6. CASE Acquire(t)
    <2>1. Step("getsucc") \/ Step("steal")
      BY <1>0, <1>6 DEF Acquire, IsHead
    <2> QED
      BY <1>1, <2>1
  <1>7. CASE GetSuccessor(t)
    <2>1. Step("castail") \/ Step("notify")
      BY <1>0, <1>7 DEF GetSuccessor, IsHead
    <2> QED
      BY <1>1, <2>1
  <1>8. CASE EnableStealing(t)
    <2>1. Step("cs")
      BY <1>0, <1>8 DEF EnableStealing, IsHead
    <2> QED
      BY <1>1, <2>1
  <1>9. CASE WaitSuccessor(t)
    <2>1. Step("notify")
      BY <1>0, <1>9 DEF WaitSuccessor, IsHead
    <2> QED
      BY <1>1, <2>1
  <1>10. CASE Sleep(t)
    <2>1. Step("spin") \/ Step("futex")
      BY <1>0, <1>10 DEF Sleep, IsHead
    <2> QED
      BY <1>1, <2>1
  <1>11. CASE FutexWait(t)
    <2>1. Step("asleep") \/ Step("awake")
      BY <1>0, <1>11 DEF FutexWait, IsHead
    <2> QED
      BY <1>1, <2>1
  <1>12. CASE Awake(t)
    <2>1. Step("spin")
      BY <1>0, <1>12 DEF Awake, IsHead
    <2> QED
      BY <1>1, <2>1
  <1>13. CASE Interrupt(t)
    <2>1. Step("futex")
      BY <1>0, <1>13 DEF Interrupt, IsHead
    <2> QED
      BY <1>1, <2>1
  <1> QED
    BY <1>2, <1>3, <1>4, <1>5, <1>6, <1>7, <1>8, <1>9, <1>10, <1>11, <1>12, <1>13

\* Going for the lock or to park instead of shuffling, a cmpxchg of the tail that
\* fails, and the store and the call that wake the new head.
LEMMA OtherSteps ==
  ASSUME TypeOK, NEW q, QInv(q), NULL \notin Threads, NEW t \in Threads,
         \/ Spin(t) /\ ~StartShuffle(t, 0)
         \/ HeadShuffle(t) /\ ~StartShuffle(t, 1)
         \/ CasTail(t) /\ tail # t
         \/ SetPstate(t) /\ pc[t] = "hwake"
  PROVE  QInv(q)'
  <1> USE DEF Goto, nodeVars, lockVars, QueuedPcs, ParkPcs, ShufflePcs
  <1> DEFINE Step(l) ==
        /\ pc' = [pc EXCEPT ![t] = l]
        /\ pc[t] \notin ShufflePcs \cup {"link", "swap"} /\ l \notin ShufflePcs \cup {"link", "swap"}
        /\ l \in QueuedPcs <=> pc[t] \in QueuedPcs
        /\ UNCHANGED <<tail, next, lstatus, sleader, wcount, nid, sh>>
        /\ \A u \in Threads \ {t} : peer'[u] = peer[u]
        /\ IsHead(t)' <=> IsHead(t)
        /\ l = "notify" => next[t] # NULL /\ peer'[t] = next[t]
  <1>0. pc \in [Threads -> Pcs]
    BY DEF TypeOK
  <1>1. ASSUME NEW l, Step(l)
        PROVE  QInv(q)'
    BY <1>1, PlainStep
  <1>2. CASE Spin(t) /\ ~StartShuffle(t, 0)
    <2>1. Step("head") \/ Step("park")
      BY <1>0, <1>2 DEF Spin, IsHead
    <2> QED
      BY <1>1, <2>1
  <1>3. CASE HeadShuffle(t) /\ ~StartShuffle(t, 1)
    <2>1. Step("steal")
      BY <1>0, <1>3 DEF HeadShuffle, IsHead
    <2> QED
      BY <1>1, <2>1
  <1>4. CASE CasTail(t) /\ tail # t
    <2>1. Step("waitsucc")
      BY <1>0, <1>4 DEF CasTail, IsHead
    <2> QED
      BY <1>1, <2>1
  <1>5. CASE SetPstate(t) /\ pc[t] = "hwake"
    <2>1. Step("hfutex")
      BY <1>0, <1>5 DEF SetPstate, IsHead
    <2> QED
      BY <1>1, <2>1
  <1> QED
    BY <1>2, <1>3, <1>4, <1>5

\* A private node is initialised: but for its socket and its status it already was.
LEMMA SlowPathStep ==
  ASSUME TypeOK, NEW q, QInv(q), NULL \notin Threads, NEW t \in Threads, SlowPath(t)
  PROVE  QInv(q)'
  <1>1. PICK n \in Homes[t] : NodeReset(t, PWAIT, n)
    BY DEF SlowPath
  <1>2. pc[t] = "idle" /\ t \in Threads /\ pc[t] \notin QueuedPcs
    BY DEF SlowPath, QueuedPcs, ParkPcs, ShufflePcs
  <1>3. next[t] = NULL /\ sleader[t] = 0 /\ wcount[t] = 0 /\ lstatus[t] = PARKED
    BY <1>2 DEF QInv, Fresh
  <1>4. UNCHANGED <<tail, next, sleader, wcount, peer, sh>>
    BY <1>1, <1>3 DEF NodeReset, TypeOK, SlowPath, lockVars
  <1>5. \A u \in Threads : pc[u] \in QueuedPcs => nid'[u] = nid[u]
    BY <1>1, <1>2 DEF NodeReset, TypeOK
  <1>6. pc'[t] = "swap" /\ \A u \in Threads \ {t} : pc'[u] = pc[u]
    BY DEF SlowPath, Goto, TypeOK
  <1>7. \A u \in Threads \ {t} : Alike(u)
    BY <1>4, <1>6 DEF Alike
  <1>8. lstatus'[t] = PWAIT /\ \A u \in Threads \ {t} : lstatus'[u] = lstatus[u]
    BY <1>1 DEF NodeReset, TypeOK
  <1>9. SameHeads
    BY <1>2, <1>3, <1>6, <1>8 DEF SameHeads, QInv, Fresh, PARKED, PWAIT, LOCKED
  <1>10. IsHead(t)' <=> IsHead(t)
    BY <1>2, <1>3, <1>6, <1>8 DEF IsHead, ShufflePcs, PARKED, PWAIT, LOCKED
  <1> QED
    BY <1>2, <1>4, <1>5, <1>6, <1>7, <1>9, <1>10, BenignStep DEF QueuedPcs, ParkPcs, ShufflePcs

\* The cmpxchg that parks a waiter.
LEMMA ParkStep ==
  ASSUME TypeOK, NEW q, QInv(q), NULL \notin Threads, NEW t \in Threads, Park(t)
  PROVE  QInv(q)'
  <1>1. /\ pc[t] = "park" /\ pc'[t] \in {"sleep", "spin"} /\ \A u \in Threads \ {t} : pc'[u] = pc[u]
        /\ UNCHANGED <<tail, next, sleader, wcount, nid, peer, sh>>
    BY DEF Park, Goto, TypeOK, lockVars
  <1>2. /\ \A u \in Threads \ {t} : lstatus'[u] = lstatus[u]
        /\ lstatus'[t] = lstatus[t] \/ (lstatus[t] = PWAIT /\ lstatus'[t] = PARKED)
    BY DEF Park, TypeOK
  <1>3. \A u \in Threads \ {t} : Alike(u)
    BY <1>1 DEF Alike
  <1>4. SameHeads
    BY <1>1, <1>2 DEF SameHeads, QInv, Fresh, PARKED, PWAIT, LOCKED, QueuedPcs
  <1>5. IsHead(t)' <=> IsHead(t)
    BY <1>1, <1>2 DEF IsHead, ShufflePcs, PARKED, PWAIT, LOCKED
  <1> QED
    BY <1>1, <1>3, <1>4, <1>5, BenignStep DEF QueuedPcs, ParkPcs, ShufflePcs

\* FutexWake: t moves on, and its wakee at most from asleep to awake.
LEMMA WakeMoves ==
  ASSUME TypeOK, NEW t \in Threads, FutexWake(t)
  PROVE  /\ pc[t] \in {"sfutex", "hfutex"}
         /\ pc'[t] = IF pc[t] = "sfutex" THEN "mark" ELSE "cs"
         /\ \A u \in Threads \ {t} : Alike(u)
         /\ UNCHANGED <<lockVars, nodeVars, should_park, sh>>
  <1> DEFINE w == Wakee(t)
             l == IF pc[t] = "sfutex" THEN "mark" ELSE "cs"
  <1>1. /\ pc' = [pc EXCEPT ![t] = l, ![w] = IF @ = "asleep" THEN "awake" ELSE @]
        /\ pc[t] \in {"sfutex", "hfutex"} /\ peer' = [peer EXCEPT ![t] = NULL]
        /\ UNCHANGED <<lockVars, nodeVars, should_park, sh>>
    BY DEF FutexWake
  <1>2. pc \in [Threads -> Pcs] /\ peer \in [Threads -> Ptr] /\ l # "asleep"
    BY DEF TypeOK
  <1> HIDE DEF w, l
  <1>3. pc'[t] = l
    BY <1>1, <1>2
  <1>4. \A u \in Threads \ {t} : pc'[u] = pc[u] \/ (pc[u] = "asleep" /\ pc'[u] = "awake")
    BY <1>1, <1>2
  <1>5. \A u \in Threads \ {t} : Alike(u)
    BY <1>1, <1>2, <1>4 DEF Alike
  <1> QED
    BY <1>1, <1>3, <1>5 DEF l

\* The new head is woken.
LEMMA WakeHeadStep ==
  ASSUME TypeOK, NEW q, QInv(q), NULL \notin Threads, NEW t \in Threads, FutexWake(t), pc[t] = "hfutex"
  PROVE  QInv(q)'
  <1>1. /\ pc'[t] = "cs" /\ \A u \in Threads \ {t} : Alike(u)
        /\ UNCHANGED <<tail, next, lstatus, sleader, wcount, nid, sh>>
    BY WakeMoves DEF lockVars, nodeVars
  <1>2. SameHeads
    <2>1. \A u \in Threads \ {t} : pc'[u] = "swap" <=> pc[u] = "swap"
      BY <1>1 DEF Alike
    <2> QED
      BY <1>1, <2>1, SameStatus
  <1>3. IsHead(t)' <=> IsHead(t)
    BY <1>1 DEF IsHead, ShufflePcs
  <1> QED
    BY <1>1, <1>2, <1>3, BenignStep DEF QueuedPcs, ParkPcs, ShufflePcs

-----------------------------------------------------------------------------
(* The steps of shuffle_waiters that leave the list alone.                   *)

LEMMA Still ==
  ASSUME NEW q, QInv(q), Calm(q, 0), NEW i \in 1..Len(q), NEW k \in 0..Len(q)
  PROVE  /\ Reached(q, k) => Reached(q, k)'
         /\ Counted(q, i, k) => Counted(q, i, k)'
         /\ \A j \in 1..Len(q) : Clean(q, i, k, q[j]) => Clean(q, i, k, q[j])'
  <1>1. Len(q) \in Nat
    BY DEF QInv, QueueOf
  <1>2. \A l \in 1..Len(q) : /\ nid'[q[l]] = nid[q[l]]
                             /\ wcount[q[l]] = 1 => wcount'[q[l]] = 1
                             /\ pc[q[l]] # "link" => pc'[q[l]] # "link"
    BY DEF Calm
  <1>3. Reached(q, k) => Reached(q, k)'
    BY <1>1, <1>2 DEF Reached
  <1>4. Counted(q, i, k) => Counted(q, i, k)'
    BY <1>1, <1>2 DEF Counted
  <1>5. ASSUME NEW j \in 1..Len(q), Clean(q, i, k, q[j])
        PROVE  Clean(q, i, k, q[j])'
    BY <1>1, <1>2, <1>5 DEF Clean
  <1> QED
    BY <1>3, <1>4, <1>5

\* The next field of a position that nobody is moved next to.
LEMMA NextOf ==
  ASSUME NEW q, QInv(q), NEW i \in 1..Len(q), ~Moved(q[i]), next[q[i]] # NULL
  PROVE  i < Len(q) /\ next[q[i]] = q[i + 1] /\ pc[q[i + 1]] # "link"
  <1>1. Len(q) \in Nat
    BY DEF QInv, QueueOf
  <1>2. LinkAt(q, i)
    BY DEF QInv
  <1> QED
    BY <1>1, <1>2 DEF LinkAt

\* While somebody shuffles and moves nobody, nobody is moved.
LEMMA NoneMoved ==
  ASSUME NEW q, QInv(q), NEW t \in Threads, pc[t] \in ShufflePcs \ MovePcs, NEW u
  PROVE  ~Moved(u)
  <1>1. PICK j \in 1..Len(q) : q[j] = t
    BY Placed DEF QInv, QueuedPcs
  <1>2. SUFFICES ASSUME NEW m \in Threads, pc[m] \in MovePcs
                 PROVE  FALSE
    BY DEF Moved, MovePcs
  <1>3. PICK k \in 1..Len(q) : q[k] = m
    BY <1>2, Placed DEF QInv, QueuedPcs, ShufflePcs, MovePcs
  <1>4. Token(q[j]) /\ Token(q[k]) /\ k # j
    BY <1>1, <1>2, <1>3 DEF Token, MovePcs, ShufflePcs
  <1> QED
    BY <1>4, OneToken

LEMMA ShuffleStep ==
  ASSUME TypeOK, NEW q, QInv(q), NULL \notin Threads, NEW t \in Threads,
         pc[t] \in ShufflePcs \ MovePcs, pc'[t] \in (ShufflePcs \ MovePcs) \cup {"spin", "head"},
         \A u \in Threads \ {t} : Alike(u),
         UNCHANGED <<tail, next, sleader, nid>>, SameHeads,
         \A u \in Threads : wcount'[u] # wcount[u] => wcount'[u] = 1 /\ pc[u] \in QueuedPcs \ {"link"},
         IsHead(t)' <=> IsHead(t),
         NEW j \in 1..Len(q), q[j] = t,
         FrameAt(q, j)', LoopAt(q, j)', AppointAt(q, j)'
  PROVE  QInv(q)'
  <1>1. /\ q \in Seq(Threads) /\ Len(q) \in Nat
        /\ \A i \in 1..Len(q) : q[i] \in Threads /\ pc[q[i]] \in QueuedPcs
        /\ \A i \in 1..Len(q) : q[i] = q[j] => i = j
        /\ Started
    BY DEF QInv, QueueOf
  <1>2. QueueOf(q)' /\ Fresh' /\ \A i \in 1..Len(q) : HeadAt(q, i)' /\ LinkAt(q, i)'
    <2>1. /\ pc[t] \notin MovePcs \cup {"link"} /\ pc'[t] \notin MovePcs \cup {"link"}
          /\ pc[t] \in QueuedPcs /\ pc'[t] \in QueuedPcs /\ pc'[t] # "notify"
      BY DEF ShufflePcs, MovePcs, QueuedPcs
    <2>2. /\ \A u \in Threads : pc[u] \notin QueuedPcs => sleader'[u] = sleader[u] /\ wcount'[u] = wcount[u]
          /\ \A u \in Threads : pc[u] = "link" => wcount'[u] = wcount[u]
      OBVIOUS
    <2> QED
      BY <2>1, <2>2, QuietStep
  <1>3. \A u \in Threads \ {t} : /\ pc'[u] = "link" <=> pc[u] = "link"
                                 /\ pc'[u] \in ShufflePcs <=> pc[u] \in ShufflePcs
    BY AlikePcs DEF Pcs, QueuedPcs
  <1>4. Calm(q, 0)
    <2>1. pc'[t] # "link"
      BY DEF ShufflePcs
    <2> QED
      BY <1>1, <1>3, <2>1 DEF Calm
  <1>5. Started'
    BY <1>1, <1>3 DEF Started
  <1>6. \A i \in 1..Len(q) : TokenAt(q, i)'
    <2>1. \A u \in Threads : Token(u)' => Token(u)
      BY <1>3 DEF Token
    <2> QED
      BY <1>4, <2>1, StayTokens
  <1>7. \A i \in 1..Len(q) : q[i] # t => FrameAt(q, i)' /\ LoopAt(q, i)' /\ MoveAt(q, i)' /\ AppointAt(q, i)'
    <2>1. \A u \in Threads : next[u] # NULL => next'[u] = next[u]
      OBVIOUS
    <2> QED
      BY <1>4, <2>1, StayOthers
  <1>8. MoveAt(q, j)'
    BY DEF MoveAt, MovePcs, ShufflePcs
  <1>9. \A i \in 1..Len(q) : FrameAt(q, i)' /\ LoopAt(q, i)' /\ MoveAt(q, i)' /\ AppointAt(q, i)'
    BY <1>1, <1>7, <1>8
  <1> QED
    BY <1>2, <1>5, <1>6, <1>9 DEF QInv

\* The current position in the loop, its last local waiter and how far it has got.
LEMMA AtLoop ==
  ASSUME NEW q, QInv(q), NEW t \in Threads, pc[t] \in ScanPcs
  PROVE  \E j \in 1..Len(q) : \E i \in j..Len(q) : \E p \in i..Len(q) :
           q[j] = t /\ LoopFrom(q, j, i, p)
  <1>1. PICK j \in 1..Len(q) : q[j] = t
    BY Placed DEF QInv, QueuedPcs, ShufflePcs, ScanPcs, WakePcs
  <1>2. LoopAt(q, j)
    BY DEF QInv
  <1> QED
    BY <1>1, <1>2 DEF LoopAt

\* What it takes to be in the loop after a step that leaves the queue as it is.
LEMMA LoopNow ==
  ASSUME NEW q, QInv(q), Calm(q, 0), NEW j \in 1..Len(q), NEW i \in j..Len(q), NEW p \in i..Len(q),
         q[i] = sh'[q[j]].last, q[p] = sh'[q[j]].prev,
         nid[q[i]] = nid[q[j]], Counted(q, j, i)', Reached(q, p), Clean(q, i, p, q[j]),
         pc'[q[j]] \in {"tailcheck", "getnext", "unlink"} \cup WakePcs =>
           p < Len(q) /\ q[p + 1] = sh'[q[j]].curr /\ Reached(q, p + 1),
         pc'[q[j]] \in {"getnext", "unlink"} \cup WakePcs =>
           p + 1 < Len(q) /\ nid[q[p + 1]] = nid[q[j]],
         pc'[q[j]] \in {"getnext", "unlink"} => i < p,
         pc'[q[j]] \in {"unlink"} \cup WakePcs /\ i < p => q[p + 2] = sh'[q[j]].nxt /\ Reached(q, p + 2),
         pc'[q[j]] = "unlink" => wcount'[q[p + 1]] = 1
  PROVE  LoopAt(q, j)'
  <1> DEFINE u == q[j]
             Behind == pc'[u] \in {"tailcheck", "getnext", "unlink"} \cup WakePcs
             Local == pc'[u] \in {"getnext", "unlink"} \cup WakePcs
             Found == pc'[u] \in {"unlink"} \cup WakePcs /\ i < p
  <1>1. Len(q) \in Nat /\ i \in 1..Len(q) /\ p \in 1..Len(q) /\ p \in 0..Len(q)
    BY DEF QInv, QueueOf
  <1>2. \A k \in 1..Len(q) : nid'[q[k]] = nid[q[k]]
    BY DEF Calm
  <1>3. (Local => Behind) /\ (Found => Local)
    OBVIOUS
  <1>4. Reached(q, p)' /\ Clean(q, i, p, u)'
    BY <1>1, Still
  <1>5. Behind => Reached(q, p + 1)'
    <2> SUFFICES ASSUME Behind
                 PROVE  Reached(q, p + 1)'
      OBVIOUS
    <2>1. p + 1 \in 0..Len(q) /\ Reached(q, p + 1)
      BY <1>1
    <2> QED
      BY <1>1, <2>1, Still
  <1>6. Found => Reached(q, p + 2)'
    <2> SUFFICES ASSUME Found
                 PROVE  Reached(q, p + 2)'
      OBVIOUS
    <2>1. p + 2 \in 0..Len(q) /\ Reached(q, p + 2)
      BY <1>1, <1>3
    <2> QED
      BY <1>1, <2>1, Still
  <1>7. Local => nid'[q[p + 1]] = nid'[u]
    <2> SUFFICES ASSUME Local
                 PROVE  nid'[q[p + 1]] = nid'[u]
      OBVIOUS
    <2>1. p + 1 \in 1..Len(q) /\ nid[q[p + 1]] = nid[u]
      BY <1>1
    <2> QED
      BY <1>2, <2>1
  <1>8. nid'[q[i]] = nid'[u]
    BY <1>1, <1>2
  <1>9. LoopFrom(q, j, i, p)'
    BY <1>4, <1>5, <1>6, <1>7, <1>8 DEF LoopFrom
  <1> QED
    BY <1>9 DEF LoopAt

\* The frame of a step that stores one local found behind t.
LEMMA FrameNow ==
  ASSUME NEW q, NEW j, FrameAt(q, j), pc[q[j]] \in ShufflePcs,
         \A x \in {sh'[q[j]].prev, sh'[q[j]].last, sh'[q[j]].curr, sh'[q[j]].nxt,
                   sh'[q[j]].leader} :
           \/ x = NULL
           \/ On(q, j, x)
           \/ x \in {sh[q[j]].prev, sh[q[j]].last, sh[q[j]].curr, sh[q[j]].nxt,
                     sh[q[j]].leader}
  PROVE  FrameAt(q, j)'
  BY ZenonT(60) DEF FrameAt, On

\* Leaving the loop: the last waiter found leads on.
LEMMA LeaveKeeps ==
  ASSUME TypeOK, NEW q, QInv(q), NULL \notin Threads, NEW t \in Threads,
         pc[t] \in ScanPcs, Leave(t),
         UNCHANGED <<tail, next, lstatus, sleader, wcount, nid, peer>>
  PROVE  QInv(q)'
  <1>1. PICK j \in 1..Len(q) : \E i \in j..Len(q) : \E p \in i..Len(q) : q[j] = t /\ LoopFrom(q, j, i, p)
    BY AtLoop
  <1>2. PICK i \in j..Len(q) : \E p \in i..Len(q) : q[j] = t /\ LoopFrom(q, j, i, p)
    BY <1>1
  <1>3. q[j] = t /\ q[i] = sh[t].last /\ Counted(q, j, i)
    BY <1>2 DEF LoopFrom
  <1>4. /\ pc'[t] = "appoint" /\ sh'[t] = [sh[t] EXCEPT !.leader = sh[t].last]
        /\ sh[t] \in Frame
        /\ \A u \in Threads \ {t} : pc'[u] = pc[u] /\ sh'[u] = sh[u]
    BY DEF Leave, Goto, TypeOK
  <1>5. /\ sh'[t].prev = sh[t].prev /\ sh'[t].last = sh[t].last /\ sh'[t].curr = sh[t].curr
        /\ sh'[t].nxt = sh[t].nxt /\ sh'[t].leader = sh[t].last
        /\ sh'[t].is_next_waiter = sh[t].is_next_waiter
    BY <1>4 DEF Frame
  <1>6. q \in Seq(Threads) /\ Len(q) \in Nat /\ i \in 1..Len(q) /\ i - 1 \in 0..Len(q)
    BY DEF QInv, QueueOf
  <1>7. Calm(q, 0)
    BY <1>4, <1>6 DEF Calm
  <1>8. FrameAt(q, j)'
    <2>1. FrameAt(q, j) /\ pc[q[j]] \in ShufflePcs
      BY <1>3 DEF QInv, ScanPcs, WakePcs, ShufflePcs
    <2> QED
      BY <1>3, <1>5, <2>1, FrameNow
  <1>9. LoopAt(q, j)'
    BY <1>3, <1>4 DEF LoopAt, ScanPcs, WakePcs
  <1>10. AppointAt(q, j)'
    <2>1. Counted(q, j, i - 1)
      BY <1>3, <1>6 DEF Counted
    <2>2. Counted(q, j, i - 1)'
      BY <1>6, <1>7, <2>1, Still
    <2> QED
      BY <1>3, <1>4, <1>5, <2>2 DEF AppointAt
  <1>11. IsHead(t)' <=> IsHead(t)
    BY <1>4, <1>5 DEF IsHead, ShufflePcs, ScanPcs, WakePcs
  <1>12. SameHeads
    BY <1>4, SameStatus DEF ScanPcs, WakePcs
  <1>13. \A u \in Threads \ {t} : Alike(u)
    BY <1>4 DEF Alike
  <1> QED
    BY <1>3, <1>4, <1>8, <1>9, <1>10, <1>11, <1>12, <1>13, ShuffleStep
    DEF ShufflePcs, MovePcs, ScanPcs, WakePcs

\* A step inside the loop that changes at most one local: what is left to show.
LEMMA LoopStep ==
  ASSUME TypeOK, NEW q, QInv(q), NULL \notin Threads, NEW t \in Threads,
         pc[t] \in ScanPcs, pc'[t] \in ScanPcs, \A u \in Threads \ {t} : Alike(u),
         UNCHANGED <<tail, next, sleader, nid>>, SameHeads,
         \A u \in Threads : wcount'[u] # wcount[u] => wcount'[u] = 1 /\ pc[u] \in QueuedPcs \ {"link"},
         NEW j \in 1..Len(q), q[j] = t, sh'[t].is_next_waiter = sh[t].is_next_waiter,
         \A x \in {sh'[t].prev, sh'[t].last, sh'[t].curr, sh'[t].nxt, sh'[t].leader} :
           On(q, j, x) \/ x \in {sh[t].prev, sh[t].last, sh[t].curr, sh[t].nxt, sh[t].leader},
         Calm(q, 0) => LoopAt(q, j)'
  PROVE  QInv(q)'
  <1>1. /\ pc[t] \in ShufflePcs \ MovePcs /\ pc'[t] \in ShufflePcs \ MovePcs
        /\ pc'[t] \notin {"appoint", "link"}
    BY DEF ScanPcs, WakePcs, ShufflePcs, MovePcs
  <1>2. FrameAt(q, j)'
    <2>1. FrameAt(q, j) /\ pc[q[j]] \in ShufflePcs
      BY <1>1 DEF QInv
    <2>2. \A x \in {sh'[q[j]].prev, sh'[q[j]].last, sh'[q[j]].curr, sh'[q[j]].nxt, sh'[q[j]].leader} :
             \/ x = NULL
             \/ On(q, j, x)
             \/ x \in {sh[q[j]].prev, sh[q[j]].last, sh[q[j]].curr, sh[q[j]].nxt, sh[q[j]].leader}
      OBVIOUS
    <2> QED
      BY <2>1, <2>2, FrameNow
  <1>3. AppointAt(q, j)'
    BY <1>1 DEF AppointAt
  <1>4. IsHead(t)' <=> IsHead(t)
    BY <1>1 DEF IsHead, ShufflePcs, SameHeads
  <1>5. Calm(q, 0)
    <2>1. \A u \in Threads : pc'[u] = "link" => pc[u] = "link"
      BY <1>1 DEF Alike
    <2>2. q \in Seq(Threads)
      BY DEF QInv, QueueOf
    <2> QED
      BY <2>1, <2>2 DEF Calm
  <1> QED
    BY <1>1, <1>2, <1>3, <1>4, <1>5, ShuffleStep

\* The loop steps that leave all nodes alone, but for the one local.
LEMMA ScanStep ==
  ASSUME TypeOK, NEW q, QInv(q), NULL \notin Threads, NEW t \in Threads, Scan(t)
  PROVE  QInv(q)'
  <1>1. pc[t] = "scan" /\ UNCHANGED <<tail, next, lstatus, sleader, wcount, nid, peer>>
    BY DEF Scan, lockVars, nodeVars
  <1>2. PICK j \in 1..Len(q) : \E i \in j..Len(q) : \E p \in i..Len(q) : q[j] = t /\ LoopFrom(q, j, i, p)
    BY <1>1, AtLoop DEF ScanPcs
  <1>3. PICK i \in j..Len(q) : \E p \in i..Len(q) : q[j] = t /\ LoopFrom(q, j, i, p)
    BY <1>2
  <1>4. PICK p \in i..Len(q) : q[j] = t /\ LoopFrom(q, j, i, p)
    BY <1>3
  <1>5. /\ q[j] = t /\ q[i] = sh[t].last /\ q[p] = sh[t].prev
        /\ nid[q[i]] = nid[t] /\ Counted(q, j, i) /\ Reached(q, p) /\ Clean(q, i, p, t)
    BY <1>4 DEF LoopFrom
  <1>6. CASE Leave(t)
    BY <1>1, <1>6, LeaveKeeps DEF ScanPcs
  <1>7. CASE /\ next[sh[t].prev] # NULL /\ sh' = [sh EXCEPT ![t].curr = next[sh[t].prev]]
             /\ Goto(t, "tailcheck")
    <2>1. /\ pc'[t] = "tailcheck" /\ sh'[t] = [sh[t] EXCEPT !.curr = next[sh[t].prev]]
          /\ \A u \in Threads \ {t} : pc'[u] = pc[u] /\ sh'[u] = sh[u]
          /\ sh[t] \in Frame
      BY <1>7 DEF Goto, TypeOK
    <2>2. /\ sh'[t].prev = sh[t].prev /\ sh'[t].last = sh[t].last
          /\ sh'[t].nxt = sh[t].nxt /\ sh'[t].leader = sh[t].leader
          /\ sh'[t].curr = next[sh[t].prev] /\ sh'[t].is_next_waiter = sh[t].is_next_waiter
      BY <2>1 DEF Frame
    <2>3. Len(q) \in Nat /\ p \in 1..Len(q) /\ i \in 1..Len(q) /\ i \in 0..Len(q)
      BY DEF QInv, QueueOf
    <2>4. p < Len(q) /\ next[q[p]] = q[p + 1] /\ pc[q[p + 1]] # "link"
      <3>1. ~Moved(q[p])
        BY <1>1, NoneMoved DEF ShufflePcs, MovePcs
      <3> QED
        BY <1>5, <1>7, <2>3, <3>1, NextOf
    <2>5. On(q, j, sh'[t].curr)
      <3>1. p + 1 \in j..Len(q)
        BY <2>3, <2>4
      <3> QED
        BY <1>5, <2>2, <2>4, <3>1 DEF On
    <2>6. Reached(q, p + 1)
      BY <1>5, <2>3, <2>4 DEF Reached
    <2>7. Calm(q, 0) => LoopAt(q, j)'
      <3>1. SUFFICES ASSUME Calm(q, 0)
                     PROVE  LoopAt(q, j)'
        OBVIOUS
      <3>2. Counted(q, j, i)'
        BY <1>5, <2>3, <3>1, Still
      <3>3. /\ q[i] = sh'[q[j]].last /\ q[p] = sh'[q[j]].prev /\ q[p + 1] = sh'[q[j]].curr
            /\ pc'[q[j]] = "tailcheck" /\ nid[q[i]] = nid[q[j]] /\ Clean(q, i, p, q[j])
        BY <1>5, <2>1, <2>2, <2>4
      <3>4. pc'[q[j]] \notin {"getnext", "unlink"} \cup WakePcs
        BY <3>3 DEF WakePcs
      <3> QED
        BY <1>5, <2>4, <2>6, <3>1, <3>2, <3>3, <3>4, LoopNow
    <2>8. SameHeads
      BY <1>1, <2>1, SameStatus
    <2>9. \A u \in Threads \ {t} : Alike(u)
      BY <1>1, <2>1 DEF Alike
    <2>10. pc[t] \in ScanPcs /\ pc'[t] \in ScanPcs
      BY <1>1, <2>1 DEF ScanPcs
    <2> QED
      BY <1>1, <1>5, <2>2, <2>5, <2>7, <2>8, <2>9, <2>10, LoopStep
  <1> QED
    BY <1>6, <1>7 DEF Scan

LEMMA TailCheckStep ==
  ASSUME TypeOK, NEW q, QInv(q), NULL \notin Threads, NEW t \in Threads, TailCheck(t)
  PROVE  QInv(q)'
  <1> DEFINE curr == sh[t].curr
  <1>1. pc[t] = "tailcheck" /\ UNCHANGED <<tail, next, lstatus, sleader, wcount, nid, peer>>
    BY DEF TailCheck, lockVars, nodeVars
  <1>2. PICK j \in 1..Len(q) : \E i \in j..Len(q) : \E p \in i..Len(q) : q[j] = t /\ LoopFrom(q, j, i, p)
    BY <1>1, AtLoop DEF ScanPcs
  <1>3. PICK i \in j..Len(q) : \E p \in i..Len(q) : q[j] = t /\ LoopFrom(q, j, i, p)
    BY <1>2
  <1>4. PICK p \in i..Len(q) : q[j] = t /\ LoopFrom(q, j, i, p)
    BY <1>3
  <1>5. /\ q[j] = t /\ q[i] = sh[t].last /\ q[p] = sh[t].prev
        /\ nid[q[i]] = nid[t] /\ Counted(q, j, i) /\ Reached(q, p) /\ Clean(q, i, p, t)
        /\ p < Len(q) /\ q[p + 1] = curr /\ Reached(q, p + 1)
    BY <1>1, <1>4 DEF LoopFrom
  <1>6. /\ Len(q) \in Nat /\ tail = q[Len(q)] /\ p \in 1..Len(q) /\ i \in 1..Len(q)
        /\ p + 1 \in 1..Len(q) /\ p + 1 \in i..Len(q) /\ p + 1 \in j..Len(q) /\ i \in 0..Len(q)
    BY <1>5 DEF QInv, QueueOf
  <1>7. CASE Leave(t)
    BY <1>1, <1>7, LeaveKeeps DEF ScanPcs
  <1>8. CASE /\ nid[curr] # nid[t] /\ sh' = [sh EXCEPT ![t].prev = curr] /\ Goto(t, "ready")
    <2>1. /\ pc'[t] = "ready" /\ sh'[t] = [sh[t] EXCEPT !.prev = curr]
          /\ \A u \in Threads \ {t} : pc'[u] = pc[u] /\ sh'[u] = sh[u]
          /\ sh[t] \in Frame
      BY <1>8 DEF Goto, TypeOK
    <2>2. /\ sh'[t].prev = curr /\ sh'[t].last = sh[t].last
          /\ sh'[t].nxt = sh[t].nxt /\ sh'[t].leader = sh[t].leader
          /\ sh'[t].curr = curr /\ sh'[t].is_next_waiter = sh[t].is_next_waiter
      BY <2>1 DEF Frame
    <2> HIDE DEF curr
    <2>3. Clean(q, i, p + 1, q[j])
      BY <1>5, <1>6, <1>8 DEF Clean
    <2>4. Calm(q, 0) => LoopAt(q, j)'
      <3>1. SUFFICES ASSUME Calm(q, 0)
                     PROVE  LoopAt(q, j)'
        OBVIOUS
      <3>2. Counted(q, j, i)'
        BY <1>5, <1>6, <3>1, Still
      <3> QED
        BY <1>5, <1>6, <2>1, <2>2, <2>3, <3>1, <3>2, LoopNow DEF WakePcs
    <2>5. SameHeads
      BY <1>1, <2>1, SameStatus
    <2>6. \A u \in Threads \ {t} : Alike(u)
      BY <1>1, <2>1 DEF Alike
    <2>7. pc[t] \in ScanPcs /\ pc'[t] \in ScanPcs
      BY <1>1, <2>1 DEF ScanPcs
    <2> QED
      BY <1>1, <1>5, <2>2, <2>4, <2>5, <2>6, <2>7, LoopStep DEF curr
  <1>9. CASE /\ curr # tail /\ nid[curr] = nid[t] /\ UNCHANGED sh
             /\ Goto(t, IF nid[sh[t].prev] = nid[t] THEN "unpark" ELSE "getnext")
    <2>1. /\ pc'[t] = IF nid[sh[t].prev] = nid[t] THEN "unpark" ELSE "getnext"
          /\ \A u \in Threads \ {t} : pc'[u] = pc[u] /\ sh'[u] = sh[u]
          /\ sh'[t] = sh[t]
      BY <1>9 DEF Goto, TypeOK
    <2> HIDE DEF curr
    <2>2. p + 1 < Len(q)
      BY <1>5, <1>6, <1>9
    <2>3. nid[q[p]] = nid[t] <=> p = i
      BY <1>5, <1>6 DEF Clean
    <2>4. Calm(q, 0) => LoopAt(q, j)'
      <3>1. SUFFICES ASSUME Calm(q, 0)
                     PROVE  LoopAt(q, j)'
        OBVIOUS
      <3>2. Counted(q, j, i)'
        BY <1>5, <1>6, <3>1, Still
      <3>3. pc'[t] = IF p = i THEN "unpark" ELSE "getnext"
        BY <1>5, <2>1, <2>3
      <3>4. i < p <=> p # i
        BY <1>6
      <3> QED
        BY <1>5, <1>6, <1>9, <2>1, <2>2, <3>1, <3>2, <3>3, <3>4, LoopNow DEF WakePcs, curr
    <2>5. SameHeads
      BY <1>1, <2>1, SameStatus
    <2>6. \A u \in Threads \ {t} : Alike(u)
      BY <1>1, <2>1 DEF Alike
    <2>7. pc[t] \in ScanPcs /\ pc'[t] \in ScanPcs
      BY <1>1, <2>1 DEF ScanPcs, WakePcs
    <2> QED
      BY <1>1, <1>5, <2>1, <2>4, <2>5, <2>6, <2>7, LoopStep
  <1> QED
    BY <1>7, <1>8, <1>9 DEF TailCheck

LEMMA GetNextStep ==
  ASSUME TypeOK, NEW q, QInv(q), NULL \notin Threads, NEW t \in Threads, GetNext(t)
  PROVE  QInv(q)'
  <1> DEFINE curr == sh[t].curr
  <1>1. pc[t] = "getnext" /\ UNCHANGED <<tail, next, lstatus, sleader, wcount, nid, peer>>
    BY DEF GetNext, lockVars, nodeVars
  <1>2. PICK j \in 1..Len(q) : \E i \in j..Len(q) : \E p \in i..Len(q) : q[j] = t /\ LoopFrom(q, j, i, p)
    BY <1>1, AtLoop DEF ScanPcs
  <1>3. PICK i \in j..Len(q) : \E p \in i..Len(q) : q[j] = t /\ LoopFrom(q, j, i, p)
    BY <1>2
  <1>4. PICK p \in i..Len(q) : q[j] = t /\ LoopFrom(q, j, i, p)
    BY <1>3
  <1>5. /\ q[j] = t /\ q[i] = sh[t].last /\ q[p] = sh[t].prev
        /\ nid[q[i]] = nid[t] /\ Counted(q, j, i) /\ Reached(q, p) /\ Clean(q, i, p, t)
        /\ q[p + 1] = curr /\ Reached(q, p + 1)
        /\ p + 1 < Len(q) /\ nid[q[p + 1]] = nid[t] /\ i < p
    BY <1>1, <1>4 DEF LoopFrom
  <1>6. /\ Len(q) \in Nat /\ p \in 1..Len(q) /\ i \in 1..Len(q) /\ i \in 0..Len(q)
        /\ p + 1 \in 1..Len(q) /\ p + 2 \in j..Len(q) /\ (p + 1) + 1 = p + 2 /\ p < Len(q)
    BY <1>5 DEF QInv, QueueOf
  <1>7. CASE Leave(t)
    BY <1>1, <1>7, LeaveKeeps DEF ScanPcs
  <1>8. CASE next[curr] # NULL /\ sh' = [sh EXCEPT ![t].nxt = next[curr]] /\ Goto(t, "unpark")
    <2>1. /\ pc'[t] = "unpark" /\ sh'[t] = [sh[t] EXCEPT !.nxt = next[curr]]
          /\ \A u \in Threads \ {t} : pc'[u] = pc[u] /\ sh'[u] = sh[u]
          /\ sh[t] \in Frame
      BY <1>8 DEF Goto, TypeOK
    <2>2. /\ sh'[t].prev = sh[t].prev /\ sh'[t].last = sh[t].last
          /\ sh'[t].nxt = next[curr] /\ sh'[t].leader = sh[t].leader
          /\ sh'[t].curr = curr /\ sh'[t].is_next_waiter = sh[t].is_next_waiter
      BY <2>1 DEF Frame
    <2>3. next[curr] = q[p + 2] /\ pc[q[p + 2]] # "link"
      <3>1. ~Moved(q[p + 1])
        BY <1>1, NoneMoved DEF ShufflePcs, MovePcs
      <3>2. next[q[p + 1]] # NULL
        BY <1>5, <1>8
      <3>3. next[q[p + 1]] = q[(p + 1) + 1] /\ pc[q[(p + 1) + 1]] # "link"
        BY <1>6, <3>1, <3>2, NextOf
      <3> QED
        BY <1>5, <1>6, <3>3
    <2> HIDE DEF curr
    <2>4. On(q, j, sh'[t].nxt)
      BY <1>6, <2>2, <2>3 DEF On
    <2>5. Reached(q, p + 2)
      BY <1>5, <1>6, <2>3 DEF Reached
    <2>6. Calm(q, 0) => LoopAt(q, j)'
      <3>1. SUFFICES ASSUME Calm(q, 0)
                     PROVE  LoopAt(q, j)'
        OBVIOUS
      <3>2. Counted(q, j, i)'
        BY <1>5, <1>6, <3>1, Still
      <3>3. /\ q[i] = sh'[q[j]].last /\ q[p] = sh'[q[j]].prev /\ q[p + 1] = sh'[q[j]].curr
            /\ q[p + 2] = sh'[q[j]].nxt /\ nid[q[p + 1]] = nid[q[j]] /\ nid[q[i]] = nid[q[j]]
            /\ Clean(q, i, p, q[j]) /\ pc'[q[j]] = "unpark"
        BY <1>5, <2>1, <2>2, <2>3
      <3> QED
        BY <1>5, <1>6, <2>5, <3>1, <3>2, <3>3, LoopNow DEF WakePcs
    <2>7. SameHeads
      BY <1>1, <2>1, SameStatus
    <2>8. \A u \in Threads \ {t} : Alike(u)
      BY <1>1, <2>1 DEF Alike
    <2>9. pc[t] \in ScanPcs /\ pc'[t] \in ScanPcs
      BY <1>1, <2>1 DEF ScanPcs, WakePcs
    <2> QED
      BY <1>1, <1>5, <2>2, <2>4, <2>6, <2>7, <2>8, <2>9, LoopStep DEF curr
  <1> QED
    BY <1>7, <1>8 DEF GetNext

LEMMA ReadyStep ==
  ASSUME TypeOK, NEW q, QInv(q), NULL \notin Threads, NEW t \in Threads, Ready(t)
  PROVE  QInv(q)'
  <1>1. pc[t] = "ready" /\ UNCHANGED <<tail, next, lstatus, sleader, wcount, nid, peer>>
    BY DEF Ready, lockVars, nodeVars
  <1>2. PICK j \in 1..Len(q) : \E i \in j..Len(q) : \E p \in i..Len(q) : q[j] = t /\ LoopFrom(q, j, i, p)
    BY <1>1, AtLoop DEF ScanPcs
  <1>3. PICK i \in j..Len(q) : \E p \in i..Len(q) : q[j] = t /\ LoopFrom(q, j, i, p)
    BY <1>2
  <1>4. PICK p \in i..Len(q) : q[j] = t /\ LoopFrom(q, j, i, p)
    BY <1>3
  <1>5. /\ q[j] = t /\ q[i] = sh[t].last /\ q[p] = sh[t].prev
        /\ nid[q[i]] = nid[t] /\ Counted(q, j, i) /\ Reached(q, p) /\ Clean(q, i, p, t)
    BY <1>1, <1>4 DEF LoopFrom
  <1>6. CASE Leave(t)
    BY <1>1, <1>6, LeaveKeeps DEF ScanPcs
  <1>7. CASE Goto(t, "scan") /\ UNCHANGED sh
    <2>1. /\ pc'[t] = "scan" /\ sh'[t] = sh[t]
          /\ \A u \in Threads \ {t} : pc'[u] = pc[u] /\ sh'[u] = sh[u]
      BY <1>7 DEF Goto, TypeOK
    <2>2. Calm(q, 0) => LoopAt(q, j)'
      <3>1. SUFFICES ASSUME Calm(q, 0)
                     PROVE  LoopAt(q, j)'
        OBVIOUS
      <3>2. i \in 1..Len(q) /\ i \in 0..Len(q)
        BY DEF QInv, QueueOf
      <3>3. Counted(q, j, i)'
        BY <1>5, <3>1, <3>2, Still
      <3> QED
        BY <1>5, <2>1, <3>1, <3>3, LoopNow DEF WakePcs
    <2>3. SameHeads
      BY <1>1, <2>1, SameStatus
    <2>4. \A u \in Threads \ {t} : Alike(u)
      BY <1>1, <2>1 DEF Alike
    <2>5. pc[t] \in ScanPcs /\ pc'[t] \in ScanPcs
      BY <1>1, <2>1 DEF ScanPcs
    <2> QED
      BY <1>1, <1>5, <2>1, <2>2, <2>3, <2>4, <2>5, LoopStep
  <1> QED
    BY <1>6, <1>7 DEF Ready

\* Waking curr, if it is parked, does not disturb the scan.
LEMMA UnparkSteps ==
  ASSUME TypeOK, NEW q, QInv(q), NULL \notin Threads, NEW t \in Threads,
         Unpark(t) \/ (SetPstate(t) /\ pc[t] = "swake") \/ (FutexWake(t) /\ pc[t] = "sfutex")
  PROVE  QInv(q)'
  <1>1. /\ pc[t] \in WakePcs \ {"mark"} /\ pc'[t] \in WakePcs
        /\ \A u \in Threads \ {t} : Alike(u)
        /\ UNCHANGED <<tail, next, sleader, wcount, nid, sh>>
    <2>1. CASE Unpark(t)
      BY <2>1 DEF Unpark, Goto, TypeOK, WakePcs, Alike, lockVars
    <2>2. CASE SetPstate(t) /\ pc[t] = "swake"
      BY <2>2 DEF SetPstate, Goto, TypeOK, WakePcs, Alike, lockVars
    <2>3. CASE FutexWake(t) /\ pc[t] = "sfutex"
      BY <2>3, WakeMoves DEF WakePcs, lockVars, nodeVars
    <2> QED
      BY <2>1, <2>2, <2>3
  <1>2. PICK j \in 1..Len(q) : \E i \in j..Len(q) : \E p \in i..Len(q) : q[j] = t /\ LoopFrom(q, j, i, p)
    BY <1>1, AtLoop DEF ScanPcs
  <1>3. PICK i \in j..Len(q) : \E p \in i..Len(q) : q[j] = t /\ LoopFrom(q, j, i, p)
    BY <1>2
  <1>4. PICK p \in i..Len(q) : q[j] = t /\ LoopFrom(q, j, i, p)
    BY <1>3
  <1>5. /\ q[j] = t /\ q[i] = sh[t].last /\ q[p] = sh[t].prev
        /\ nid[q[i]] = nid[t] /\ Counted(q, j, i) /\ Reached(q, p) /\ Clean(q, i, p, t)
        /\ p < Len(q) /\ q[p + 1] = sh[t].curr /\ Reached(q, p + 1)
        /\ p + 1 < Len(q) /\ nid[q[p + 1]] = nid[t]
        /\ i < p => q[p + 2] = sh[t].nxt /\ Reached(q, p + 2)
    BY <1>1, <1>4 DEF LoopFrom
  <1>6. Calm(q, 0) => LoopAt(q, j)'
    <2>1. SUFFICES ASSUME Calm(q, 0)
                   PROVE  LoopAt(q, j)'
      OBVIOUS
    <2>2. i \in 1..Len(q) /\ i \in 0..Len(q)
      BY DEF QInv, QueueOf
    <2>3. Counted(q, j, i)'
      BY <1>5, <2>1, <2>2, Still
    <2>4. pc'[t] \notin {"getnext", "unlink"} /\ sh'[t] = sh[t]
      BY <1>1 DEF WakePcs
    <2> QED
      BY <1>1, <1>5, <2>1, <2>3, <2>4, LoopNow
  <1>7. SameHeads
    <2>1. \A u \in Threads : pc[u] \notin QueuedPcs => (pc'[u] = "swap" <=> pc[u] = "swap")
      BY <1>1 DEF Alike, WakePcs
    <2>2. CASE Unpark(t)
      <3>1. sh[t].curr \in Threads /\ pc[sh[t].curr] \in QueuedPcs
        <4>1. p + 1 \in 1..Len(q) /\ q[p + 1] \in Threads
          BY <1>5 DEF QInv, QueueOf
        <4> QED
          BY <1>5, <4>1 DEF QInv, QueueOf
      <3>2. /\ \A u \in Threads \ {sh[t].curr} : lstatus'[u] = lstatus[u]
            /\ \/ lstatus'[sh[t].curr] = lstatus[sh[t].curr]
               \/ lstatus[sh[t].curr] = PARKED /\ lstatus'[sh[t].curr] = UNPWAIT
        BY <2>2, <3>1 DEF Unpark, TypeOK
      <3> QED
        BY <2>1, <3>1, <3>2 DEF SameHeads, QInv, Fresh, PARKED, LOCKED, UNPWAIT
    <2>3. CASE UNCHANGED lstatus
      BY <2>1, <2>3, SameStatus
    <2> QED
      BY <2>2, <2>3, WakeMoves DEF SetPstate, nodeVars
  <1> QED
    BY <1>1, <1>5, <1>6, <1>7, LoopStep DEF ScanPcs

LEMMA MarkStep ==
  ASSUME TypeOK, NEW q, QInv(q), NULL \notin Threads, NEW t \in Threads, Mark(t)
  PROVE  QInv(q)'
  <1> DEFINE curr == sh[t].curr
  <1>1. /\ pc[t] = "mark" /\ UNCHANGED <<tail, next, lstatus, sleader, nid, peer>>
        /\ wcount' = [wcount EXCEPT ![curr] = wcount[t]]
    BY DEF Mark, lockVars, nodeVars
  <1>2. PICK j \in 1..Len(q) : \E i \in j..Len(q) : \E p \in i..Len(q) : q[j] = t /\ LoopFrom(q, j, i, p)
    BY <1>1, AtLoop DEF ScanPcs, WakePcs
  <1>3. PICK i \in j..Len(q) : \E p \in i..Len(q) : q[j] = t /\ LoopFrom(q, j, i, p)
    BY <1>2
  <1>4. PICK p \in i..Len(q) : q[j] = t /\ LoopFrom(q, j, i, p)
    BY <1>3
  <1>5. /\ q[j] = t /\ q[i] = sh[t].last /\ q[p] = sh[t].prev
        /\ nid[q[i]] = nid[t] /\ Counted(q, j, i) /\ Reached(q, p) /\ Clean(q, i, p, t)
        /\ p < Len(q) /\ q[p + 1] = curr /\ Reached(q, p + 1)
        /\ p + 1 < Len(q) /\ nid[q[p + 1]] = nid[t]
        /\ i < p => q[p + 2] = sh[t].nxt /\ Reached(q, p + 2)
    BY <1>1, <1>4 DEF LoopFrom, WakePcs
  <1>6. /\ Len(q) \in Nat /\ p \in 1..Len(q) /\ i \in 1..Len(q) /\ i \in 0..Len(q)
        /\ p + 1 \in 1..Len(q) /\ p + 1 \in j..Len(q) /\ \A k \in 1..Len(q) : q[k] \in Threads /\ pc[q[k]] \in QueuedPcs
    BY <1>5 DEF QInv, QueueOf
  <1>7. /\ wcount'[curr] = 1
        /\ \A u \in Threads : wcount'[u] # wcount[u] => wcount'[u] = 1 /\ pc[u] \in QueuedPcs \ {"link"}
    <2>1. curr \in Threads /\ pc[curr] \in QueuedPcs /\ pc[curr] # "link"
      BY <1>5, <1>6 DEF Reached
    <2>2. wcount[t] = 1
      BY <1>1 DEF QInv, Started, ShufflePcs
    <2> QED
      BY <1>1, <2>1, <2>2 DEF TypeOK
  <1>8. nid[q[p]] = nid[t] <=> p = i
    <2>1. p # i => p \in (i + 1)..p
      BY <1>6
    <2> QED
      BY <1>5, <2>1 DEF Clean
  <1>9. On(q, j, curr)
    BY <1>5, <1>6 DEF On
  <1>10. SUFFICES ASSUME \/ /\ p = i
                            /\ sh' = [sh EXCEPT ![t] = [@ EXCEPT !.last = curr, !.prev = curr, !.one_shuffle = 1]]
                            /\ Goto(t, "ready")
                         \/ p # i /\ Goto(t, "unlink") /\ UNCHANGED sh
                  PROVE  QInv(q)'
    BY <1>5, <1>8 DEF Mark
  <1>11. pc'[t] \in {"ready", "unlink"} /\ \A u \in Threads \ {t} : pc'[u] = pc[u] /\ sh'[u] = sh[u]
    BY <1>10 DEF Goto, TypeOK
  <1>12. SameHeads
    BY <1>1, <1>11, SameStatus
  <1>13. \A u \in Threads \ {t} : Alike(u)
    BY <1>1, <1>11 DEF Alike
  <1>14. pc[t] \in ScanPcs /\ pc'[t] \in ScanPcs
    BY <1>1, <1>11 DEF ScanPcs, WakePcs
  <1>15. CASE p = i
    <2>1. /\ pc'[t] = "ready"
          /\ sh'[t] = [sh[t] EXCEPT !.last = curr, !.prev = curr, !.one_shuffle = 1]
          /\ sh[t] \in Frame
      BY <1>10, <1>15 DEF Goto, TypeOK
    <2>2. /\ sh'[t].prev = curr /\ sh'[t].last = curr
          /\ sh'[t].nxt = sh[t].nxt /\ sh'[t].leader = sh[t].leader
          /\ sh'[t].curr = curr /\ sh'[t].is_next_waiter = sh[t].is_next_waiter
      BY <2>1 DEF Frame
    <2> HIDE DEF curr
    <2>3. Calm(q, 0) => LoopAt(q, j)'
      <3>1. SUFFICES ASSUME Calm(q, 0)
                     PROVE  LoopAt(q, j)'
        OBVIOUS
      <3>2. Counted(q, j, i)'
        BY <1>5, <1>6, <3>1, Still
      <3>3. Counted(q, j, p + 1)' /\ Clean(q, p + 1, p + 1, q[j])
        BY <1>5, <1>6, <1>7, <1>15, <3>2 DEF Counted, Clean
      <3>4. p + 1 \in (p + 1)..Len(q)
        BY <1>6
      <3> QED
        BY <1>5, <1>6, <2>1, <2>2, <3>1, <3>3, <3>4, LoopNow DEF WakePcs
    <2> QED
      BY <1>1, <1>5, <1>7, <1>9, <1>12, <1>13, <1>14, <2>2, <2>3, LoopStep
  <1>16. CASE p # i
    <2>1. pc'[t] = "unlink" /\ sh'[t] = sh[t]
      BY <1>10, <1>16 DEF Goto, TypeOK
    <2> HIDE DEF curr
    <2>2. Calm(q, 0) => LoopAt(q, j)'
      <3>1. SUFFICES ASSUME Calm(q, 0)
                     PROVE  LoopAt(q, j)'
        OBVIOUS
      <3>2. Counted(q, j, i)' /\ i < p
        BY <1>5, <1>6, <1>16, <3>1, Still
      <3> QED
        BY <1>5, <1>6, <1>7, <2>1, <3>1, <3>2, LoopNow DEF WakePcs, curr
    <2> QED
      BY <1>1, <1>5, <1>7, <1>12, <1>13, <1>14, <2>1, <2>2, LoopStep
  <1> QED
    BY <1>15, <1>16

-----------------------------------------------------------------------------
(* How a thread comes to shuffle and whom it appoints.                       *)

\* keep_lock_local() returned 0: the successor, if there is one, leads on.
LEMMA PassStep ==
  ASSUME TypeOK, NEW q, QInv(q), NULL \notin Threads, NEW t \in Threads, PassLeadership(t)
  PROVE  QInv(q)'
  <1>1. pc[t] = "pass" /\ UNCHANGED <<tail, next, lstatus, sleader, wcount, nid, peer>>
    BY DEF PassLeadership, lockVars, nodeVars
  <1>2. PICK j \in 1..Len(q) : q[j] = t
    BY <1>1, Placed DEF QInv, QueuedPcs, ShufflePcs
  <1>3. /\ \A k \in 1..Len(q) : q[k] \in Threads
        /\ Len(q) \in Nat
    BY DEF QInv, QueueOf
  <1>4. FrameAt(q, j) /\ pc[q[j]] \in ShufflePcs /\ sh[t] \in Frame
    BY <1>1, <1>2 DEF QInv, ShufflePcs, TypeOK
  <1>5. CASE Return(t)
    <2>1. /\ pc'[t] = IF sh[t].is_next_waiter = 1 THEN "head" ELSE "spin"
          /\ \A u \in Threads \ {t} : pc'[u] = pc[u] /\ sh'[u] = sh[u]
      BY <1>5 DEF Return, Goto, TypeOK
    <2>2. FrameAt(q, j)' /\ LoopAt(q, j)' /\ AppointAt(q, j)'
      BY <1>2, <2>1 DEF FrameAt, LoopAt, AppointAt, ShufflePcs, ScanPcs, WakePcs
    <2>3. IsHead(t)' <=> IsHead(t)
      BY <1>1, <2>1 DEF IsHead, ShufflePcs
    <2>4. SameHeads
      BY <1>1, <2>1, SameStatus
    <2>5. \A u \in Threads \ {t} : Alike(u)
      BY <1>1, <2>1 DEF Alike
    <2> QED
      BY <1>1, <1>2, <2>1, <2>2, <2>3, <2>4, <2>5, ShuffleStep DEF ShufflePcs, MovePcs
  <1>6. CASE next[t] # NULL /\ sh' = [sh EXCEPT ![t].leader = next[t]] /\ Goto(t, "appoint")
    <2>1. /\ pc'[t] = "appoint" /\ sh'[t] = [sh[t] EXCEPT !.leader = next[t]]
          /\ \A u \in Threads \ {t} : pc'[u] = pc[u] /\ sh'[u] = sh[u]
      BY <1>6 DEF Goto, TypeOK
    <2>2. /\ sh'[t].prev = sh[t].prev /\ sh'[t].last = sh[t].last /\ sh'[t].curr = sh[t].curr
          /\ sh'[t].nxt = sh[t].nxt /\ sh'[t].leader = next[t]
          /\ sh'[t].is_next_waiter = sh[t].is_next_waiter
      BY <1>4, <2>1 DEF Frame
    <2>3. j + 1 \in j..Len(q) /\ next[t] = q[j + 1]
      <3>1. ~Moved(q[j])
        BY <1>1, NoneMoved DEF ShufflePcs, MovePcs
      <3> QED
        BY <1>2, <1>3, <1>6, <3>1, NextOf
    <2>4. FrameAt(q, j)'
      <3>1. On(q, j, next[t])
        BY <2>3 DEF On
      <3> QED
        BY <1>2, <1>4, <2>2, <3>1, FrameNow
    <2>5. LoopAt(q, j)'
      BY <1>2, <2>1 DEF LoopAt, ScanPcs, WakePcs
    <2>6. wcount'[q[j]] = 1
      BY <1>1, <1>2, <1>4 DEF QInv, Started
    <2>7. Counted(q, j, (j + 1) - 1)'
      BY <1>3, <2>6 DEF Counted
    <2>8. AppointAt(q, j)'
      BY <1>2, <2>1, <2>2, <2>3, <2>7 DEF AppointAt
    <2>9. IsHead(t)' <=> IsHead(t)
      BY <1>1, <2>1, <2>2 DEF IsHead, ShufflePcs
    <2>10. SameHeads
      BY <1>1, <2>1, SameStatus
    <2>11. \A u \in Threads \ {t} : Alike(u)
      BY <1>1, <2>1 DEF Alike
    <2> QED
      BY <1>1, <1>2, <2>1, <2>2, <2>4, <2>5, <2>8, <2>9, <2>10, <2>11, ShuffleStep
      DEF ShufflePcs, MovePcs
  <1> QED
    BY <1>5, <1>6 DEF PassLeadership

\* The appointed leader, or the front waiter that nobody has batched, begins.
LEMMA BeginStep ==
  ASSUME TypeOK, NEW q, QInv(q), NULL \notin Threads, NEW t \in Threads, NEW isNext \in {0, 1},
         StartShuffle(t, isNext),
         \/ isNext = 0 /\ pc[t] = "spin" /\ lstatus[t] # LOCKED /\ sleader[t] = 1
         \/ isNext = 1 /\ pc[t] = "head" /\ (wcount[t] = 0 \/ sleader[t] = 1)
  PROVE  QInv(q)'
  <1>1. /\ UNCHANGED <<tail, next, lstatus, nid, peer>>
        /\ wcount'[t] = 1 /\ sleader'[t] = 0 /\ pc'[t] \in {"scan", "pass"}
        /\ \A u \in Threads \ {t} : pc'[u] = pc[u] /\ sh'[u] = sh[u]
        /\ \A u \in Threads \ {t} : wcount'[u] = wcount[u] /\ sleader'[u] = sleader[u]
    BY DEF StartShuffle, Goto, TypeOK, lockVars
  <1>2. /\ sh'[t].prev = t /\ sh'[t].last = t /\ sh'[t].curr = NULL /\ sh'[t].nxt = NULL
        /\ sh'[t].leader = NULL /\ sh'[t].is_next_waiter = isNext
    BY DEF StartShuffle, TypeOK, NoFrame
  <1>3. pc[t] \in {"spin", "head"} /\ pc[t] \in QueuedPcs
    BY DEF QueuedPcs
  <1>4. PICK j \in 1..Len(q) : q[j] = t
    BY <1>3, Placed DEF QInv
  <1>5. /\ \A k \in 1..Len(q) : q[k] \in Threads /\ pc[q[k]] \in QueuedPcs
        /\ \A k \in 1..Len(q) : q[k] = q[j] => k = j
        /\ Len(q) \in Nat /\ Started
    BY DEF QInv, QueueOf
  <1>6. \A u \in Threads \ {t} : Alike(u)
    BY <1>1 DEF Alike
  <1>7. SameHeads
    BY <1>1, <1>3, SameStatus
  <1>8. QueueOf(q)' /\ Fresh' /\ \A i \in 1..Len(q) : HeadAt(q, i)' /\ LinkAt(q, i)'
    <2>1. IsHead(t)' <=> IsHead(t)
      <3>1. CASE isNext = 0
        BY <1>1, <1>2, <3>1 DEF IsHead, ShufflePcs
      <3>2. CASE isNext = 1
        BY <1>1, <1>2, <3>2 DEF IsHead, ShufflePcs
      <3> QED
        BY <3>1, <3>2
    <2>2. /\ pc[t] \notin MovePcs \cup {"link"} /\ pc'[t] \notin MovePcs \cup {"link"}
          /\ pc'[t] \in QueuedPcs /\ pc'[t] # "notify"
      BY <1>1, <1>3 DEF ShufflePcs, MovePcs, QueuedPcs
    <2>3. /\ \A u \in Threads : pc[u] \notin QueuedPcs => sleader'[u] = sleader[u] /\ wcount'[u] = wcount[u]
          /\ \A u \in Threads : pc[u] = "link" => wcount'[u] = wcount[u]
      BY <1>1, <1>3
    <2> QED
      BY <1>1, <1>3, <1>6, <1>7, <2>1, <2>2, <2>3, QuietStep
  <1>9. Calm(q, 0)
    BY <1>1, <1>5 DEF Calm
  <1>10. Started'
    BY <1>1, <1>5 DEF Started
  <1>11. \A i \in 1..Len(q) : q[i] # t => FrameAt(q, i)' /\ LoopAt(q, i)' /\ MoveAt(q, i)' /\ AppointAt(q, i)'
    <2>1. \A u \in Threads : next[u] # NULL => next'[u] = next[u]
      BY <1>1
    <2> QED
      BY <1>6, <1>9, <2>1, StayOthers
  <1>12. \A k \in 1..Len(q) : k # j => ~Token(q[k])
    <2>1. CASE sleader[t] = 1
      <3>1. Token(q[j])
        BY <1>4, <2>1 DEF Token
      <3> QED
        BY <3>1, OneToken
    <2>2. CASE isNext = 1 /\ wcount[t] = 0
      <3>1. j = 1
        <4>1. IsHead(q[j])
          BY <1>4, <2>2 DEF IsHead
        <4> QED
          BY <4>1 DEF QInv, HeadAt
      <3> QED
        BY <1>4, <2>2, <3>1 DEF QInv, TokenAt
    <2> QED
      BY <2>1, <2>2
  <1>13. \A k \in 1..Len(q) : k < j => wcount[q[k]] = 1
    <2>1. CASE sleader[t] = 1
      BY <1>4, <2>1 DEF QInv, TokenAt, Token
    <2>2. CASE isNext = 1
      <3>1. j = 1
        <4>1. IsHead(q[j])
          BY <1>4, <2>2 DEF IsHead
        <4> QED
          BY <4>1 DEF QInv, HeadAt
      <3> QED
        BY <3>1
    <2> QED
      BY <2>1, <2>2
  <1>14. \A i \in 1..Len(q) : TokenAt(q, i)'
    <2>1. \A k \in 1..Len(q) : k # j => ~Token(q[k])'
      BY <1>1, <1>4, <1>5, <1>12 DEF Token
    <2>2. \A k \in 1..Len(q) : k < j => wcount'[q[k]] = 1
      BY <1>9, <1>13 DEF Calm
    <2> QED
      BY <2>1, <2>2 DEF TokenAt
  <1>15. Reached(q, j) /\ Clean(q, j, j, t) /\ Counted(q, j, j)'
    <2>1. ASSUME NEW l \in 2..j
          PROVE  pc[q[l]] # "link"
      <3>1. l \in 1..Len(q) /\ (l = j \/ l < j)
        BY <1>5
      <3>2. CASE l = j
        BY <1>3, <1>4, <3>2
      <3>3. CASE l < j
        BY <1>13, <3>1, <3>3 DEF QInv, LinkAt
      <3> QED
        BY <3>1, <3>2, <3>3
    <2> QED
      BY <1>1, <1>4, <1>5, <2>1 DEF Reached, Clean, Counted
  <1>16. LoopAt(q, j)'
    <2>1. j \in j..Len(q)
      BY <1>5
    <2>2. pc'[t] \notin {"tailcheck", "getnext", "unlink"} \cup WakePcs
      BY <1>1 DEF WakePcs
    <2> QED
      BY <1>2, <1>4, <1>9, <1>15, <2>1, <2>2, LoopNow
  <1>17. FrameAt(q, j)'
    <2>1. On(q, j, t)
      BY <1>4, <1>5 DEF On
    <2> QED
      BY <1>2, <1>4, <2>1 DEF FrameAt, On
  <1>18. MoveAt(q, j)' /\ AppointAt(q, j)'
    BY <1>1, <1>4 DEF MoveAt, AppointAt, MovePcs
  <1>19. \A i \in 1..Len(q) : FrameAt(q, i)' /\ LoopAt(q, i)' /\ MoveAt(q, i)' /\ AppointAt(q, i)'
    BY <1>4, <1>5, <1>11, <1>16, <1>17, <1>18
  <1> QED
    BY <1>8, <1>10, <1>14, <1>19 DEF QInv

\* The entries of shuffle_waiters.
LEMMA BeginSteps ==
  ASSUME TypeOK, NEW q, QInv(q), NULL \notin Threads, NEW t \in Threads,
         \/ Spin(t) /\ StartShuffle(t, 0)
         \/ HeadShuffle(t) /\ StartShuffle(t, 1)
  PROVE  QInv(q)'
  <1>1. CASE Spin(t) /\ StartShuffle(t, 0)
    <2>1. pc[t] = "spin" /\ lstatus[t] # LOCKED /\ sleader[t] = 1
      <3>1. pc'[t] \in {"scan", "pass"}
        BY <1>1 DEF StartShuffle, Goto, TypeOK
      <3> QED
        BY <1>1, <3>1 DEF Spin, Goto, TypeOK
    <2> QED
      BY <1>1, <2>1, BeginStep
  <1>2. CASE HeadShuffle(t) /\ StartShuffle(t, 1)
    <2>1. pc[t] = "head" /\ (wcount[t] = 0 \/ sleader[t] = 1)
      <3>1. pc'[t] \in {"scan", "pass"}
        BY <1>2 DEF StartShuffle, Goto, TypeOK
      <3> QED
        BY <1>2, <3>1 DEF HeadShuffle, Goto, TypeOK
    <2> QED
      BY <1>2, <2>1, BeginStep
  <1> QED
    BY <1>1, <1>2

LEMMA AppointStep ==
  ASSUME TypeOK, NEW q, QInv(q), NULL \notin Threads, NEW t \in Threads, Appoint(t)
  PROVE  QInv(q)'
  <1>1. /\ pc[t] = "appoint" /\ UNCHANGED <<tail, next, lstatus, wcount, nid, peer>>
        /\ sleader' = [sleader EXCEPT ![sh[t].leader] = 1]
    BY DEF Appoint, lockVars
  <1>2. PICK j \in 1..Len(q) : q[j] = t
    BY <1>1, Placed DEF QInv, QueuedPcs, ShufflePcs
  <1>3. /\ \A k \in 1..Len(q) : q[k] \in Threads /\ pc[q[k]] \in QueuedPcs
        /\ \A k, l \in 1..Len(q) : q[k] = q[l] => k = l
        /\ Len(q) \in Nat /\ Started
    BY DEF QInv, QueueOf
  <1>4. AppointAt(q, j) /\ TokenAt(q, j)
    BY DEF QInv
  <1>5. Token(t) /\ sleader[t] = 0
    BY <1>1, <1>3 DEF Token, Started, ShufflePcs
  <1>6. PICK k \in j..Len(q) : q[k] = sh[t].leader /\ Counted(q, j, k - 1)
    BY <1>1, <1>2, <1>4 DEF AppointAt
  <1>7. /\ pc'[t] = IF sh[t].is_next_waiter = 1 THEN "head" ELSE "spin"
        /\ \A u \in Threads \ {t} : pc'[u] = pc[u] /\ sh'[u] = sh[u]
    BY DEF Appoint, Return, Goto, TypeOK
  <1>8. /\ k \in 1..Len(q) /\ q[k] \in Threads /\ sleader'[q[k]] = 1
        /\ \A u \in Threads : u # q[k] => sleader'[u] = sleader[u]
    BY <1>1, <1>3, <1>6 DEF TypeOK
  <1>9. \A i \in 1..Len(q) : i # k => ~Token(q[i])'
    <2>1. ASSUME NEW i \in 1..Len(q), i # k
          PROVE  ~Token(q[i])'
      <3>1. q[i] # q[k] /\ q[i] \in Threads
        BY <1>3, <1>8, <2>1
      <3>2. CASE i = j
        BY <1>2, <1>5, <1>7, <1>8, <3>1, <3>2 DEF Token, ShufflePcs
      <3>3. CASE i # j
        <4>1. ~Token(q[i]) /\ q[i] # t
          BY <1>2, <1>3, <1>4, <1>5, <3>3 DEF TokenAt
        <4> QED
          BY <1>7, <1>8, <3>1, <4>1 DEF Token
      <3> QED
        BY <3>2, <3>3
    <2> QED
      BY <2>1
  <1>10. \A u \in Threads \ {t} : Alike(u)
    BY <1>1, <1>7 DEF Alike
  <1>11. QueueOf(q)' /\ Fresh' /\ \A i \in 1..Len(q) : HeadAt(q, i)' /\ LinkAt(q, i)'
    <2>1. IsHead(t)' <=> IsHead(t)
      BY <1>1, <1>7 DEF IsHead, ShufflePcs
    <2>2. /\ pc[t] \notin MovePcs \cup {"link"} /\ pc'[t] \notin MovePcs \cup {"link"}
          /\ pc[t] \in QueuedPcs /\ pc'[t] \in QueuedPcs /\ pc'[t] # "notify"
      BY <1>1, <1>7 DEF ShufflePcs, MovePcs, QueuedPcs
    <2>3. /\ \A u \in Threads : pc[u] \notin QueuedPcs => sleader'[u] = sleader[u] /\ wcount'[u] = wcount[u]
          /\ \A u \in Threads : pc[u] = "link" => wcount'[u] = wcount[u]
      BY <1>1, <1>3, <1>8
    <2>4. SameHeads
      BY <1>1, <1>7, SameStatus
    <2> QED
      BY <1>1, <1>10, <2>1, <2>2, <2>3, <2>4, QuietStep
  <1>12. Calm(q, 0)
    BY <1>1, <1>3, <1>7 DEF Calm
  <1>13. Started'
    <2>1. ASSUME NEW u \in Threads, pc'[u] \in ShufflePcs
          PROVE  FALSE
      <3>1. u # t /\ pc[u] \in ShufflePcs
        BY <1>7, <2>1 DEF ShufflePcs
      <3>2. PICK i \in 1..Len(q) : q[i] = u
        BY <3>1, Placed DEF QInv, QueuedPcs
      <3>3. i # j /\ Token(q[i])
        BY <1>2, <3>1, <3>2 DEF Token
      <3> QED
        BY <1>2, <1>4, <1>5, <3>3 DEF TokenAt
    <2> QED
      BY <2>1 DEF Started
  <1>14. \A i \in 1..Len(q) : TokenAt(q, i)'
    <2>1. ASSUME NEW i \in 1..Len(q), i < k
          PROVE  wcount'[q[i]] = 1
      <3>1. CASE i < j
        BY <1>1, <1>2, <1>4, <1>5, <3>1 DEF TokenAt
      <3>2. CASE i >= j
        BY <1>1, <1>3, <1>6, <2>1, <3>2 DEF Counted
      <3> QED
        BY <1>3, <3>1, <3>2
    <2> QED
      BY <1>9, <2>1 DEF TokenAt
  <1>15. \A i \in 1..Len(q) : q[i] # t => FrameAt(q, i)' /\ LoopAt(q, i)' /\ MoveAt(q, i)' /\ AppointAt(q, i)'
    <2>1. \A u \in Threads : next[u] # NULL => next'[u] = next[u]
      BY <1>1
    <2> QED
      BY <1>10, <1>12, <2>1, StayOthers
  <1>16. FrameAt(q, j)' /\ LoopAt(q, j)' /\ MoveAt(q, j)' /\ AppointAt(q, j)'
    BY <1>2, <1>7 DEF FrameAt, ShufflePcs, LoopAt, ScanPcs, WakePcs, MoveAt, MovePcs, AppointAt
  <1>17. \A i \in 1..Len(q) : FrameAt(q, i)' /\ LoopAt(q, i)' /\ MoveAt(q, i)' /\ AppointAt(q, i)'
    BY <1>2, <1>3, <1>15, <1>16
  <1> QED
    BY <1>11, <1>13, <1>14, <1>17 DEF QInv

-----------------------------------------------------------------------------
(* The steps that store a next field and leave the queue as it is.           *)

LEMMA LinkStep ==
  ASSUME TypeOK, NEW q, QInv(q), NULL \notin Threads, NEW t \in Threads, LinkPrev(t)
  PROVE  QInv(q)'
  <1>1. /\ pc[t] = "link" /\ next' = [next EXCEPT ![peer[t]] = t]
        /\ peer' = [peer EXCEPT ![t] = NULL]
        /\ UNCHANGED <<tail, lstatus, sleader, wcount, nid, sh>>
    BY DEF LinkPrev, lockVars
  <1>2. /\ pc'[t] = "spin" /\ \A u \in Threads \ {t} : pc'[u] = pc[u] /\ sh'[u] = sh[u]
        /\ \A u \in Threads \ {t} : peer'[u] = peer[u]
    BY <1>1 DEF LinkPrev, Goto, TypeOK
  <1>3. PICK j \in 1..Len(q) : q[j] = t
    BY <1>1, Placed DEF QInv, QueuedPcs
  <1>4. /\ q \in Seq(Threads)
        /\ \A k \in 1..Len(q) : q[k] \in Threads /\ pc[q[k]] \in QueuedPcs
        /\ \A k, l \in 1..Len(q) : q[k] = q[l] => k = l
        /\ Len(q) \in Nat /\ Started /\ QueueOf(q) /\ Fresh
    BY DEF QInv, QueueOf
  <1>5. j >= 2 /\ j - 1 \in 1..Len(q) /\ peer[t] = q[j - 1]
    <2>1. LinkAt(q, j)
      BY DEF QInv
    <2> QED
      BY <1>1, <1>3, <1>4, <2>1 DEF LinkAt
  <1>6. /\ next'[q[j - 1]] = t /\ next[q[j - 1]] = NULL
        /\ \A u \in Threads : u # q[j - 1] => next'[u] = next[u]
    <2>1. LinkAt(q, j - 1) /\ (j - 1) + 1 = j
      BY <1>5 DEF QInv
    <2>2. next[q[j - 1]] = NULL
      BY <1>1, <1>3, <1>5, <2>1 DEF LinkAt
    <2> QED
      BY <1>1, <1>4, <1>5, <2>2 DEF TypeOK
  <1>7. \A u \in Threads : pc'[u] \in QueuedPcs <=> pc[u] \in QueuedPcs
    BY <1>1, <1>2 DEF QueuedPcs
  <1>8. QueueOf(q)'
    BY <1>1, <1>4, <1>7 DEF QueueOf
  <1>9. Fresh'
    BY <1>1, <1>2, <1>4, <1>5, <1>6, <1>7 DEF Fresh
  <1>10. Started'
    BY <1>1, <1>2, <1>4 DEF Started, ShufflePcs
  <1>11. \A u : Moved(u)' <=> Moved(u)
    BY <1>1, <1>2 DEF Moved, MovePcs
  <1>12. ASSUME NEW i \in 1..Len(q)
         PROVE  HeadAt(q, i)' /\ LinkAt(q, i)'
    <2>1. HeadAt(q, i) /\ LinkAt(q, i) /\ q[i] \in Threads /\ (i < Len(q) => q[i + 1] \in Threads)
      BY <1>4 DEF QInv
    <2>2. IsHead(q[i])' <=> IsHead(q[i])
      BY <1>1, <1>2, <2>1 DEF IsHead, ShufflePcs
    <2>3. HeadAt(q, i)'
      BY <1>2, <1>5, <1>6, <2>1, <2>2 DEF HeadAt
    <2>4. CASE i = j - 1
      <3>1. i < Len(q) /\ q[i + 1] = t /\ next'[q[i]] = q[i + 1] /\ pc'[q[i + 1]] # "link"
        BY <1>2, <1>3, <1>5, <1>6, <2>4
      <3>2. q[i] # t
        BY <1>3, <1>4, <1>5, <2>4
      <3> QED
        BY <1>1, <1>2, <2>1, <2>3, <3>1, <3>2 DEF LinkAt
    <2>5. CASE i # j - 1
      <3>1. next'[q[i]] = next[q[i]]
        BY <1>4, <1>5, <1>6, <2>1, <2>5
      <3>2. i < Len(q) => q[i + 1] # t /\ pc'[q[i + 1]] = pc[q[i + 1]]
        BY <1>2, <1>3, <1>4, <2>1, <2>5
      <3>3. pc'[q[i]] = "link" => pc[q[i]] = "link" /\ peer'[q[i]] = peer[q[i]]
        BY <1>2, <2>1
      <3>4. i = Len(q) \/ i < Len(q)
        BY <1>4
      <3> QED
        BY <1>1, <1>11, <2>1, <2>3, <3>1, <3>2, <3>3, <3>4 DEF LinkAt
    <2> QED
      BY <2>4, <2>5
  <1>13. Calm(q, 0)
    BY <1>1, <1>2, <1>4 DEF Calm
  <1>14. \A u \in Threads : Token(u)' => Token(u)
    BY <1>1, <1>2 DEF Token, ShufflePcs
  <1>16. \A i \in 1..Len(q) : TokenAt(q, i)'
    BY <1>13, <1>14, StayTokens
  <1>17. \A u \in Threads : next[u] # NULL => next'[u] = next[u]
    BY <1>6
  <1>18. \A i \in 1..Len(q) : q[i] # t => FrameAt(q, i)' /\ LoopAt(q, i)' /\ MoveAt(q, i)' /\ AppointAt(q, i)'
    <2>1. \A u \in Threads \ {t} : Alike(u)
      BY <1>2 DEF Alike
    <2> QED
      BY <1>13, <1>17, <2>1, StayOthers
  <1>19. FrameAt(q, j)' /\ LoopAt(q, j)' /\ MoveAt(q, j)' /\ AppointAt(q, j)'
    BY <1>2, <1>3 DEF FrameAt, ShufflePcs, LoopAt, ScanPcs, WakePcs, MoveAt, MovePcs, AppointAt
  <1>20. \A i \in 1..Len(q) : FrameAt(q, i)' /\ LoopAt(q, i)' /\ MoveAt(q, i)' /\ AppointAt(q, i)'
    BY <1>3, <1>4, <1>18, <1>19
  <1> QED
    BY <1>8, <1>9, <1>10, <1>12, <1>16, <1>20 DEF QInv

\* The position of the mover, of the last waiter it has found and of the one it
\* has stopped at.
LEMMA AtMove ==
  ASSUME NEW q, QInv(q), NEW t \in Threads, pc[t] \in MovePcs
  PROVE  \E j \in 1..Len(q) : \E i \in j..Len(q) : \E p \in (i + 2)..Len(q) :
           q[j] = t /\ MoveFrom(q, j, i, p)
  <1>1. PICK j \in 1..Len(q) : q[j] = t
    BY Placed DEF QInv, QueuedPcs, ShufflePcs, MovePcs
  <1>2. MoveAt(q, j)
    BY DEF QInv
  <1> QED
    BY <1>1, <1>2 DEF MoveAt

\* There is one mover.
LEMMA OneMover ==
  ASSUME NEW q, QInv(q), NEW t \in Threads, pc[t] \in ShufflePcs,
         NEW m \in Threads, pc[m] \in MovePcs
  PROVE  m = t
  <1>1. pc[m] \in ShufflePcs
    BY DEF MovePcs, ShufflePcs
  <1>2. PICK j \in 1..Len(q) : q[j] = t
    BY Placed DEF QInv, QueuedPcs
  <1>3. PICK k \in 1..Len(q) : q[k] = m
    BY <1>1, Placed DEF QInv, QueuedPcs
  <1>4. Token(q[j]) /\ Token(q[k])
    BY <1>1, <1>2, <1>3 DEF Token
  <1> QED
    BY <1>2, <1>3, <1>4, OneToken

\* What both stores next to the last waiter keep.
LEMMA MoveStep ==
  ASSUME TypeOK, NEW q, QInv(q), NULL \notin Threads, NEW t \in Threads,
         pc[t] \in MovePcs, pc'[t] \in {"insert", "ready"},
         \A u \in Threads \ {t} : pc'[u] = pc[u] /\ sh'[u] = sh[u],
         UNCHANGED <<tail, lstatus, sleader, wcount, nid, peer>>,
         sh'[t].is_next_waiter = sh[t].is_next_waiter,
         NEW j \in 1..Len(q), q[j] = t,
         \A u \in Threads : next'[u] # next[u] => pc[u] \in QueuedPcs \ {"notify"} /\ next'[u] # NULL,
         \A i \in 1..Len(q) : LinkAt(q, i)',
         FrameAt(q, j)', LoopAt(q, j)', MoveAt(q, j)'
  PROVE  QInv(q)'
  <1>1. /\ q \in Seq(Threads) /\ Len(q) \in Nat
        /\ \A i \in 1..Len(q) : q[i] \in Threads /\ pc[q[i]] \in QueuedPcs
        /\ \A i \in 1..Len(q) : q[i] = q[j] => i = j
        /\ Started /\ QueueOf(q) /\ Fresh
    BY DEF QInv, QueueOf
  <1>2. pc[t] \in ShufflePcs /\ pc'[t] \in ShufflePcs
    BY DEF MovePcs, ShufflePcs
  <1>3. \A u \in Threads : pc'[u] \in QueuedPcs <=> pc[u] \in QueuedPcs
    BY <1>2 DEF QueuedPcs
  <1>4. QueueOf(q)'
    BY <1>1, <1>3 DEF QueueOf
  <1>5. Fresh'
    BY <1>1, <1>3 DEF Fresh
  <1>6. Started'
    BY <1>1, <1>2 DEF Started
  <1>7. ASSUME NEW i \in 1..Len(q)
        PROVE  HeadAt(q, i)'
    <2>1. HeadAt(q, i) /\ q[i] \in Threads
      BY <1>1 DEF QInv
    <2>2. IsHead(q[i])' <=> IsHead(q[i])
      BY <1>2, <2>1 DEF IsHead, ShufflePcs
    <2>3. pc'[q[i]] = "notify" => pc[q[i]] = "notify"
      BY <1>2, <2>1 DEF ShufflePcs
    <2> QED
      BY <2>1, <2>2, <2>3 DEF HeadAt
  <1>8. Calm(q, 0)
    BY <1>1, <1>2 DEF Calm, ShufflePcs
  <1>9. \A u \in Threads : Token(u)' => Token(u)
    BY <1>2 DEF Token
  <1>10. \A i \in 1..Len(q) : TokenAt(q, i)'
    BY <1>8, <1>9, StayTokens
  <1>11. \A i \in 1..Len(q) : q[i] # t => FrameAt(q, i)' /\ LoopAt(q, i)' /\ MoveAt(q, i)' /\ AppointAt(q, i)'
    <2>1. \A u \in Threads \ {t} : Alike(u)
      BY DEF Alike
    <2> QED
      BY <1>8, <2>1, StayOthers
  <1>12. AppointAt(q, j)'
    BY DEF AppointAt
  <1>13. \A i \in 1..Len(q) : FrameAt(q, i)' /\ LoopAt(q, i)' /\ MoveAt(q, i)' /\ AppointAt(q, i)'
    BY <1>1, <1>11, <1>12
  <1> QED
    BY <1>4, <1>5, <1>6, <1>7, <1>10, <1>13 DEF QInv

LEMMA RelinkStep ==
  ASSUME TypeOK, NEW q, QInv(q), NULL \notin Threads, NEW t \in Threads, Relink(t)
  PROVE  QInv(q)'
  <1>1. /\ pc[t] = "relink" /\ next' = [next EXCEPT ![sh[t].curr] = next[sh[t].last]]
        /\ UNCHANGED <<tail, lstatus, sleader, wcount, nid, peer, sh>>
    BY DEF Relink, lockVars
  <1>2. pc'[t] = "insert" /\ \A u \in Threads \ {t} : pc'[u] = pc[u]
    BY DEF Relink, Goto, TypeOK
  <1>0. pc[t] \in MovePcs
    BY <1>1 DEF MovePcs
  <1>3. PICK j \in 1..Len(q) : \E i \in j..Len(q) : \E p \in (i + 2)..Len(q) : q[j] = t /\ MoveFrom(q, j, i, p)
    BY <1>0, AtMove
  <1>4. PICK i \in j..Len(q) : \E p \in (i + 2)..Len(q) : q[j] = t /\ MoveFrom(q, j, i, p)
    BY <1>3
  <1>p. PICK p \in (i + 2)..Len(q) : q[j] = t /\ MoveFrom(q, j, i, p)
    BY <1>4
  <1>5. /\ q[j] = t /\ q[i] = sh[t].last /\ q[i + 1] = sh[t].curr /\ q[p] = sh[t].prev
        /\ nid[q[i]] = nid[t] /\ nid[q[i + 1]] = nid[t]
        /\ Counted(q, j, i + 1) /\ Reached(q, p) /\ Clean(q, i + 1, p, t)
        /\ next[q[i]] = q[i + 2]
    BY <1>p DEF MoveFrom
  <1>6. /\ \A k \in 1..Len(q) : q[k] \in Threads /\ pc[q[k]] \in QueuedPcs
        /\ \A k, l \in 1..Len(q) : q[k] = q[l] => k = l
        /\ Len(q) \in Nat
    BY DEF QInv, QueueOf
  <1>7. /\ i \in 1..Len(q) /\ i + 1 \in 1..Len(q) /\ i + 2 \in 1..Len(q)
        /\ p \in 1..Len(q) /\ p \in 0..Len(q) /\ i + 1 \in 0..Len(q)
    BY <1>6
  <1>8. /\ next'[q[i + 1]] = q[i + 2] /\ q[i + 2] # NULL
        /\ \A u \in Threads : u # q[i + 1] => next'[u] = next[u]
    BY <1>1, <1>5, <1>6, <1>7 DEF TypeOK
  <1>9. \A u \in Threads : next'[u] # next[u] => pc[u] \in QueuedPcs \ {"notify"} /\ next'[u] # NULL
    <2>1. pc[q[i + 1]] # "notify"
      <3>1. HeadAt(q, i + 1) /\ i + 1 # 1
        BY <1>7 DEF QInv
      <3> QED
        BY <3>1 DEF HeadAt, IsHead
    <2> QED
      BY <1>6, <1>7, <1>8, <2>1
  <1>10. \A u \in Threads : Moved(u) => Moved(u)' \/ u = q[i + 1]
    <2>1. TAKE u \in Threads
    <2>2. HAVE Moved(u)
    <2>3. PICK m \in Threads : \/ pc[m] \in MovePcs /\ sh[m].last = u
                               \/ pc[m] = "relink" /\ sh[m].curr = u
      BY <2>2 DEF Moved
    <2>4. m = t
      BY <1>1, <2>3, OneMover DEF MovePcs, ShufflePcs
    <2> QED
      BY <1>1, <1>2, <1>5, <2>3, <2>4 DEF Moved, MovePcs
  <1>11. ASSUME NEW k \in 1..Len(q)
         PROVE  LinkAt(q, k)'
    <2>1. LinkAt(q, k) /\ q[k] \in Threads /\ (k < Len(q) => q[k + 1] \in Threads)
      BY <1>6 DEF QInv
    <2>2. \A u \in Threads : pc'[u] = "link" <=> pc[u] = "link"
      BY <1>1, <1>2
    <2>3. CASE k = i + 1
      <3>1. k < Len(q) /\ next'[q[k]] = q[k + 1]
        BY <1>6, <1>7, <1>8, <2>3
      <3>2. pc[q[k + 1]] # "link"
        BY <1>5, <1>6, <1>7, <2>3 DEF Reached
      <3> QED
        BY <1>1, <2>1, <2>2, <3>1, <3>2 DEF LinkAt
    <2>4. CASE k # i + 1
      <3>1. next'[q[k]] = next[q[k]] /\ q[k] # q[i + 1]
        BY <1>6, <1>7, <1>8, <2>1, <2>4
      <3>2. Moved(q[k]) => Moved(q[k])'
        BY <1>10, <2>1, <3>1
      <3>3. k = Len(q) \/ k < Len(q)
        BY <1>6
      <3> QED
        BY <1>1, <2>1, <2>2, <3>1, <3>2, <3>3 DEF LinkAt
    <2> QED
      BY <2>3, <2>4
  <1>12. FrameAt(q, j)'
    BY <1>1, <1>2, <1>5 DEF QInv, FrameAt, On, ShufflePcs
  <1>13. Calm(q, 0)
    BY <1>1, <1>2, <1>6 DEF Calm
  <1>14. Reached(q, p)' /\ Counted(q, j, i + 1)' /\ Clean(q, i + 1, p, q[j])'
    BY <1>5, <1>7, <1>13, Still
  <1>15. MoveAt(q, j)'
    <2>1. q[i] # q[i + 1]
      BY <1>6, <1>7
    <2>2. next'[q[i]] = q[i + 2]
      BY <1>5, <1>6, <1>7, <1>8, <2>1
    <2>3. MoveFrom(q, j, i, p)'
      BY <1>1, <1>2, <1>5, <1>7, <1>8, <1>14, <2>2 DEF MoveFrom
    <2> QED
      BY <1>5, <1>7, <2>3 DEF MoveAt
  <1>16. LoopAt(q, j)'
    BY <1>2, <1>5 DEF LoopAt, ScanPcs, WakePcs
  <1> QED
    BY <1>1, <1>2, <1>5, <1>9, <1>11, <1>12, <1>15, <1>16, MoveStep DEF MovePcs

LEMMA InsertStep ==
  ASSUME TypeOK, NEW q, QInv(q), NULL \notin Threads, NEW t \in Threads, Insert(t)
  PROVE  QInv(q)'
  <1>1. /\ pc[t] = "insert" /\ next' = [next EXCEPT ![sh[t].last] = sh[t].curr]
        /\ UNCHANGED <<tail, lstatus, sleader, wcount, nid, peer>>
    BY DEF Insert, lockVars
  <1>2. /\ pc'[t] = "ready"
        /\ sh'[t] = [sh[t] EXCEPT !.last = sh[t].curr, !.one_shuffle = 1]
        /\ \A u \in Threads \ {t} : pc'[u] = pc[u] /\ sh'[u] = sh[u]
    BY DEF Insert, Goto, TypeOK
  <1>3. /\ sh'[t].prev = sh[t].prev /\ sh'[t].last = sh[t].curr /\ sh'[t].curr = sh[t].curr
        /\ sh'[t].nxt = sh[t].nxt /\ sh'[t].leader = sh[t].leader
        /\ sh'[t].is_next_waiter = sh[t].is_next_waiter
    BY <1>2 DEF TypeOK, Frame
  <1>4. PICK j \in 1..Len(q) : \E i \in j..Len(q) : \E p \in (i + 2)..Len(q) : q[j] = t /\ MoveFrom(q, j, i, p)
    <2>1. pc[t] \in MovePcs
      BY <1>1 DEF MovePcs
    <2> QED
      BY <2>1, AtMove
  <1>5. PICK i \in j..Len(q) : \E p \in (i + 2)..Len(q) : q[j] = t /\ MoveFrom(q, j, i, p)
    BY <1>4
  <1>p. PICK p \in (i + 2)..Len(q) : q[j] = t /\ MoveFrom(q, j, i, p)
    BY <1>5
  <1>6. /\ q[j] = t /\ q[i] = sh[t].last /\ q[i + 1] = sh[t].curr /\ q[p] = sh[t].prev
        /\ nid[q[i]] = nid[t] /\ nid[q[i + 1]] = nid[t]
        /\ Counted(q, j, i + 1) /\ Reached(q, p) /\ Clean(q, i + 1, p, t)
        /\ next[q[i + 1]] = q[i + 2]
    BY <1>1, <1>p DEF MoveFrom
  <1>7. /\ \A k \in 1..Len(q) : q[k] \in Threads /\ pc[q[k]] \in QueuedPcs
        /\ \A k, l \in 1..Len(q) : q[k] = q[l] => k = l
        /\ Len(q) \in Nat
    BY DEF QInv, QueueOf
  <1>8. /\ i \in 1..Len(q) /\ i + 1 \in 1..Len(q) /\ i + 2 \in 1..Len(q)
        /\ p \in 1..Len(q) /\ p \in 0..Len(q) /\ i + 1 \in 0..Len(q) /\ i + 1 # j
        /\ i + 1 \in j..Len(q) /\ p \in (i + 1)..Len(q) /\ (i + 1) + 1 = i + 2
    BY <1>7
  <1>9. /\ next'[q[i]] = q[i + 1] /\ q[i + 1] # NULL
        /\ \A u \in Threads : u # q[i] => next'[u] = next[u]
    BY <1>1, <1>6, <1>7, <1>8 DEF TypeOK
  <1>10. \A u \in Threads : next'[u] # next[u] => pc[u] \in QueuedPcs \ {"notify"} /\ next'[u] # NULL
    <2>1. pc[q[i]] # "notify"
      <3>1. HeadAt(q, i)
        BY <1>8 DEF QInv
      <3>2. CASE i = j
        BY <1>1, <1>6, <3>2
      <3>3. CASE i # j
        BY <1>7, <3>1, <3>3 DEF HeadAt, IsHead
      <3> QED
        BY <3>2, <3>3
    <2> QED
      BY <1>7, <1>8, <1>9, <2>1
  <1>11. \A u \in Threads : Moved(u) => u = q[i]
    <2>1. TAKE u \in Threads
    <2>2. HAVE Moved(u)
    <2>3. PICK m \in Threads : \/ pc[m] \in MovePcs /\ sh[m].last = u
                               \/ pc[m] = "relink" /\ sh[m].curr = u
      BY <2>2 DEF Moved
    <2>4. m = t
      BY <1>1, <2>3, OneMover DEF MovePcs, ShufflePcs
    <2> QED
      BY <1>1, <1>6, <2>3, <2>4
  <1>12. ASSUME NEW k \in 1..Len(q)
         PROVE  LinkAt(q, k)'
    <2>1. LinkAt(q, k) /\ q[k] \in Threads /\ (k < Len(q) => q[k + 1] \in Threads)
      BY <1>7 DEF QInv
    <2>2. \A u \in Threads : pc'[u] = "link" <=> pc[u] = "link"
      BY <1>1, <1>2
    <2>3. CASE k = i
      <3>1. k < Len(q) /\ next'[q[k]] = q[k + 1]
        BY <1>7, <1>8, <1>9, <2>3
      <3>2. pc[q[k + 1]] # "link"
        BY <1>6, <1>7, <1>8, <2>3 DEF Reached
      <3> QED
        BY <1>1, <2>1, <2>2, <3>1, <3>2 DEF LinkAt
    <2>4. CASE k # i
      <3>1. next'[q[k]] = next[q[k]] /\ q[k] # q[i]
        BY <1>7, <1>8, <1>9, <2>1, <2>4
      <3>2. ~Moved(q[k])
        BY <1>11, <2>1, <3>1
      <3>3. k = Len(q) \/ k < Len(q)
        BY <1>7
      <3> QED
        BY <1>1, <2>1, <2>2, <3>1, <3>2, <3>3 DEF LinkAt
    <2> QED
      BY <2>3, <2>4
  <1>13. FrameAt(q, j)'
    <2>1. FrameAt(q, j) /\ pc[q[j]] \in ShufflePcs
      BY <1>1, <1>6 DEF QInv, ShufflePcs
    <2> QED
      BY <1>3, <1>6, <2>1, FrameNow
  <1>14. Calm(q, 0)
    BY <1>1, <1>2, <1>7 DEF Calm
  <1>15. Reached(q, p)' /\ Counted(q, j, i + 1)' /\ Clean(q, i + 1, p, q[j])'
    BY <1>6, <1>8, <1>14, Still
  <1>16. LoopAt(q, j)'
    <2>1. q[i + 1] = sh'[t].last /\ q[p] = sh'[t].prev /\ nid'[q[i + 1]] = nid'[t]
      BY <1>1, <1>3, <1>6
    <2> QED
      BY <1>2, <1>6, <1>8, <1>15, <2>1 DEF LoopAt, LoopFrom, WakePcs
  <1>17. MoveAt(q, j)'
    BY <1>2, <1>6 DEF MoveAt, MovePcs
  <1> QED
    BY <1>1, <1>2, <1>3, <1>6, <1>10, <1>12, <1>13, <1>16, <1>17, MoveStep DEF MovePcs

-----------------------------------------------------------------------------
(* The steps that change the queue.                                          *)

LEMMA SwapStep ==
  ASSUME TypeOK, NEW q, QInv(q), NULL \notin Threads, NEW t \in Threads, SwapTail(t)
  PROVE  QInv(Append(q, t))'
  <1> DEFINE n == Len(q)
             r == Append(q, t)
  <1>1. /\ pc[t] = "swap" /\ tail' = t /\ peer' = [peer EXCEPT ![t] = tail]
        /\ UNCHANGED <<next, lstatus, sleader, wcount, nid, sh>>
    BY DEF SwapTail, nodeVars
  <1>2. /\ q \in Seq(Threads)
        /\ \A k \in 1..n : q[k] \in Threads /\ pc[q[k]] \in QueuedPcs
        /\ \A k, l \in 1..n : q[k] = q[l] => k = l
        /\ \A u \in Threads : pc[u] \in QueuedPcs <=> \E i \in 1..n : q[i] = u
        /\ n \in Nat /\ Started /\ Fresh
        /\ tail = IF n = 0 THEN NULL ELSE q[n]
    BY DEF QInv, QueueOf
  <1>3. pc'[t] = IF n = 0 THEN "steal" ELSE "link"
    <2>1. tail = NULL <=> n = 0
      BY <1>2
    <2> QED
      BY <2>1 DEF SwapTail, Goto, TypeOK
  <1>4. /\ \A u \in Threads \ {t} : pc'[u] = pc[u] /\ sh'[u] = sh[u]
        /\ peer'[t] = tail /\ \A u \in Threads \ {t} : peer'[u] = peer[u]
    BY <1>1 DEF SwapTail, Goto, TypeOK
  <1>5. pc[t] \notin QueuedPcs /\ \A i \in 1..n : q[i] # t
    <2>1. pc[t] \notin QueuedPcs
      BY <1>1 DEF QueuedPcs, ParkPcs, ShufflePcs
    <2> QED
      BY <1>2, <2>1
  <1>6. next[t] = NULL /\ lstatus[t] = PWAIT /\ sleader[t] = 0 /\ wcount[t] = 0
    BY <1>1, <1>2, <1>5 DEF Fresh
  <1>7. /\ r \in Seq(Threads) /\ Len(r) = n + 1 /\ r[n + 1] = t
        /\ \A i \in 1..n : r[i] = q[i]
    BY <1>2
  <1> HIDE DEF r
  <1>8. QueueOf(r)'
    <2>1. \A i, j \in 1..Len(r) : r[i] = r[j] => i = j
      BY <1>2, <1>5, <1>7
    <2>2. ASSUME NEW u \in Threads
          PROVE  pc'[u] \in QueuedPcs <=> \E i \in 1..Len(r) : r[i] = u
      <3>1. CASE u = t
        <4>1. pc'[t] \in QueuedPcs
          BY <1>3 DEF QueuedPcs
        <4>2. n + 1 \in 1..Len(r)
          BY <1>2, <1>7
        <4> QED
          BY <1>7, <3>1, <4>1, <4>2
      <3>2. CASE u # t
        <4>1. pc'[u] = pc[u]
          BY <1>4, <3>2
        <4>2. \A i \in 1..n : i \in 1..Len(r)
          BY <1>2, <1>7
        <4>3. \A i \in 1..Len(r) : r[i] = u => i \in 1..n
          BY <1>2, <1>7, <3>2
        <4>4. (\E i \in 1..Len(r) : r[i] = u) <=> (\E i \in 1..n : q[i] = u)
          BY <1>7, <4>2, <4>3
        <4> QED
          BY <1>2, <4>1, <4>4
      <3> QED
        BY <3>1, <3>2
    <2>3. tail' = IF Len(r) = 0 THEN NULL ELSE r[Len(r)]
      BY <1>1, <1>2, <1>7
    <2> QED
      BY <1>7, <2>1, <2>2, <2>3 DEF QueueOf
  <1>9. Fresh'
    <2>1. pc'[t] \in QueuedPcs
      BY <1>3 DEF QueuedPcs
    <2> QED
      BY <1>1, <1>2, <1>4, <2>1 DEF Fresh
  <1>10. pc'[t] \notin ShufflePcs /\ pc'[t] \notin ScanPcs /\ pc'[t] \notin MovePcs
         /\ pc'[t] \notin {"appoint", "notify"}
    BY <1>3 DEF ShufflePcs, ScanPcs, WakePcs, MovePcs
  <1>11. Started'
    BY <1>1, <1>2, <1>4, <1>10 DEF Started
  <1>12. ASSUME NEW i \in 1..Len(r)
         PROVE  HeadAt(r, i)'
    <2>1. CASE i \in 1..n
      <3>1. HeadAt(q, i) /\ q[i] \in Threads \ {t} /\ r[i] = q[i]
        BY <1>2, <1>5, <1>7, <2>1 DEF QInv
      <3>2. IsHead(q[i])' <=> IsHead(q[i])
        BY <1>1, <1>4, <3>1 DEF IsHead
      <3> QED
        BY <1>1, <1>4, <3>1, <3>2 DEF HeadAt
    <2>2. CASE i = n + 1
      <3>1. IsHead(t)' <=> n = 0
        BY <1>1, <1>3, <1>6 DEF IsHead, ShufflePcs, PWAIT, LOCKED
      <3> QED
        BY <1>2, <1>3, <1>7, <2>2, <3>1 DEF HeadAt
    <2> QED
      BY <1>2, <1>7, <2>1, <2>2
  <1>13. \A u : Moved(u)' <=> Moved(u)
    <2>1. pc[t] \notin MovePcs
      BY <1>1 DEF MovePcs
    <2> QED
      BY <1>1, <1>4, <1>10, <2>1 DEF Moved, MovePcs
  <1>14. ASSUME NEW i \in 1..Len(r)
         PROVE  LinkAt(r, i)'
    <2>1. CASE i \in 1..n /\ i # n
      <3>1. LinkAt(q, i) /\ q[i] \in Threads \ {t} /\ q[i + 1] \in Threads \ {t} /\ i < n
            /\ r[i] = q[i] /\ r[i + 1] = q[i + 1] /\ (i >= 2 => r[i - 1] = q[i - 1])
        <4>1. i + 1 \in 1..n /\ i < n /\ (i >= 2 => i - 1 \in 1..n)
          BY <1>2, <2>1
        <4>2. LinkAt(q, i)
          BY <2>1 DEF QInv
        <4> QED
          BY <1>5, <1>7, <2>1, <4>1, <4>2
      <3>2. i < Len(r) /\ i # Len(r)
        BY <1>2, <1>7, <2>1
      <3> QED
        BY <1>1, <1>4, <1>13, <3>1, <3>2 DEF LinkAt
    <2>2. CASE i = n
      <3>1. LinkAt(q, i) /\ q[i] \in Threads \ {t} /\ r[i + 1] = t /\ i \in 1..n
            /\ r[i] = q[i] /\ (i >= 2 => r[i - 1] = q[i - 1])
        BY <1>2, <1>5, <1>7, <2>2 DEF QInv
      <3>2. next'[r[i]] = NULL /\ pc'[r[i + 1]] = "link"
        BY <1>1, <1>2, <1>3, <2>2, <3>1 DEF LinkAt
      <3> QED
        BY <1>1, <1>4, <3>1, <3>2 DEF LinkAt
    <2>3. CASE i = n + 1
      <3>1. r[i] = t /\ next'[t] = NULL /\ wcount'[t] = 0
        BY <1>1, <1>6, <1>7, <2>3
      <3>2. pc'[t] = "link" => i >= 2 /\ peer'[t] = r[i - 1]
        BY <1>2, <1>3, <1>4, <1>7, <2>3
      <3>3. ~(i < Len(r))
        BY <1>2, <1>7, <2>3
      <3> QED
        BY <3>1, <3>2, <3>3 DEF LinkAt
    <2> QED
      BY <1>2, <1>7, <2>1, <2>2, <2>3
  <1>15. Shift(q, r, 0)
    BY <1>2, <1>7 DEF Shift
  <1>16. Calm(q, 0)
    BY <1>1, <1>2, <1>4, <1>5 DEF Calm
  <1>17. ~Token(t)'
    BY <1>1, <1>6, <1>10 DEF Token
  <1>18. \A u \in Threads \ {t} : Token(u)' => Token(u)
    BY <1>1, <1>4 DEF Token
  <1>19. ASSUME NEW j \in 1..n
         PROVE  TokenAt(r, j)'
    <2>1. j \in (0 + 1)..Len(q) /\ j - 0 = j /\ q[j] \in Threads \ {t}
      BY <1>2, <1>5
    <2>2. TokenAt(q, j)
      BY DEF QInv
    <2>3. \A i \in (0 + 1)..Len(q) : Token(q[i])' => Token(q[i])
      BY <1>2, <1>5, <1>18
    <2>4. \A i \in (Len(q) - 0 + 1)..Len(r) : ~Token(r[i])'
      <3>1. \A i \in (Len(q) - 0 + 1)..Len(r) : i = n + 1
        BY <1>2, <1>7
      <3> QED
        BY <1>7, <1>17, <3>1
    <2>5. TokenAt(r, j - 0)'
      BY <1>15, <1>16, <2>1, <2>2, <2>3, <2>4, TokenKept
    <2> QED
      BY <2>1, <2>5
  <1>20. ASSUME NEW j \in 1..n
         PROVE  FrameAt(r, j)' /\ LoopAt(r, j)' /\ MoveAt(r, j)' /\ AppointAt(r, j)'
    <2>1. j \in (0 + 1)..Len(q) /\ j - 0 = j /\ q[j] \in Threads \ {t}
      BY <1>2, <1>5
    <2>2. FrameAt(q, j) /\ LoopAt(q, j) /\ MoveAt(q, j) /\ AppointAt(q, j)
      BY DEF QInv
    <2>3. pc'[q[j]] = pc[q[j]] /\ sh'[q[j]] = sh[q[j]]
      BY <1>4, <2>1
    <2>4. \A i \in (0 + 1)..Len(q) : next[q[i]] # NULL => next'[q[i]] = next[q[i]]
      BY <1>1
    <2>5. \A u \in Threads : u # NULL
      OBVIOUS
    <2>6. FrameAt(r, j - 0)'
      BY <1>15, <2>1, <2>2, <2>3, FrameKept
    <2>7. LoopAt(r, j - 0)'
      BY <1>15, <1>16, <2>1, <2>2, <2>3, LoopKept
    <2>8. MoveAt(r, j - 0)'
      BY <1>15, <1>16, <2>1, <2>2, <2>3, <2>4, <2>5, MoveKept
    <2>9. AppointAt(r, j - 0)'
      BY <1>15, <1>16, <2>1, <2>2, <2>3, AppointKept
    <2> QED
      BY <2>1, <2>6, <2>7, <2>8, <2>9
  <1>21. /\ TokenAt(r, n + 1)'
         /\ FrameAt(r, n + 1)' /\ LoopAt(r, n + 1)' /\ MoveAt(r, n + 1)' /\ AppointAt(r, n + 1)'
    BY <1>7, <1>10, <1>17 DEF TokenAt, FrameAt, LoopAt, MoveAt, AppointAt
  <1>22. \A j \in 1..Len(r) : j \in 1..n \/ j = n + 1
    BY <1>2, <1>7
  <1>23. \A j \in 1..Len(r) :
           /\ TokenAt(r, j)'
           /\ FrameAt(r, j)' /\ LoopAt(r, j)' /\ MoveAt(r, j)' /\ AppointAt(r, j)'
    BY <1>19, <1>20, <1>21, <1>22
  <1>24. QInv(r)'
    BY <1>8, <1>9, <1>11, <1>12, <1>14, <1>23 DEF QInv
  <1> QED
    BY <1>24 DEF r

\* The cmpxchg of the tail from the only node left.
LEMMA EmptyStep ==
  ASSUME TypeOK, NEW q, QInv(q), NULL \notin Threads, NEW t \in Threads, CasTail(t), tail = t
  PROVE  Len(q) = 1 /\ q[1] = t /\ QInv(<< >>)'
  <1>1. /\ pc[t] = "castail" /\ tail' = NULL /\ NodeReset(t, PARKED, NULL) /\ pc'[t] = "enable"
        /\ \A u \in Threads \ {t} : pc'[u] = pc[u]
    BY DEF CasTail, Goto, TypeOK
  <1>2. /\ q \in Seq(Threads) /\ Len(q) \in Nat
        /\ \A k, l \in 1..Len(q) : q[k] = q[l] => k = l
        /\ \A u \in Threads : pc[u] \in QueuedPcs <=> \E i \in 1..Len(q) : q[i] = u
        /\ Fresh /\ Started /\ tail = IF Len(q) = 0 THEN NULL ELSE q[Len(q)]
    BY DEF QInv, QueueOf
  <1>3. PICK j \in 1..Len(q) : q[j] = t
    BY <1>1, Placed DEF QInv, QueuedPcs
  <1>4. j = 1
    <2>1. IsHead(q[j])
      BY <1>1, <1>3 DEF IsHead
    <2> QED
      BY <2>1 DEF QInv, HeadAt
  <1>5. Len(q) = 1 /\ q[1] = t
    <2>1. Len(q) \in 1..Len(q) /\ q[Len(q)] = t
      BY <1>2, <1>3
    <2> QED
      BY <1>2, <1>3, <1>4, <2>1
  <1>6. \A u \in Threads : pc[u] \in QueuedPcs => u = t
    <2>1. \A i \in 1..Len(q) : i = 1
      BY <1>5
    <2> QED
      BY <1>2, <1>5, <2>1
  <1>7. \A u \in Threads : pc'[u] \notin QueuedPcs
    BY <1>1, <1>6 DEF QueuedPcs, ParkPcs, ShufflePcs
  <1>8. QueueOf(<< >>)'
    BY <1>1, <1>7 DEF QueueOf
  <1>9. Fresh'
    <2>1. ASSUME NEW u \in Threads
          PROVE  /\ next'[u] = NULL /\ sleader'[u] = 0 /\ wcount'[u] = 0
                 /\ lstatus'[u] = IF pc'[u] = "swap" THEN PWAIT ELSE PARKED
      <3>1. CASE u = t
        BY <1>1, <3>1 DEF NodeReset, TypeOK
      <3>2. CASE u # t
        <4>1. pc[u] \notin QueuedPcs
          BY <1>6, <3>2
        <4> QED
          BY <1>1, <1>2, <3>2, <4>1 DEF NodeReset, TypeOK, Fresh
      <3> QED
        BY <3>1, <3>2
    <2> QED
      BY <2>1 DEF Fresh
  <1>10. Started'
    BY <1>7 DEF Started, QueuedPcs
  <1> QED
    BY <1>5, <1>8, <1>9, <1>10 DEF QInv

\* Who hands the queue over is at its front, and its successor is the next on it.
LEMMA NotifySuccessor ==
  ASSUME NULL \notin Threads, NEW q, QInv(q), NEW t \in Threads, pc[t] = "notify"
  PROVE  /\ 1 \in 1..Len(q) /\ q[1] = t /\ next[t] # NULL /\ peer[t] = next[t] /\ ~Moved(t)
         /\ 2 \in 1..Len(q) /\ peer[t] = q[2] /\ q[2] \in Threads /\ q[2] # t
         /\ pc[q[2]] # "link" /\ pc[q[2]] \in QueuedPcs
  <1> DEFINE n == Len(q)
  <1>2. /\ \A k \in 1..n : q[k] \in Threads /\ pc[q[k]] \in QueuedPcs
        /\ \A k, l \in 1..n : q[k] = q[l] => k = l
        /\ n \in Nat
    BY DEF QInv, QueueOf
  <1>3. PICK j \in 1..n : q[j] = t
    BY Placed DEF QInv, QueuedPcs
  <1>4. j = 1
    <2>1. IsHead(q[j])
      BY <1>3 DEF IsHead
    <2> QED
      BY <2>1 DEF QInv, HeadAt
  <1>5. 1 \in 1..n /\ q[1] = t /\ next[t] # NULL /\ peer[t] = next[t]
    BY <1>3, <1>4 DEF QInv, HeadAt
  <1>6. ~Moved(t)
    <2>1. SUFFICES ASSUME NEW m \in Threads, pc[m] \in MovePcs, sh[m].last = t \/ sh[m].curr = t
                   PROVE  FALSE
      BY DEF Moved, MovePcs
    <2>2. PICK k \in 1..n : q[k] = m
      BY <2>1, Placed DEF QInv, QueuedPcs, ShufflePcs, MovePcs
    <2>3. k # 1
      BY <1>5, <2>1, <2>2 DEF MovePcs
    <2>4. FrameAt(q, k) /\ pc[q[k]] \in ShufflePcs
      BY <2>1, <2>2 DEF QInv, ShufflePcs, MovePcs
    <2>5. On(q, k, t)
      BY <2>1, <2>2, <2>4 DEF FrameAt
    <2> QED
      BY <1>2, <1>5, <2>3, <2>5 DEF On
  <1>7. 2 \in 1..n /\ peer[t] = q[2] /\ pc[q[2]] # "link" /\ q[2] \in Threads /\ q[2] # t
    <2>1. 1 < n /\ next[t] = q[1 + 1] /\ pc[q[1 + 1]] # "link"
      BY <1>5, <1>6, NextOf
    <2> QED
      BY <1>2, <1>5, <2>1
  <1> QED
    BY <1>2, <1>5, <1>6, <1>7

LEMMA NotifyStep ==
  ASSUME TypeOK, NEW q, QInv(q), NULL \notin Threads, NEW t \in Threads, Notify(t)
  PROVE  q # << >> /\ q[1] = t /\ QInv(Tail(q))'
  <1> DEFINE n == Len(q)
             r == Tail(q)
  <1>1. /\ pc[t] = "notify" /\ UNCHANGED <<tail, sh>>
        /\ pc'[t] \in {"hwake", "cs"}
        /\ \A u \in Threads \ {t} : pc'[u] = pc[u] /\ peer'[u] = peer[u]
    BY DEF Notify, Goto, TypeOK, lockVars
  <1>2. /\ q \in Seq(Threads)
        /\ \A k \in 1..n : q[k] \in Threads /\ pc[q[k]] \in QueuedPcs
        /\ \A k, l \in 1..n : q[k] = q[l] => k = l
        /\ \A u \in Threads : pc[u] \in QueuedPcs <=> \E i \in 1..n : q[i] = u
        /\ n \in Nat /\ Started /\ Fresh
        /\ tail = IF n = 0 THEN NULL ELSE q[n]
    BY DEF QInv, QueueOf
  <1>5. 1 \in 1..n /\ q[1] = t /\ next[t] # NULL /\ peer[t] = next[t]
    BY <1>1, NotifySuccessor
  <1>6. ~Moved(t)
    BY <1>1, NotifySuccessor
  <1>7. 2 \in 1..n /\ peer[t] = q[2] /\ pc[q[2]] # "link" /\ q[2] \in Threads /\ q[2] # t
    BY <1>1, NotifySuccessor
  <1>8. /\ lstatus'[q[2]] = LOCKED
        /\ \A u \in Threads \ {t} :
             /\ u # q[2] => lstatus'[u] = lstatus[u]
             /\ next'[u] = next[u] /\ sleader'[u] = sleader[u] /\ wcount'[u] = wcount[u]
             /\ nid'[u] = nid[u]
        /\ lstatus'[t] = PARKED /\ next'[t] = NULL /\ sleader'[t] = 0 /\ wcount'[t] = 0
    BY <1>1, <1>7 DEF Notify, TypeOK
  <1>9. /\ r \in Seq(Threads) /\ Len(r) = n - 1
        /\ \A i \in 1..(n - 1) : i + 1 \in 2..n /\ r[i] = q[i + 1]
    BY <1>2, <1>7
  <1>10. \A i \in 2..n : i \in 1..n /\ q[i] \in Threads \ {t}
    BY <1>2, <1>5
  <1> HIDE DEF r
  <1>11. QueueOf(r)'
    <2>1. \A i, k \in 1..Len(r) : r[i] = r[k] => i = k
      <3>1. SUFFICES ASSUME NEW i \in 1..Len(r), NEW k \in 1..Len(r), r[i] = r[k]
                     PROVE  i = k
        OBVIOUS
      <3>2. i + 1 \in 1..n /\ k + 1 \in 1..n /\ q[i + 1] = q[k + 1]
        BY <1>2, <1>9, <3>1
      <3>3. i + 1 = k + 1
        BY <1>2, <3>2
      <3> QED
        BY <3>3
    <2>2. ASSUME NEW u \in Threads
          PROVE  pc'[u] \in QueuedPcs <=> \E i \in 1..Len(r) : r[i] = u
      <3>1. CASE u = t
        <4>1. pc'[t] \notin QueuedPcs
          BY <1>1 DEF QueuedPcs, ParkPcs, ShufflePcs
        <4> QED
          BY <1>9, <1>10, <3>1, <4>1
      <3>2. CASE u # t
        <4>1. pc'[u] = pc[u]
          BY <1>1, <3>2
        <4>2. ASSUME NEW i \in 1..n, q[i] = u
              PROVE  \E k \in 1..Len(r) : r[k] = u
          <5>1. i # 1
            BY <1>5, <3>2, <4>2
          <5>2. i - 1 \in 1..Len(r) /\ i - 1 \in 1..(n - 1) /\ (i - 1) + 1 = i
            BY <1>2, <1>9, <5>1
          <5>3. r[i - 1] = u
            BY <1>9, <4>2, <5>2
          <5> QED
            BY <5>2, <5>3
        <4>3. ASSUME NEW k \in 1..Len(r), r[k] = u
              PROVE  \E i \in 1..n : q[i] = u
          BY <1>2, <1>9, <4>3, SMTT(30)
        <4> QED
          BY <1>2, <4>1, <4>2, <4>3
      <3> QED
        BY <3>1, <3>2
    <2>3. tail' = IF Len(r) = 0 THEN NULL ELSE r[Len(r)]
      <3>1. n # 0 /\ n - 1 # 0 /\ n - 1 \in 1..(n - 1) /\ (n - 1) + 1 = n
        BY <1>2, <1>7
      <3> QED
        BY <1>1, <1>2, <1>9, <3>1
    <2> QED
      BY <1>9, <2>1, <2>2, <2>3 DEF QueueOf
  <1>12. Fresh'
    <2>1. ASSUME NEW u \in Threads, pc'[u] \notin QueuedPcs
          PROVE  /\ next'[u] = NULL /\ sleader'[u] = 0 /\ wcount'[u] = 0
                 /\ lstatus'[u] = IF pc'[u] = "swap" THEN PWAIT ELSE PARKED
      <3>1. CASE u = t
        BY <1>1, <1>8, <3>1
      <3>2. CASE u # t
        <4>1. pc[u] \notin QueuedPcs /\ u # q[2]
          BY <1>1, <1>2, <1>7, <2>1, <3>2
        <4> QED
          BY <1>1, <1>2, <1>8, <3>2, <4>1 DEF Fresh
      <3> QED
        BY <3>1, <3>2
    <2> QED
      BY <2>1 DEF Fresh
  <1>13. Started'
    BY <1>1, <1>2, <1>8 DEF Started, ShufflePcs
  <1>14. ASSUME NEW i \in 1..Len(r)
         PROVE  HeadAt(r, i)'
    <2>1. HeadAt(q, i + 1) /\ r[i] = q[i + 1] /\ q[i + 1] \in Threads \ {t} /\ i + 1 \in 1..n
      BY <1>9, <1>10 DEF QInv
    <2>2. pc'[r[i]] = "notify" => next'[r[i]] # NULL /\ peer'[r[i]] = next'[r[i]]
      BY <1>1, <1>8, <2>1 DEF HeadAt
    <2>3. CASE i = 1
      <3>1. IsHead(r[i])'
        BY <1>8, <2>1, <2>3 DEF IsHead
      <3> QED
        BY <2>2, <2>3, <3>1 DEF HeadAt
    <2>4. CASE i # 1
      <3>0. i + 1 # 2 /\ i + 1 # 1 /\ i + 1 \in 1..n
        BY <1>2, <1>9, <2>1, <2>4
      <3>1. q[i + 1] # q[2] /\ ~IsHead(q[i + 1])
        BY <1>2, <1>7, <2>1, <3>0 DEF HeadAt
      <3>2. ~IsHead(r[i])'
        BY <1>1, <1>8, <2>1, <3>1 DEF IsHead
      <3> QED
        BY <2>2, <2>4, <3>2 DEF HeadAt
    <2> QED
      BY <2>3, <2>4
  <1>15. \A u : Moved(u)' <=> Moved(u)
    BY <1>1 DEF Moved, MovePcs
  <1>16. ASSUME NEW i \in 1..Len(r)
         PROVE  LinkAt(r, i)'
    <2>1. LinkAt(q, i + 1) /\ r[i] = q[i + 1] /\ q[i + 1] \in Threads \ {t}
      BY <1>9, <1>10 DEF QInv
    <2>2. /\ i < Len(r) => /\ i + 1 < n /\ r[i + 1] = q[(i + 1) + 1]
                            /\ q[(i + 1) + 1] \in Threads \ {t}
          /\ i = Len(r) => i + 1 = n
          /\ i = Len(r) \/ i < Len(r)
      BY <1>2, <1>9, <1>10
    <2>3. pc'[r[i]] = "link" => i >= 2 /\ peer'[r[i]] = r[i - 1] /\ wcount'[r[i]] = 0
      <3>1. SUFFICES ASSUME pc'[r[i]] = "link"
                     PROVE  i >= 2 /\ peer'[r[i]] = r[i - 1] /\ wcount'[r[i]] = 0
        OBVIOUS
      <3>2. pc[q[i + 1]] = "link"
        BY <1>1, <2>1, <3>1
      <3>3. i # 1
        BY <1>7, <3>2
      <3>4. i >= 2 /\ (i - 1) + 1 = i /\ i - 1 \in 1..(n - 1) /\ (i + 1) - 1 = i
        BY <1>2, <1>9, <3>3
      <3>5. r[i - 1] = q[i]
        BY <1>9, <3>4
      <3> QED
        BY <1>1, <1>8, <2>1, <3>2, <3>4, <3>5 DEF LinkAt
    <2>4. next'[q[i + 1]] = next[q[i + 1]] /\ (i < Len(r) => pc'[r[i + 1]] = pc[q[(i + 1) + 1]])
      BY <1>1, <1>8, <2>1, <2>2
    <2>5. i < Len(r) /\ pc'[r[i + 1]] # "link" /\ ~Moved(r[i])' => next'[r[i]] = r[i + 1]
      BY <1>15, <2>1, <2>2, <2>4 DEF LinkAt
    <2>6. i = Len(r) \/ pc'[r[i + 1]] = "link" => next'[r[i]] = NULL
      BY <2>1, <2>2, <2>4 DEF LinkAt
    <2> QED
      BY <2>3, <2>5, <2>6 DEF LinkAt
  <1>17. Shift(q, r, 1)
    BY <1>2, <1>7, <1>9 DEF Shift
  <1>18. \A i \in (1 + 1)..Len(q) : i \in 1..n /\ q[i] \in Threads \ {t}
    BY <1>10
  <1>19. Calm(q, 1)
    BY <1>1, <1>8, <1>18 DEF Calm
  <1>20. \A u \in Threads \ {t} : Token(u)' => Token(u)
    BY <1>1, <1>8 DEF Token
  <1>21. ASSUME NEW j1 \in 1..Len(r)
         PROVE  /\ TokenAt(r, j1)'
                /\ FrameAt(r, j1)' /\ LoopAt(r, j1)' /\ MoveAt(r, j1)' /\ AppointAt(r, j1)'
    <2> DEFINE j2 == j1 + 1
    <2>1. j2 \in (1 + 1)..Len(q) /\ j2 - 1 = j1 /\ q[j2] \in Threads \ {t} /\ j2 \in 1..n
      BY <1>2, <1>9, <1>18
    <2>2. /\ TokenAt(q, j2)
          /\ FrameAt(q, j2) /\ LoopAt(q, j2) /\ MoveAt(q, j2) /\ AppointAt(q, j2)
      BY <2>1 DEF QInv
    <2> HIDE DEF j2
    <2>3. \A i \in (1 + 1)..Len(q) : Token(q[i])' => Token(q[i])
      BY <1>18, <1>20
    <2>4. \A i \in (Len(q) - 1 + 1)..Len(r) : ~Token(r[i])'
      BY <1>2, <1>9
    <2>5. pc'[q[j2]] = pc[q[j2]] /\ sh'[q[j2]] = sh[q[j2]]
      BY <1>1, <2>1
    <2>6. \A i \in (1 + 1)..Len(q) : next[q[i]] # NULL => next'[q[i]] = next[q[i]]
      BY <1>8, <1>18
    <2>7. \A u \in Threads : u # NULL
      OBVIOUS
    <2>8. TokenAt(r, j2 - 1)'
      BY <1>17, <1>19, <2>1, <2>2, <2>3, <2>4, TokenKept
    <2>11. FrameAt(r, j2 - 1)'
      BY <1>17, <2>1, <2>2, <2>5, FrameKept
    <2>12. LoopAt(r, j2 - 1)'
      BY <1>17, <1>19, <2>1, <2>2, <2>5, LoopKept
    <2>13. MoveAt(r, j2 - 1)'
      BY <1>17, <1>19, <2>1, <2>2, <2>5, <2>6, <2>7, MoveKept
    <2>14. AppointAt(r, j2 - 1)'
      BY <1>17, <1>19, <2>1, <2>2, <2>5, AppointKept
    <2> QED
      BY <2>1, <2>8, <2>11, <2>12, <2>13, <2>14
  <1>22. QInv(r)'
    BY <1>11, <1>12, <1>13, <1>14, <1>16, <1>21 DEF QInv
  <1> QED
    BY <1>2, <1>5, <1>22 DEF r

\* r is q with the element behind position p moved next to position i.
MovedTo(q, r, i, p) ==
  /\ Len(r) = Len(q)
  /\ \A k \in 1..i : r[k] = q[k]
  /\ r[i + 1] = q[p + 1]
  /\ \A k \in (i + 1)..p : r[k + 1] = q[k]
  /\ \A k \in (p + 2)..Len(q) : r[k] = q[k]

\* What is at position k of q is at the same position of r, or in the same stretch.
AlsoIn(q, r, i, p, k) ==
  \E l \in 1..Len(r) : /\ r[l] = q[k]
                       /\ k \in (i + 1)..(p + 1) => l \in (i + 1)..(p + 1)
                       /\ k \notin (i + 1)..(p + 1) => l = k

\* Where the elements of q are once the one behind p is moved next to i.
LEMMA MovedNext ==
  ASSUME NEW q \in Seq(Threads), NEW i \in 1..Len(q), NEW p \in 1..Len(q), i < p, p < Len(q),
         NEW r, r = Abs!MoveForward(q, i + 1, p + 1)
  PROVE  r \in Seq(Threads) /\ MovedTo(q, r, i, p)
  <1> DEFINE S(k) == IF k = i + 1 THEN p + 1 ELSE IF k \in (i + 2)..(p + 1) THEN k - 1 ELSE k
  <1>1. Len(q) \in Nat /\ DOMAIN q = 1..Len(q) /\ i + 1 + 1 = i + 2
    OBVIOUS
  <1>2. r = [k \in 1..Len(q) |-> IF k = i + 1 THEN q[p + 1]
                                 ELSE IF k \in (i + 2)..(p + 1) THEN q[k - 1] ELSE q[k]]
    BY <1>1 DEF Abs!MoveForward
  <1>3. r \in [1..Len(q) -> Threads]
    <2>1. ASSUME NEW k \in 1..Len(q)
          PROVE  (IF k = i + 1 THEN q[p + 1]
                  ELSE IF k \in (i + 2)..(p + 1) THEN q[k - 1] ELSE q[k]) \in Threads
      <3>1. p + 1 \in 1..Len(q) /\ (k \in (i + 2)..(p + 1) => k - 1 \in 1..Len(q))
        BY <1>1
      <3> QED
        BY <3>1
    <2> QED
      BY <1>2, <2>1
  <1>4. r \in Seq(Threads) /\ Len(r) = Len(q)
    BY <1>1, <1>3
  <1>5. \A k \in 1..i : r[k] = q[k]
    BY <1>1, <1>2
  <1>6. r[i + 1] = q[p + 1]
    BY <1>1, <1>2
  <1>7. ASSUME NEW k \in (i + 1)..p
        PROVE  r[k + 1] = q[k]
    <2>1. k + 1 \in 1..Len(q) /\ k + 1 \in (i + 2)..(p + 1) /\ k + 1 # i + 1 /\ (k + 1) - 1 = k
      BY <1>1
    <2> QED
      BY <1>2, <2>1
  <1>8. \A k \in (p + 2)..Len(q) : r[k] = q[k]
    BY <1>1, <1>2
  <1> QED
    BY <1>4, <1>5, <1>6, <1>7, <1>8 DEF MovedTo

\* Each position of the one sequence is a position of the other, and the stretch
\* behind i up to p + 1 stays a stretch.
LEMMA MovedPlaces ==
  ASSUME NEW q \in Seq(Threads), NEW r, NEW i \in 1..Len(q), NEW p \in 1..Len(q), i < p, p < Len(q),
         MovedTo(q, r, i, p)
  PROVE  \A k \in 1..Len(q) : AlsoIn(q, r, i, p, k) /\ AlsoIn(r, q, i, p, k)
  <1> TAKE k \in 1..Len(q)
  <1>0. Len(r) = Len(q)
    BY DEF MovedTo
  <1>1. /\ \A l \in 1..i : r[l] = q[l]
        /\ r[i + 1] = q[p + 1]
        /\ \A l \in (i + 1)..p : r[l + 1] = q[l]
        /\ \A l \in (p + 2)..Len(q) : r[l] = q[l]
    BY DEF MovedTo
  <1>2. Len(q) \in Nat
    OBVIOUS
  <1>3. CASE k \notin (i + 1)..(p + 1)
    <2>1. k \in 1..i \/ k \in (p + 2)..Len(q)
      BY <1>2, <1>3
    <2> QED
      BY <1>0, <1>1, <1>3, <2>1 DEF AlsoIn
  <1>4. CASE k \in (i + 1)..(p + 1)
    <2>1. \E l \in 1..Len(q) : r[l] = q[k] /\ l \in (i + 1)..(p + 1)
      <3>1. CASE k = p + 1
        <4>1. i + 1 \in 1..Len(q) /\ i + 1 \in (i + 1)..(p + 1)
          BY <1>2
        <4> QED
          BY <1>1, <3>1, <4>1
      <3>2. CASE k # p + 1
        <4>1. k \in (i + 1)..p /\ k + 1 \in 1..Len(q) /\ k + 1 \in (i + 1)..(p + 1)
          BY <1>2, <1>4, <3>2
        <4> QED
          BY <1>1, <4>1
      <3> QED
        BY <3>1, <3>2
    <2>2. \E l \in 1..Len(q) : r[k] = q[l] /\ l \in (i + 1)..(p + 1)
      <3>1. CASE k = i + 1
        <4>1. p + 1 \in 1..Len(q) /\ p + 1 \in (i + 1)..(p + 1)
          BY <1>2
        <4> QED
          BY <1>1, <3>1, <4>1
      <3>2. CASE k # i + 1
        <4>1. k - 1 \in (i + 1)..p /\ k - 1 \in 1..Len(q) /\ k - 1 \in (i + 1)..(p + 1) /\ (k - 1) + 1 = k
          BY <1>2, <1>4, <3>2
        <4> QED
          BY <1>1, <4>1
      <3> QED
        BY <3>1, <3>2
    <2> QED
      BY <1>0, <1>4, <2>1, <2>2 DEF AlsoIn
  <1> QED
    BY <1>3, <1>4

LEMMA MovedDistinct ==
  ASSUME NEW q \in Seq(Threads), NEW i \in 1..Len(q), NEW p \in 1..Len(q), i < p, p < Len(q),
         NEW r, MovedTo(q, r, i, p),
         \A k, l \in 1..Len(q) : q[k] = q[l] => k = l
  PROVE  \A k, l \in 1..Len(r) : r[k] = r[l] => k = l
  <1>0. /\ Len(r) = Len(q)
        /\ \A l \in 1..i : r[l] = q[l]
        /\ r[i + 1] = q[p + 1]
        /\ \A l \in (i + 1)..p : r[l + 1] = q[l]
        /\ \A l \in (p + 2)..Len(q) : r[l] = q[l]
    BY DEF MovedTo
  <1> DEFINE S(k) == IF k = i + 1 THEN p + 1 ELSE IF k \in (i + 2)..(p + 1) THEN k - 1 ELSE k
  <1>1. Len(q) \in Nat
    OBVIOUS
  <1>2. \A k \in 1..Len(q) : S(k) \in 1..Len(q)
    BY <1>1
  <1>3. \A k, l \in 1..Len(q) : S(k) = S(l) => k = l
    BY <1>1
  <1>4. ASSUME NEW k \in 1..Len(q)
        PROVE  r[k] = q[S(k)]
    <2>2. CASE k = i + 1
      BY <1>0, <2>2
    <2>3. CASE k \in (i + 2)..(p + 1)
      <3>1. k - 1 \in (i + 1)..p /\ (k - 1) + 1 = k /\ S(k) = k - 1
        BY <1>1, <2>3
      <3> QED
        BY <1>0, <3>1
    <2>4. CASE k # i + 1 /\ k \notin (i + 2)..(p + 1)
      <3>1. (k \in 1..i \/ k \in (p + 2)..Len(q)) /\ S(k) = k
        BY <1>1, <2>4
      <3> QED
        BY <1>0, <3>1
    <2> QED
      BY <2>2, <2>3, <2>4
  <1> HIDE DEF S
  <1>5. SUFFICES ASSUME NEW k \in 1..Len(q), NEW l \in 1..Len(q), r[k] = r[l]
                 PROVE  k = l
    BY <1>0
  <1>6. q[S(k)] = q[S(l)]
    BY <1>4, <1>5
  <1>7. S(k) = S(l)
    BY <1>2, <1>6
  <1> QED
    BY <1>3, <1>7

\* The store that takes a waiter out of its place is the one that moves it forward:
\* from there on it counts as being where it will be.
LEMMA UnlinkStep ==
  ASSUME TypeOK, NEW q, QInv(q), NULL \notin Threads, NEW t \in Threads, Unlink(t)
  PROVE  \E j \in 1..Len(q) : \E i \in j..Len(q) : \E p \in (i + 1)..Len(q) :
           /\ q[j] = t /\ p + 1 < Len(q)
           /\ \A k \in (i + 1)..p : nid[q[k]] # nid[q[p + 1]]
           /\ QInv(Abs!MoveForward(q, i + 1, p + 1))'
  <1>1. /\ pc[t] = "unlink" /\ next' = [next EXCEPT ![sh[t].prev] = sh[t].nxt]
        /\ UNCHANGED <<tail, lstatus, sleader, wcount, nid, peer, sh>>
    BY DEF Unlink, lockVars
  <1>2. pc'[t] = "relink" /\ \A u \in Threads \ {t} : pc'[u] = pc[u]
    BY DEF Unlink, Goto, TypeOK
  <1>3. PICK j \in 1..Len(q) : \E i \in j..Len(q) : \E p \in i..Len(q) : q[j] = t /\ LoopFrom(q, j, i, p)
    BY <1>1, AtLoop DEF ScanPcs
  <1>4. PICK i \in j..Len(q) : \E p \in i..Len(q) : q[j] = t /\ LoopFrom(q, j, i, p)
    BY <1>3
  <1>a. PICK p \in i..Len(q) : q[j] = t /\ LoopFrom(q, j, i, p)
    BY <1>4
  <1>5. /\ q[j] = t /\ q[i] = sh[t].last /\ q[p] = sh[t].prev
        /\ nid[q[i]] = nid[t] /\ Counted(q, j, i) /\ Clean(q, i, p, t)
        /\ q[p + 1] = sh[t].curr /\ i < p /\ p + 1 < Len(q) /\ nid[q[p + 1]] = nid[t]
        /\ wcount[q[p + 1]] = 1 /\ q[p + 2] = sh[t].nxt /\ Reached(q, p + 2)
    BY <1>1, <1>a DEF LoopFrom
  <1>6. /\ q \in Seq(Threads) /\ Len(q) \in Nat /\ QueueOf(q) /\ Fresh /\ Started
        /\ \A k \in 1..Len(q) : q[k] \in Threads /\ pc[q[k]] \in QueuedPcs
        /\ \A k, l \in 1..Len(q) : q[k] = q[l] => k = l
    BY DEF QInv, QueueOf
  <1>7. /\ i \in 1..Len(q) /\ p \in 1..Len(q) /\ p < Len(q) /\ p + 2 \in 1..Len(q)
        /\ p + 1 \in 1..Len(q) /\ i + 1 \in 1..Len(q) /\ i + 1 \in (i + 1)..p /\ Len(q) \in (p + 2)..Len(q)
        /\ (i + 1) + 1 = i + 2 /\ i # p /\ j <= i
    BY <1>5, <1>6, SMTT(30)
  <1> DEFINE r == Abs!MoveForward(q, i + 1, p + 1)
  <1>r. r = Abs!MoveForward(q, i + 1, p + 1) /\ i < p
    BY <1>5
  <1> HIDE DEF r
  <1>m. r \in Seq(Threads) /\ MovedTo(q, r, i, p)
    BY <1>r, <1>6, <1>7, MovedNext
  <1>8. /\ r \in Seq(Threads) /\ Len(r) = Len(q)
        /\ \A k \in 1..i : r[k] = q[k]
        /\ r[i + 1] = q[p + 1]
        /\ \A k \in (i + 1)..p : r[k + 1] = q[k]
        /\ \A k \in (p + 2)..Len(q) : r[k] = q[k]
    BY <1>m DEF MovedTo
  <1>9. \A k, l \in 1..Len(q) : r[k] = r[l] => k = l
    <2>1. \A k, l \in 1..Len(q) : q[k] = q[l] => k = l
      BY <1>6
    <2>2. \A k, l \in 1..Len(r) : r[k] = r[l] => k = l
      <3>1. q \in Seq(Threads) /\ i \in 1..Len(q) /\ p \in 1..Len(q) /\ p < Len(q) /\ i < p
        BY <1>r, <1>6, <1>7
      <3> QED
        BY <1>m, <2>1, <3>1, MovedDistinct
    <2> QED
      BY <1>8, <2>2
  <1>10. \A k \in 1..Len(q) : AlsoIn(q, r, i, p, k) /\ AlsoIn(r, q, i, p, k)
    BY <1>m, <1>r, <1>6, <1>7, MovedPlaces
  <1>11. \A k \in 1..Len(q) : r[k] \in Threads /\ pc[r[k]] \in QueuedPcs
    BY <1>6, <1>8, <1>10 DEF AlsoIn
  <1>12. /\ next'[q[p]] = q[p + 2] /\ q[p + 2] # NULL
         /\ \A u \in Threads : u # q[p] => next'[u] = next[u]
    BY <1>1, <1>5, <1>6, <1>7 DEF TypeOK
  <1>13. \A u \in Threads : (pc'[u] \in QueuedPcs <=> pc[u] \in QueuedPcs) /\ (pc'[u] = "link" <=> pc[u] = "link")
    BY <1>1, <1>2 DEF QueuedPcs, ShufflePcs
  \* Nobody up to p + 2 has still to link itself.
  <1>14. ASSUME NEW k \in 1..Len(q), k <= p + 2
         PROVE  pc[q[k]] # "link"
    <2>1. CASE k = 1
      <3>1. LinkAt(q, k)
        BY DEF QInv
      <3> QED
        BY <2>1, <3>1 DEF LinkAt
    <2>2. CASE k # 1
      <3>1. k \in 2..(p + 2)
        BY <1>6, <1>14, <2>2
      <3> QED
        BY <1>5, <3>1 DEF Reached
    <2> QED
      BY <2>1, <2>2
  <1>15. ASSUME NEW k \in 1..Len(q), k <= p + 2
         PROVE  pc[r[k]] # "link"
    <2>1. PICK l \in 1..Len(q) : /\ r[k] = q[l]
                                 /\ k \in (i + 1)..(p + 1) => l \in (i + 1)..(p + 1)
                                 /\ k \notin (i + 1)..(p + 1) => l = k
      BY <1>8, <1>10 DEF AlsoIn
    <2>2. l <= p + 2
      BY <1>6, <1>15, <2>1
    <2> QED
      BY <1>14, <2>1, <2>2
  <1>16. QueueOf(r)'
    <2>1. ASSUME NEW u \in Threads
          PROVE  pc'[u] \in QueuedPcs <=> \E k \in 1..Len(q) : r[k] = u
      <3>1. pc[u] \in QueuedPcs <=> \E k \in 1..Len(q) : q[k] = u
        BY <1>6 DEF QueueOf
      <3>2. (\E k \in 1..Len(q) : q[k] = u) <=> (\E k \in 1..Len(q) : r[k] = u)
        <4>1. \A k \in 1..Len(q) : \E l \in 1..Len(q) : r[l] = q[k]
          BY <1>8, <1>10 DEF AlsoIn
        <4>2. \A k \in 1..Len(q) : \E l \in 1..Len(q) : q[l] = r[k]
          BY <1>8, <1>10 DEF AlsoIn
        <4> QED
          BY <4>1, <4>2, Zenon
      <3> QED
        BY <1>13, <3>1, <3>2
    <2>2. tail' = IF Len(q) = 0 THEN NULL ELSE r[Len(q)]
      BY <1>1, <1>6, <1>7, <1>8 DEF QueueOf
    <2> QED
      BY <1>8, <1>9, <2>1, <2>2 DEF QueueOf
  <1>17. Fresh'
    <2>1. pc[q[p]] \in QueuedPcs
      BY <1>6, <1>7
    <2>2. pc[t] \in QueuedPcs
      BY <1>1 DEF QueuedPcs, ShufflePcs
    <2>3. \A u \in Threads : pc'[u] \notin QueuedPcs => pc[u] \notin QueuedPcs /\ pc'[u] = pc[u]
      BY <1>2, <1>13, <2>2
    <2> QED
      BY <1>1, <1>6, <1>12, <2>1, <2>3 DEF Fresh
  <1>18. Started'
    BY <1>1, <1>2, <1>6 DEF Started, ShufflePcs
  <1>19. ASSUME NEW k \in 1..Len(q)
         PROVE  HeadAt(r, k)'
    <2>1. PICK l \in 1..Len(q) : /\ r[k] = q[l]
                                 /\ k \in (i + 1)..(p + 1) => l \in (i + 1)..(p + 1)
                                 /\ k \notin (i + 1)..(p + 1) => l = k
      BY <1>8, <1>10 DEF AlsoIn
    <2>2. k = 1 <=> l = 1
      BY <1>6, <1>7, <2>1
    <2>3. IsHead(q[l])' <=> IsHead(q[l])
      BY <1>1, <1>2, <1>6 DEF IsHead, ShufflePcs
    <2>4. HeadAt(q, l)
      BY DEF QInv
    <2>5. pc'[q[l]] = "notify" => next'[q[l]] # NULL /\ peer'[q[l]] = next'[q[l]]
      <3>1. SUFFICES ASSUME pc[q[l]] = "notify"
                     PROVE  next'[q[l]] = next[q[l]]
        BY <1>1, <1>2, <1>6, <2>4 DEF HeadAt
      <3>2. IsHead(q[l])
        BY <3>1 DEF IsHead
      <3>3. l # p
        BY <1>5, <1>6, <2>4, <3>2 DEF HeadAt
      <3> QED
        BY <1>6, <1>7, <1>12, <3>3
    <2> QED
      BY <2>1, <2>2, <2>3, <2>4, <2>5 DEF HeadAt
  <1>20. \A u : ~Moved(u)
    BY <1>1, NoneMoved DEF ShufflePcs, MovePcs
  <1>21. Moved(r[i])' /\ Moved(r[i + 1])'
    BY <1>1, <1>2, <1>5, <1>7, <1>8 DEF Moved, MovePcs
  \* The next fields before the step.
  <1>22. ASSUME NEW k \in 1..Len(q)
         PROVE  /\ k < Len(q) /\ pc[q[k + 1]] # "link" => next[q[k]] = q[k + 1]
                /\ k = Len(q) \/ pc[q[k + 1]] = "link" => next[q[k]] = NULL
                /\ pc[q[k]] = "link" => peer[q[k]] = q[k - 1] /\ wcount[q[k]] = 0
    BY <1>20 DEF QInv, LinkAt
  <1>23. ASSUME NEW k \in 1..Len(q), k # p
         PROVE  next'[q[k]] = next[q[k]]
    BY <1>6, <1>7, <1>12, <1>23
  <1>24. ASSUME NEW k \in 1..Len(q)
         PROVE  LinkAt(r, k)'
    <2>1. pc'[r[k]] = "link" => k >= 2 /\ peer'[r[k]] = r[k - 1] /\ wcount'[r[k]] = 0
      <3>1. SUFFICES ASSUME pc[r[k]] = "link"
                     PROVE  k >= 2 /\ peer[r[k]] = r[k - 1] /\ wcount[r[k]] = 0
        BY <1>1, <1>11, <1>13
      <3>2. ~(k <= p + 2)
        BY <1>15, <3>1
      <3>3. k \in (p + 2)..Len(q) /\ k - 1 \in (p + 2)..Len(q) /\ k >= 2
        BY <1>6, <3>2
      <3> QED
        BY <1>8, <1>22, <3>1, <3>3
    <2>2. ASSUME k < Len(q), ~Moved(r[k])', pc[r[k + 1]] # "link"
          PROVE  next'[r[k]] = r[k + 1]
      <3>1. k # i /\ k # i + 1
        BY <1>21, <2>2
      <3>2. CASE k < i
        <4>1. k \in 1..i /\ k + 1 \in 1..i /\ k # p
          BY <1>6, <3>2
        <4>2. r[k] = q[k] /\ r[k + 1] = q[k + 1]
          BY <1>8, <4>1
        <4>3. next[q[k]] = q[k + 1]
          BY <1>22, <2>2, <4>2
        <4> QED
          BY <1>23, <4>1, <4>2, <4>3
      <3>3. CASE k \in (i + 2)..p
        <4> DEFINE l == k - 1
        <4>1. l \in 1..Len(q) /\ l \in (i + 1)..p /\ l + 1 = k /\ l # p /\ k \in (i + 1)..p /\ k <= p + 2 /\ l < Len(q)
          BY <1>6, <3>3
        <4> HIDE DEF l
        <4>2. r[k] = q[l] /\ r[k + 1] = q[k]
          BY <1>8, <4>1
        <4>3. next[q[l]] = q[k]
          BY <1>14, <1>22, <4>1
        <4> QED
          BY <1>23, <4>1, <4>2, <4>3
      <3>4. CASE k = p + 1
        <4>1. p \in (i + 1)..p /\ p + 2 \in (p + 2)..Len(q) /\ (p + 1) + 1 = p + 2
          BY <1>6, <1>7
        <4> QED
          BY <1>8, <1>12, <3>4, <4>1
      <3>5. CASE k >= p + 2
        <4>1. k \in (p + 2)..Len(q) /\ k + 1 \in (p + 2)..Len(q) /\ k # p
          BY <1>6, <2>2, <3>5
        <4>2. r[k] = q[k] /\ r[k + 1] = q[k + 1]
          BY <1>8, <4>1
        <4>3. next[q[k]] = q[k + 1]
          BY <1>22, <2>2, <4>2
        <4> QED
          BY <1>23, <4>1, <4>2, <4>3
      <3>6. k < i \/ k \in (i + 2)..p \/ k = p + 1 \/ k >= p + 2
        BY <1>6, <3>1
      <3> QED
        BY <3>2, <3>3, <3>4, <3>5, <3>6
    <2>3. ASSUME k = Len(q) \/ (k < Len(q) /\ pc[r[k + 1]] = "link")
          PROVE  next'[r[k]] = NULL
      <3>1. k \in (p + 2)..Len(q) /\ k # p /\ (k < Len(q) => k + 1 \in (p + 2)..Len(q))
        <4>1. CASE k = Len(q)
          BY <1>6, <1>7, <4>1
        <4>2. CASE k < Len(q) /\ pc[r[k + 1]] = "link"
          <5>1. k + 1 \in 1..Len(q)
            BY <1>6, <4>2
          <5>2. ~(k + 1 <= p + 2)
            BY <1>15, <4>2, <5>1
          <5> QED
            BY <1>6, <5>1, <5>2
        <4> QED
          BY <2>3, <4>1, <4>2
      <3>2. next[q[k]] = NULL
        BY <1>8, <1>22, <2>3, <3>1
      <3> QED
        BY <1>8, <1>23, <3>1, <3>2
    <2>4. k = Len(q) \/ (k < Len(q) /\ k + 1 \in 1..Len(q))
      BY <1>6
    <2> QED
      BY <1>8, <1>11, <1>13, <2>1, <2>2, <2>3, <2>4 DEF LinkAt
  <1>25. \A u \in Threads : Token(u)' => Token(u)
    BY <1>1, <1>2 DEF Token, ShufflePcs
  <1>26. Token(q[j])
    BY <1>1, <1>5 DEF Token, ShufflePcs
  <1>27. ASSUME NEW k \in 1..Len(q)
         PROVE  Token(r[k])' => k = j
    <2>1. PICK l \in 1..Len(q) : /\ r[k] = q[l]
                                 /\ k \in (i + 1)..(p + 1) => l \in (i + 1)..(p + 1)
                                 /\ k \notin (i + 1)..(p + 1) => l = k
      BY <1>8, <1>10 DEF AlsoIn
    <2>2. Token(q[l]) => l = j
      BY <1>6, <1>26, OneToken
    <2>3. l <= j => l = k
      BY <1>6, <1>7, <2>1
    <2> QED
      BY <1>6, <1>7, <1>25, <2>1, <2>2, <2>3
  <1>28. j \in 1..i /\ \A k \in 1..j : k \in 1..i /\ k \in 1..Len(q)
    BY <1>6, <1>7
  <1>29. ASSUME NEW k \in 1..Len(q)
         PROVE  TokenAt(r, k)'
    <2>1. SUFFICES ASSUME k = j
                   PROVE  \A m \in 1..Len(q) : (m # k => ~Token(r[m])') /\ (m < k => wcount'[r[m]] = 1)
      BY <1>8, <1>27 DEF TokenAt
    <2>2. TokenAt(q, j)
      BY DEF QInv
    <2>3. \A m \in 1..Len(q) : m < j => m \in 1..i /\ wcount[q[m]] = 1
      BY <1>6, <1>7, <1>26, <2>2 DEF TokenAt
    <2> QED
      BY <1>1, <1>8, <1>27, <2>1, <2>3
  <1>31. ASSUME NEW k \in 1..Len(q), k <= j, NEW x, On(q, k, x)
         PROVE  On(r, k, x)
    <2>1. PICK m \in k..Len(q) : q[m] = x
      BY <1>31 DEF On
    <2>0. m \in 1..Len(q)
      BY <1>6
    <2>2. PICK l \in 1..Len(q) : /\ r[l] = q[m]
                                 /\ m \in (i + 1)..(p + 1) => l \in (i + 1)..(p + 1)
                                 /\ m \notin (i + 1)..(p + 1) => l = m
      BY <1>8, <1>10, <2>0 DEF AlsoIn
    <2>3. l \in k..Len(q)
      BY <1>6, <1>7, <1>31, <2>2
    <2> QED
      BY <1>8, <2>1, <2>2, <2>3 DEF On
  <1>33. ASSUME NEW k \in 1..Len(q)
         PROVE  FrameAt(r, k)'
    <2>1. SUFFICES ASSUME pc'[r[k]] \in ShufflePcs
                   PROVE  \A x \in {sh[r[k]].prev, sh[r[k]].last, sh[r[k]].curr, sh[r[k]].nxt,
                                    sh[r[k]].leader} : x = NULL \/ On(r, k, x)
      BY <1>1 DEF FrameAt, On
    <2>2. k \in 1..j
      BY <1>6, <1>27, <2>1 DEF Token
    <2>3. r[k] = q[k] /\ pc[q[k]] \in ShufflePcs /\ FrameAt(q, k)
      <3>1. pc[r[k]] \in ShufflePcs
        BY <1>1, <1>2, <1>11, <2>1 DEF ShufflePcs
      <3> QED
        BY <1>8, <1>28, <2>2, <3>1 DEF QInv
    <2>4. \A x \in {sh[q[k]].prev, sh[q[k]].last, sh[q[k]].curr, sh[q[k]].nxt,
                    sh[q[k]].leader} : x = NULL \/ On(q, k, x)
      BY <2>3 DEF FrameAt
    <2> QED
      BY <1>31, <2>2, <2>3, <2>4
  <1>34. \A k \in 1..Len(q) : pc'[r[k]] \in ShufflePcs => k = j /\ r[k] = t /\ pc'[r[k]] = "relink"
    <2>1. \A k \in 1..Len(q) : pc'[r[k]] \in ShufflePcs => k = j
      BY <1>27 DEF Token
    <2> QED
      BY <1>2, <1>5, <1>8, <1>28, <2>1
  <1>35. \A k \in 1..Len(q) : LoopAt(r, k)' /\ AppointAt(r, k)'
    BY <1>34 DEF LoopAt, ScanPcs, WakePcs, AppointAt, ShufflePcs
  <1>36. ASSUME NEW k \in 1..Len(q)
         PROVE  MoveAt(r, k)'
    <2>1. SUFFICES ASSUME pc'[r[k]] \in MovePcs
                   PROVE  MoveAt(r, k)'
      BY DEF MoveAt
    <2>2. k = j /\ r[k] = t /\ pc'[t] = "relink"
      BY <1>34, <2>1 DEF MovePcs, ShufflePcs
    <2>3. p + 1 \in (i + 2)..Len(q) /\ i \in j..Len(q) /\ i \in 1..i /\ p \in (i + 1)..p
      BY <1>6, <1>7
    <2>4. r[i] = q[i] /\ r[i + 1] = q[p + 1] /\ r[p + 1] = q[p] /\ r[i + 2] = q[i + 1]
      BY <1>7, <1>8, <2>3
    <2>5. ASSUME NEW l \in j..(i + 1)
          PROVE  wcount'[r[l]] = 1
      <3>1. CASE l = i + 1
        BY <1>1, <1>5, <2>4, <3>1
      <3>2. CASE l # i + 1
        <4>1. l \in j..i /\ l \in 1..i
          BY <1>6, <3>2
        <4> QED
          BY <1>1, <1>5, <1>8, <4>1 DEF Counted
      <3> QED
        BY <3>1, <3>2
    <2>6. ASSUME NEW l \in 2..(p + 1)
          PROVE  pc'[r[l]] # "link"
      <3>1. l \in 1..Len(q) /\ l <= p + 2
        BY <1>6, <1>7
      <3> QED
        BY <1>11, <1>13, <1>15, <3>1
    <2>7. ASSUME NEW l \in ((i + 1) + 1)..(p + 1)
          PROVE  nid'[r[l]] # nid'[t]
      <3> DEFINE h == l - 1
      <3>1. h \in (i + 1)..p /\ h + 1 = l
        BY <1>6, <1>7
      <3> HIDE DEF h
      <3>2. r[l] = q[h] /\ nid[q[h]] # nid[t]
        BY <1>5, <1>8, <3>1 DEF Clean
      <3> QED
        BY <1>1, <3>2
    <2>8. next'[q[i]] = q[i + 1]
      <3>1. i < Len(q) /\ i + 1 <= p + 2
        BY <1>6, <1>7
      <3> QED
        BY <1>7, <1>14, <1>22, <1>23, <3>1
    <2>9. /\ Counted(r, j, i + 1)' /\ Reached(r, p + 1)' /\ Clean(r, i + 1, p + 1, r[k])'
      BY <2>2, <2>5, <2>6, <2>7 DEF Counted, Reached, Clean
    <2>10. /\ r[i] = sh'[t].last /\ r[i + 1] = sh'[t].curr /\ r[p + 1] = sh'[t].prev
           /\ nid'[r[i]] = nid'[t] /\ nid'[r[i + 1]] = nid'[t] /\ next'[r[i]] = r[i + 2]
      BY <1>1, <1>5, <2>4, <2>8
    <2> QED
      BY <1>8, <2>2, <2>3, <2>9, <2>10 DEF MoveAt, MoveFrom
  <1>37. QInv(r)'
    BY <1>8, <1>16, <1>17, <1>18, <1>19, <1>24, <1>29, <1>33, <1>35, <1>36 DEF QInv
  <1>38. p \in (i + 1)..Len(q) /\ \A k \in (i + 1)..p : nid[q[k]] # nid[q[p + 1]]
    BY <1>5, <1>6, <1>7 DEF Clean
  <1> QED
    BY <1>5, <1>37, <1>38 DEF r

-----------------------------------------------------------------------------
(* The invariant: some sequence of threads is the queue.                     *)

QueueInv == \E q \in Seq(Threads) : QInv(q)

\* Nobody waits at first.
LEMMA InitQueueInv == Init => QInv(<< >>)
  <1> SUFFICES ASSUME Init
               PROVE  QInv(<< >>)
    OBVIOUS
  <1>1. \A t \in Threads : pc[t] = "idle" /\ pc[t] \notin QueuedPcs
    BY DEF Init, QueuedPcs, ParkPcs, ShufflePcs
  <1>2. QueueOf(<< >>)
    BY <1>1 DEF Init, aqm_mutex_create, QueueOf
  <1>3. Fresh /\ Started
    BY <1>1 DEF Init, Fresh, Started, QueuedPcs
  <1> QED
    BY <1>2, <1>3 DEF QInv

LEMMA IdleStep ==
  ASSUME NEW q, QInv(q), UNCHANGED vars
  PROVE  QInv(q)'
  <1> USE DEF vars, lockVars, nodeVars
  <1>1. QueueOf(q)' /\ Fresh' /\ Started'
    BY DEF QInv, QueueOf, Fresh, Started
  <1>2. \A i \in 1..Len(q) : HeadAt(q, i)' /\ LinkAt(q, i)'
    BY DEF QInv, HeadAt, LinkAt, IsHead, Moved
  <1>3. \A j \in 1..Len(q) : TokenAt(q, j)'
    BY DEF QInv, TokenAt, Token
  <1>4. ASSUME NEW j \in 1..Len(q)
        PROVE  FrameAt(q, j)' /\ LoopAt(q, j)' /\ MoveAt(q, j)' /\ AppointAt(q, j)'
    <2>1. FrameAt(q, j) /\ LoopAt(q, j) /\ MoveAt(q, j) /\ AppointAt(q, j)
      BY DEF QInv
    <2>2. FrameAt(q, j)'
      BY <2>1 DEF FrameAt, On
    <2>3. LoopAt(q, j)'
      BY <2>1 DEF LoopAt, LoopFrom, Counted, Reached, Clean
    <2>4. MoveAt(q, j)'
      BY <2>1 DEF MoveAt, MoveFrom, Counted, Reached, Clean
    <2>5. AppointAt(q, j)'
      BY <2>1 DEF AppointAt, Counted, Reached, Clean
    <2> QED
      BY <2>2, <2>3, <2>4, <2>5
  <1> QED
    BY <1>1, <1>2, <1>3, <1>4 DEF QInv

\* Most steps leave the queue as it is.
KeepsQueue(t) ==
  \/ FastPath(t) \/ SlowPath(t) \/ Unlock(t) \/ Interrupt(t)
  \/ LinkPrev(t) \/ Spin(t) \/ Park(t) \/ Sleep(t) \/ FutexWait(t) \/ Awake(t)
  \/ SetPstate(t) \/ FutexWake(t) \/ HeadShuffle(t) \/ DisableStealing(t) \/ AwaitFree(t)
  \/ Acquire(t) \/ GetSuccessor(t) \/ (CasTail(t) /\ tail # t) \/ EnableStealing(t)
  \/ WaitSuccessor(t)
  \/ PassLeadership(t) \/ Scan(t) \/ TailCheck(t) \/ GetNext(t) \/ Unpark(t) \/ Mark(t)
  \/ Relink(t) \/ Insert(t) \/ Ready(t) \/ Appoint(t)

LEMMA KeptStep ==
  ASSUME TypeOK, NEW q, QInv(q), NULL \notin Threads, NEW t \in Threads, KeepsQueue(t)
  PROVE  QInv(q)'
  <1>1. CASE FastPath(t) \/ Unlock(t) \/ DisableStealing(t) \/ AwaitFree(t) \/ Acquire(t)
             \/ GetSuccessor(t) \/ EnableStealing(t) \/ WaitSuccessor(t) \/ Sleep(t)
             \/ FutexWait(t) \/ Awake(t) \/ Interrupt(t)
    BY <1>1, LockSteps
  <1>2. CASE SlowPath(t)
    BY <1>2, SlowPathStep
  <1>3. CASE LinkPrev(t)
    BY <1>3, LinkStep
  <1>4. CASE Spin(t)
    BY <1>4, OtherSteps, BeginSteps
  <1>5. CASE HeadShuffle(t)
    BY <1>5, OtherSteps, BeginSteps
  <1>6. CASE CasTail(t) /\ tail # t
    BY <1>6, OtherSteps
  <1>7. CASE Park(t)
    BY <1>7, ParkStep
  <1>8. CASE SetPstate(t)
    <2>1. pc[t] = "swake" \/ pc[t] = "hwake"
      BY <1>8 DEF SetPstate
    <2> QED
      BY <1>8, <2>1, OtherSteps, UnparkSteps
  <1>9. CASE FutexWake(t)
    <2>1. pc[t] = "sfutex" \/ pc[t] = "hfutex"
      BY <1>9 DEF FutexWake
    <2> QED
      BY <1>9, <2>1, WakeHeadStep, UnparkSteps
  <1>10. CASE Unpark(t)
    BY <1>10, UnparkSteps
  <1>11. CASE PassLeadership(t)
    BY <1>11, PassStep
  <1>12. CASE Scan(t)
    BY <1>12, ScanStep
  <1>13. CASE TailCheck(t)
    BY <1>13, TailCheckStep
  <1>14. CASE GetNext(t)
    BY <1>14, GetNextStep
  <1>15. CASE Mark(t)
    BY <1>15, MarkStep
  <1>16. CASE Relink(t)
    BY <1>16, RelinkStep
  <1>17. CASE Insert(t)
    BY <1>17, InsertStep
  <1>18. CASE Ready(t)
    BY <1>18, ReadyStep
  <1>19. CASE Appoint(t)
    BY <1>19, AppointStep
  <1> QED
    BY <1>1, <1>2, <1>3, <1>4, <1>5, <1>6, <1>7, <1>8, <1>9, <1>10, <1>11, <1>12, <1>13,
       <1>14, <1>15, <1>16, <1>17, <1>18, <1>19 DEF KeepsQueue

\* The others append a thread, move one forward, or take the front one off.
LEMMA NextCases ==
  ASSUME [Next]_vars
  PROVE  \/ UNCHANGED vars
         \/ \E t \in Threads : \/ KeepsQueue(t) \/ SwapTail(t) \/ Unlink(t) \/ Notify(t)
                               \/ CasTail(t) /\ tail = t
  BY DEF Next, InLock, Shuffle, KeepsQueue

LEMMA NextQueueInv ==
  ASSUME TypeOK, QueueInv, [Next]_vars
  PROVE  QueueInv'
  <1>1. NULL \notin Threads
    BY AqmAssumption
  <1>2. PICK q \in Seq(Threads) : QInv(q)
    BY DEF QueueInv
  <1>3. SUFFICES \E r : QInv(r)'
    <2>1. \A r : QInv(r)' => r \in Seq(Threads)
      BY DEF QInv, QueueOf
    <2> QED
      BY <2>1 DEF QueueInv
  <1>4. CASE UNCHANGED vars
    BY <1>2, <1>4, IdleStep
  <1>5. ASSUME NEW t \in Threads, KeepsQueue(t)
        PROVE  QInv(q)'
    BY <1>1, <1>2, <1>5, KeptStep
  <1>6. ASSUME NEW t \in Threads, SwapTail(t)
        PROVE  QInv(Append(q, t))'
    BY <1>1, <1>2, <1>6, SwapStep
  <1>7. ASSUME NEW t \in Threads, Unlink(t)
        PROVE  \E r : QInv(r)'
    BY <1>1, <1>2, <1>7, UnlinkStep
  <1>8. ASSUME NEW t \in Threads, Notify(t)
        PROVE  QInv(Tail(q))'
    BY <1>1, <1>2, <1>8, NotifyStep
  <1>9. ASSUME NEW t \in Threads, CasTail(t), tail = t
        PROVE  QInv(<< >>)'
    BY <1>1, <1>2, <1>9, EmptyStep
  <1> QED
    BY <1>4, <1>5, <1>6, <1>7, <1>8, <1>9, NextCases
-----------------------------------------------------------------------------
(* Parking and waking.                                                       *)

\* w is about to store into its wakee's futex word, or to wake it.
StorePcs == {"swake", "hwake"}
CallPcs == {"sfutex", "hfutex"}
Storing(w, u) == pc[w] \in StorePcs /\ Wakee(w) = u
Calling(w, u) == pc[w] \in CallPcs /\ Wakee(w) = u

\* The three program points at which a thread may come to sleep.
SleepPcs == {"sleep", "futex", "asleep"}

\* A node's status says whether its thread parks, and its futex word whether
\* that has been answered.
ParkAt(u) ==
  /\ pc[u] \notin QueuedPcs => pstate[u] = 0
  /\ pc[u] \in QueuedPcs /\ lstatus[u] = PARKED => pstate[u] = 0 /\ pc[u] \in SleepPcs
  /\ lstatus[u] = PWAIT => pstate[u] = 0 /\ pc[u] \notin ParkPcs
  /\ pc[u] = "awake" => pstate[u] = 1

\* Who has been answered has a waker until it can no longer sleep through it.
AnswerAt(u) ==
  pc[u] \in SleepPcs /\ lstatus[u] # PARKED =>
    /\ pstate[u] = 0 => \E w \in Threads : Storing(w, u)
    /\ pstate[u] = 1 /\ pc[u] = "asleep" => \E w \in Threads : Calling(w, u)

\* A waker has one thread to wake, which is queued, and no other waker has it.
WakerAt(w) ==
  pc[w] \in StorePcs \cup CallPcs =>
    LET u == Wakee(w)
    IN  /\ u \in Threads /\ pc[u] \in QueuedPcs /\ lstatus[u] # PARKED
        /\ pc[w] \in StorePcs => pstate[u] = 0 /\ pc[u] \in SleepPcs
        /\ pc[w] \in CallPcs => pstate[u] = 1
        /\ \A v \in Threads : Storing(v, u) \/ Calling(v, u) => v = w

WakeInv == \A u \in Threads : ParkAt(u) /\ AnswerAt(u) /\ WakerAt(u)

\* Who is left alone wakes whom it did.
LEMMA SameWaker ==
  ASSUME NEW w, Alike(w)
  PROVE  /\ \A u : (Storing(w, u)' <=> Storing(w, u)) /\ (Calling(w, u)' <=> Calling(w, u))
         /\ pc'[w] \in StorePcs <=> pc[w] \in StorePcs
         /\ pc'[w] \in CallPcs <=> pc[w] \in CallPcs
         /\ pc[w] \in StorePcs \cup CallPcs => Wakee(w)' = Wakee(w)
  BY DEF Alike, Storing, Calling, Wakee, StorePcs, CallPcs, ShufflePcs

\* Nobody parks or is woken.
LEMMA WakeCalm ==
  ASSUME TypeOK, WakeInv, NEW t \in Threads, UNCHANGED <<lstatus, pstate>>,
         \A u \in Threads \ {t} : pc'[u] = pc[u] /\ sh'[u] = sh[u] /\ peer'[u] = peer[u],
         pc[t] \notin ParkPcs \cup StorePcs \cup CallPcs,
         pc'[t] \notin ParkPcs \cup StorePcs \cup CallPcs,
         pc[t] \in QueuedPcs => pc'[t] \in QueuedPcs,
         pc'[t] \in QueuedPcs => pc[t] \in QueuedPcs \/ lstatus[t] # PARKED
  PROVE  WakeInv'
  <1>1. \A w \in Threads \ {t} : Alike(w)
    BY DEF Alike
  <1>2. \A w \in Threads : \A u : (Storing(w, u)' <=> Storing(w, u)) /\ (Calling(w, u)' <=> Calling(w, u))
    <2>1. TAKE w \in Threads
    <2>2. CASE w = t
      BY <2>2 DEF Storing, Calling
    <2>3. CASE w # t
      BY <1>1, <2>3, SameWaker
    <2> QED
      BY <2>2, <2>3
  <1>3. SleepPcs \subseteq ParkPcs
    BY DEF SleepPcs, ParkPcs
  <1>4. ASSUME NEW u \in Threads
        PROVE  ParkAt(u)' /\ AnswerAt(u)'
    <2>1. ParkAt(u) /\ AnswerAt(u)
      BY DEF WakeInv
    <2>2. CASE u = t
      BY <1>3, <2>1, <2>2 DEF ParkAt, AnswerAt, ParkPcs
    <2>3. CASE u # t
      BY <1>2, <2>1, <2>3 DEF ParkAt, AnswerAt
    <2> QED
      BY <2>2, <2>3
  <1>5. ASSUME NEW w \in Threads
        PROVE  WakerAt(w)'
    <2>1. SUFFICES ASSUME pc'[w] \in StorePcs \cup CallPcs
                   PROVE  WakerAt(w)'
      BY DEF WakerAt
    <2>2. /\ Wakee(w)' = Wakee(w) /\ w # t /\ pc'[w] = pc[w]
      BY <1>1, <2>1, SameWaker
    <2>3. WakerAt(w)
      BY DEF WakeInv
    <2> DEFINE x == Wakee(w)
    <2>4. /\ x \in Threads /\ pc[x] \in QueuedPcs /\ lstatus[x] # PARKED
          /\ pc[w] \in StorePcs => pstate[x] = 0 /\ pc[x] \in SleepPcs
          /\ pc[w] \in CallPcs => pstate[x] = 1
          /\ \A v \in Threads : Storing(v, x) \/ Calling(v, x) => v = w
      BY <2>1, <2>2, <2>3 DEF WakerAt
    <2>5. pc'[x] \in QueuedPcs /\ (pc[w] \in StorePcs => pc'[x] \in SleepPcs)
      BY <1>3, <2>4
    <2> HIDE DEF x
    <2>6. Wakee(w)' = x
      BY <2>2 DEF x
    <2> QED
      BY <1>2, <2>2, <2>4, <2>5, <2>6 DEF WakerAt
  <1> QED
    BY <1>4, <1>5 DEF WakeInv

\* t goes to sleep, or notices that it need not.
LEMMA WakeDoze ==
  ASSUME TypeOK, WakeInv, NEW t \in Threads, UNCHANGED <<lstatus, pstate, sh, peer>>,
         \A u \in Threads \ {t} : pc'[u] = pc[u],
         pc[t] \in ParkPcs, pc'[t] \in ParkPcs \cup {"spin"},
         pc'[t] \in {"awake", "spin"} => pstate[t] = 1,
         pc'[t] = "asleep" => pstate[t] = 0
  PROVE  WakeInv'
  <1>1. \A w \in Threads \ {t} : Alike(w)
    BY DEF Alike
  <1>2. \A w \in Threads : \A u : (Storing(w, u)' <=> Storing(w, u)) /\ (Calling(w, u)' <=> Calling(w, u))
    <2>1. TAKE w \in Threads
    <2>2. CASE w = t
      BY <2>2 DEF Storing, Calling, StorePcs, CallPcs, ParkPcs
    <2>3. CASE w # t
      BY <1>1, <2>3, SameWaker
    <2> QED
      BY <2>2, <2>3
  <1>3. ParkAt(t) /\ AnswerAt(t)
    BY DEF WakeInv
  <1>4. /\ pc[t] \in QueuedPcs /\ pc'[t] \in QueuedPcs
        /\ pstate[t] = 0 => pc[t] \in SleepPcs /\ pc'[t] \in SleepPcs
    BY <1>3 DEF ParkAt, QueuedPcs, ParkPcs, SleepPcs
  <1>5. ASSUME NEW u \in Threads
        PROVE  ParkAt(u)' /\ AnswerAt(u)'
    <2>1. CASE u = t
      <3>1. ParkAt(t)'
        BY <1>3, <1>4 DEF ParkAt
      <3>2. AnswerAt(t)'
        BY <1>2, <1>3, <1>4 DEF AnswerAt
      <3> QED
        BY <2>1, <3>1, <3>2
    <2>2. CASE u # t
      <3>1. ParkAt(u) /\ AnswerAt(u)
        BY DEF WakeInv
      <3> QED
        BY <1>2, <2>2, <3>1 DEF ParkAt, AnswerAt
    <2> QED
      BY <2>1, <2>2
  <1>6. ASSUME NEW w \in Threads
        PROVE  WakerAt(w)'
    <2>1. SUFFICES ASSUME pc'[w] \in StorePcs \cup CallPcs
                   PROVE  WakerAt(w)'
      BY DEF WakerAt
    <2>2. w # t
      BY <2>1 DEF StorePcs, CallPcs, ParkPcs
    <2>3. Wakee(w)' = Wakee(w) /\ pc'[w] = pc[w]
      BY <1>1, <2>1, <2>2, SameWaker
    <2>4. WakerAt(w)
      BY DEF WakeInv
    <2> DEFINE x == Wakee(w)
    <2>5. /\ x \in Threads /\ pc[x] \in QueuedPcs /\ lstatus[x] # PARKED
          /\ pc[w] \in StorePcs => pstate[x] = 0 /\ pc[x] \in SleepPcs
          /\ pc[w] \in CallPcs => pstate[x] = 1
          /\ \A v \in Threads : Storing(v, x) \/ Calling(v, x) => v = w
      BY <2>1, <2>3, <2>4 DEF WakerAt
    <2>6. pc'[x] \in QueuedPcs /\ (pc[w] \in StorePcs => pc'[x] \in SleepPcs)
      BY <1>4, <2>5
    <2> HIDE DEF x
    <2>7. Wakee(w)' = x
      BY <2>3 DEF x
    <2> QED
      BY <1>2, <2>3, <2>5, <2>6, <2>7 DEF WakerAt
  <1> QED
    BY <1>5, <1>6 DEF WakeInv

\* The thread whose wake-up is under way is behind the front one, when that is about
\* to leave the queue.
LEMMA NotWoken ==
  ASSUME MutualExclusion, WakeInv, NEW q, QInv(q), NEW t \in Threads, pc[t] \in {"castail", "notify"}
  PROVE  \A w \in Threads : ~Storing(w, t) /\ ~Calling(w, t)
  <1>1. Len(q) \in Nat
    BY DEF QInv, QueueOf
  <1>2. PICK k \in 1..Len(q) : q[k] = t
    BY Placed DEF QInv, QueuedPcs
  <1>3. k = 1
    <2>1. IsHead(q[k])
      BY <1>2 DEF IsHead
    <2> QED
      BY <2>1 DEF QInv, HeadAt
  <1>4. SUFFICES ASSUME NEW w \in Threads, pc[w] \in StorePcs \cup CallPcs, Wakee(w) = t
                 PROVE  FALSE
    BY DEF Storing, Calling
  <1>5. CASE pc[w] \in {"swake", "sfutex"}
    <2>1. sh[w].curr = t
      BY <1>4, <1>5 DEF Wakee, ShufflePcs
    <2>2. PICK j \in 1..Len(q) : \E i \in j..Len(q) : \E p \in i..Len(q) :
                 q[j] = w /\ LoopFrom(q, j, i, p)
      BY <1>5, AtLoop DEF ScanPcs, WakePcs
    <2>3. PICK i \in j..Len(q) : \E p \in i..Len(q) : q[j] = w /\ LoopFrom(q, j, i, p)
      BY <2>2
    <2>4. PICK p \in i..Len(q) : q[j] = w /\ LoopFrom(q, j, i, p)
      BY <2>3
    <2>5. p < Len(q) /\ q[p + 1] = t
      BY <1>5, <2>1, <2>4 DEF LoopFrom, WakePcs
    <2>6. p + 1 \in 1..Len(q) /\ p + 1 # 1
      BY <1>1, <2>5
    <2>7. \A a, b \in 1..Len(q) : q[a] = q[b] => a = b
      BY DEF QInv, QueueOf
    <2> QED
      BY <1>2, <1>3, <2>5, <2>6, <2>7
  <1>6. CASE pc[w] \in {"hwake", "hfutex"}
    <2>1. w \in Holders /\ t \in Holders
      BY <1>6 DEF Holders, HoldPcs
    <2>2. w = t
      BY <2>1 DEF MutualExclusion
    <2> QED
      BY <1>6, <2>2
  <1> QED
    BY <1>4, <1>5, <1>6 DEF StorePcs, CallPcs

\* t is outside the queue after the step, and whose status changed was and is not
\* parked.
LEMMA WakeOutside ==
  ASSUME TypeOK, WakeInv, NEW t \in Threads,
         \A u \in Threads \ {t} : /\ pc'[u] = pc[u] /\ sh'[u] = sh[u] /\ peer'[u] = peer[u]
                                  /\ pstate'[u] = pstate[u]
                                  /\ \/ lstatus'[u] = lstatus[u]
                                     \/ lstatus[u] # PARKED /\ lstatus'[u] \notin {PARKED, PWAIT},
         pc[t] \notin StorePcs \cup CallPcs,
         pc'[t] \notin QueuedPcs \cup StorePcs \cup CallPcs,
         pstate'[t] = 0,
         \A w \in Threads : ~Storing(w, t) /\ ~Calling(w, t)
  PROVE  WakeInv'
  <1>1. \A w \in Threads \ {t} : Alike(w)
    BY DEF Alike
  <1>2. \A w \in Threads : \A u : (Storing(w, u)' <=> Storing(w, u)) /\ (Calling(w, u)' <=> Calling(w, u))
    <2>1. TAKE w \in Threads
    <2>2. CASE w = t
      BY <2>2 DEF Storing, Calling
    <2>3. CASE w # t
      BY <1>1, <2>3, SameWaker
    <2> QED
      BY <2>2, <2>3
  <1>3. pc'[t] \notin ParkPcs \cup SleepPcs
    BY DEF QueuedPcs, ParkPcs, SleepPcs
  <1>4. ASSUME NEW u \in Threads
        PROVE  ParkAt(u)' /\ AnswerAt(u)'
    <2>1. ParkAt(u) /\ AnswerAt(u)
      BY DEF WakeInv
    <2>2. CASE u = t
      BY <1>3, <2>2 DEF ParkAt, AnswerAt, ParkPcs
    <2>3. CASE u # t
      BY <1>2, <2>1, <2>3 DEF ParkAt, AnswerAt
    <2> QED
      BY <2>2, <2>3
  <1>5. ASSUME NEW w \in Threads
        PROVE  WakerAt(w)'
    <2>1. SUFFICES ASSUME pc'[w] \in StorePcs \cup CallPcs
                   PROVE  WakerAt(w)'
      BY DEF WakerAt
    <2>2. /\ Wakee(w)' = Wakee(w) /\ w # t /\ pc'[w] = pc[w]
      BY <1>1, <2>1, SameWaker
    <2>3. WakerAt(w)
      BY DEF WakeInv
    <2> DEFINE x == Wakee(w)
    <2>4. /\ x \in Threads /\ pc[x] \in QueuedPcs /\ lstatus[x] # PARKED
          /\ pc[w] \in StorePcs => pstate[x] = 0 /\ pc[x] \in SleepPcs
          /\ pc[w] \in CallPcs => pstate[x] = 1
          /\ \A v \in Threads : Storing(v, x) \/ Calling(v, x) => v = w
      BY <2>1, <2>2, <2>3 DEF WakerAt
    <2>5. x # t
      BY <2>1, <2>2 DEF Storing, Calling
    <2> HIDE DEF x
    <2>6. Wakee(w)' = x
      BY <2>2 DEF x
    <2> QED
      BY <1>2, <2>2, <2>4, <2>5, <2>6 DEF WakerAt
  <1> QED
    BY <1>4, <1>5 DEF WakeInv

\* t changes the status of u, which is parked, and goes on to wake it.
LEMMA WakeAnswer ==
  ASSUME TypeOK, WakeInv, NEW t \in Threads, NEW u \in Threads, u # t,
         lstatus[u] = PARKED, pc[u] \in QueuedPcs, lstatus'[u] \notin {PARKED, PWAIT},
         pc'[t] \in StorePcs, Wakee(t)' = u,
         \A v \in Threads \ {t} : /\ pc'[v] = pc[v] /\ sh'[v] = sh[v] /\ peer'[v] = peer[v]
                                  /\ pstate'[v] = pstate[v]
                                  /\ v # u => lstatus'[v] = lstatus[v],
         pc[t] \notin ParkPcs \cup StorePcs \cup CallPcs,
         \/ pc'[t] \in QueuedPcs /\ pc[t] \in QueuedPcs /\ lstatus'[t] = lstatus[t] /\ pstate'[t] = pstate[t]
         \/ /\ pc'[t] \notin QueuedPcs /\ lstatus'[t] = PARKED /\ pstate'[t] = 0
            /\ \A w \in Threads : ~Storing(w, t) /\ ~Calling(w, t)
  PROVE  WakeInv'
  <1>1. \A w \in Threads \ {t} : Alike(w)
    BY DEF Alike
  <1>2. pstate[u] = 0 /\ pc[u] \in SleepPcs
    BY DEF WakeInv, ParkAt
  <1>3. \A w \in Threads : ~Storing(w, u) /\ ~Calling(w, u)
    <2>1. SUFFICES ASSUME NEW w \in Threads, Storing(w, u) \/ Calling(w, u)
                   PROVE  FALSE
      OBVIOUS
    <2>2. WakerAt(w)
      BY DEF WakeInv
    <2> QED
      BY <2>1, <2>2 DEF WakerAt, Storing, Calling
  <1>4. \A w \in Threads \ {t} : \A v : (Storing(w, v)' <=> Storing(w, v)) /\ (Calling(w, v)' <=> Calling(w, v))
    BY <1>1, SameWaker
  <1>5. \A v : (Storing(t, v)' <=> v = u) /\ ~Calling(t, v)' /\ ~Storing(t, v) /\ ~Calling(t, v)
    BY DEF Storing, Calling, StorePcs, CallPcs
  <1>6. SleepPcs \subseteq ParkPcs /\ ParkPcs \subseteq QueuedPcs /\ StorePcs \cap ParkPcs = {}
    BY DEF SleepPcs, ParkPcs, QueuedPcs, StorePcs
  <1>7. ASSUME NEW v \in Threads
        PROVE  ParkAt(v)' /\ AnswerAt(v)'
    <2>1. ParkAt(v) /\ AnswerAt(v)
      BY DEF WakeInv
    <2>2. CASE v = t
      <3>1. pc'[t] \notin ParkPcs /\ pc'[t] # "awake"
        BY <1>6 DEF ParkPcs
      <3>2. pc'[t] \in QueuedPcs => lstatus'[t] # PARKED
        BY <1>6, <2>1, <2>2 DEF ParkAt
      <3> QED
        BY <1>6, <2>1, <2>2, <3>1, <3>2 DEF ParkAt, AnswerAt, PARKED, PWAIT
    <2>3. CASE v = u
      <3>1. pc'[u] = pc[u] /\ pstate'[u] = 0
        BY <1>2
      <3>2. ParkAt(u)'
        BY <1>2, <2>1, <2>3, <3>1 DEF ParkAt
      <3>3. AnswerAt(u)'
        BY <1>5, <3>1 DEF AnswerAt
      <3> QED
        BY <2>3, <3>2, <3>3
    <2>4. CASE v \notin {t, u}
      BY <1>4, <1>5, <2>1, <2>4 DEF ParkAt, AnswerAt
    <2> QED
      BY <2>2, <2>3, <2>4
  <1>8. WakerAt(t)'
    <2>1. pc'[u] = pc[u] /\ pstate'[u] = 0 /\ lstatus'[u] # PARKED
      BY <1>2
    <2>2. \A v \in Threads : Storing(v, u)' \/ Calling(v, u)' => v = t
      BY <1>3, <1>4
    <2> QED
      BY <1>2, <2>1, <2>2 DEF WakerAt, StorePcs, CallPcs
  <1>9. ASSUME NEW w \in Threads \ {t}
        PROVE  WakerAt(w)'
    <2>1. SUFFICES ASSUME pc'[w] \in StorePcs \cup CallPcs
                   PROVE  WakerAt(w)'
      BY DEF WakerAt
    <2>2. Wakee(w)' = Wakee(w) /\ pc'[w] = pc[w]
      BY <1>1, <2>1, SameWaker
    <2>3. WakerAt(w)
      BY DEF WakeInv
    <2>0. PICK x : x = Wakee(w)
      OBVIOUS
    <2>4. /\ x \in Threads /\ pc[x] \in QueuedPcs /\ lstatus[x] # PARKED
          /\ pc[w] \in StorePcs => pstate[x] = 0 /\ pc[x] \in SleepPcs
          /\ pc[w] \in CallPcs => pstate[x] = 1
          /\ \A v \in Threads : Storing(v, x) \/ Calling(v, x) => v = w
          /\ Storing(w, x) \/ Calling(w, x)
      BY <2>0, <2>1, <2>2, <2>3 DEF WakerAt, Storing, Calling
    <2>5. x # u
      BY <1>3, <2>4
    <2>6. /\ lstatus'[x] # PARKED /\ pstate'[x] = pstate[x] /\ pc'[x] \in QueuedPcs
          /\ pc[w] \in StorePcs => pc'[x] \in SleepPcs
      <3>1. CASE x = t
        BY <1>6, <2>4, <3>1
      <3>2. CASE x # t
        BY <2>4, <2>5, <3>2
      <3> QED
        BY <3>1, <3>2
    <2>7. Wakee(w)' = x
      BY <2>0, <2>2
    <2>8. \A v \in Threads : Storing(v, x)' \/ Calling(v, x)' => v = w
      BY <1>4, <1>5, <2>4, <2>5
    <2> QED
      BY <2>2, <2>4, <2>6, <2>7, <2>8 DEF WakerAt
  <1> QED
    BY <1>7, <1>8, <1>9 DEF WakeInv

\* The cmpxchg that parks a waiter.
LEMMA WakePark ==
  ASSUME TypeOK, WakeInv, NEW t \in Threads, Park(t), lstatus[t] = PWAIT
  PROVE  WakeInv'
  <1>1. /\ pc[t] = "park" /\ pc'[t] = "sleep" /\ lstatus'[t] = PARKED
        /\ \A u \in Threads \ {t} : pc'[u] = pc[u] /\ lstatus'[u] = lstatus[u]
        /\ UNCHANGED <<pstate, sh, peer>>
    BY DEF Park, Goto, TypeOK
  <1>2. pstate[t] = 0
    BY DEF WakeInv, ParkAt
  <1>3. \A w \in Threads : \A u : (Storing(w, u)' <=> Storing(w, u)) /\ (Calling(w, u)' <=> Calling(w, u))
    <2>1. TAKE w \in Threads
    <2>2. CASE w = t
      BY <1>1, <2>2 DEF Storing, Calling, StorePcs, CallPcs
    <2>3. CASE w # t
      <3>1. Alike(w)
        BY <1>1, <2>3 DEF Alike
      <3> QED
        BY <3>1, SameWaker
    <2> QED
      BY <2>2, <2>3
  <1>4. ASSUME NEW u \in Threads
        PROVE  ParkAt(u)' /\ AnswerAt(u)'
    <2>1. ParkAt(u) /\ AnswerAt(u)
      BY DEF WakeInv
    <2>2. CASE u = t
      BY <1>1, <1>2, <2>2 DEF ParkAt, AnswerAt, SleepPcs, QueuedPcs, ParkPcs, PARKED, PWAIT
    <2>3. CASE u # t
      BY <1>1, <1>3, <2>1, <2>3 DEF ParkAt, AnswerAt
    <2> QED
      BY <2>2, <2>3
  <1>5. ASSUME NEW w \in Threads
        PROVE  WakerAt(w)'
    <2>1. SUFFICES ASSUME pc'[w] \in StorePcs \cup CallPcs
                   PROVE  WakerAt(w)'
      BY DEF WakerAt
    <2>2. w # t
      BY <1>1, <2>1 DEF StorePcs, CallPcs
    <2>3. Wakee(w)' = Wakee(w) /\ pc'[w] = pc[w]
      BY <1>1, <2>2 DEF Wakee
    <2>4. WakerAt(w)
      BY DEF WakeInv
    <2> DEFINE x == Wakee(w)
    <2>5. /\ x \in Threads /\ pc[x] \in QueuedPcs /\ lstatus[x] # PARKED
          /\ pc[w] \in StorePcs => pstate[x] = 0 /\ pc[x] \in SleepPcs
          /\ pc[w] \in CallPcs => pstate[x] = 1
          /\ \A v \in Threads : Storing(v, x) \/ Calling(v, x) => v = w
      BY <2>1, <2>3, <2>4 DEF WakerAt
    <2>6. x # t
      BY <1>1, <1>2, <2>1, <2>3, <2>5 DEF SleepPcs
    <2> HIDE DEF x
    <2>7. Wakee(w)' = x
      BY <2>3 DEF x
    <2> QED
      BY <1>1, <1>3, <2>3, <2>5, <2>6, <2>7 DEF WakerAt
  <1> QED
    BY <1>4, <1>5 DEF WakeInv

\* The store into the futex word of the thread that is woken.
LEMMA WakeStore ==
  ASSUME TypeOK, WakeInv, NEW t \in Threads, SetPstate(t)
  PROVE  WakeInv'
  <1>0. PICK u : u = Wakee(t)
    OBVIOUS
  <1>1. /\ pc[t] \in StorePcs /\ pstate' = [pstate EXCEPT ![u] = 1]
        /\ pc'[t] = IF pc[t] = "swake" THEN "sfutex" ELSE "hfutex"
        /\ \A v \in Threads \ {t} : pc'[v] = pc[v]
        /\ UNCHANGED <<lstatus, peer, sh>>
    BY <1>0 DEF SetPstate, Goto, TypeOK, StorePcs
  <1>2. /\ u \in Threads /\ pc[u] \in QueuedPcs /\ lstatus[u] # PARKED
        /\ pstate[u] = 0 /\ pc[u] \in SleepPcs
        /\ \A v \in Threads : Storing(v, u) \/ Calling(v, u) => v = t
    BY <1>0, <1>1 DEF WakeInv, WakerAt
  <1>3. Wakee(t)' = u /\ pc'[t] \in CallPcs
    BY <1>0, <1>1 DEF Wakee, ShufflePcs, StorePcs, CallPcs
  <1>4. u # t
    BY <1>1, <1>2 DEF StorePcs, SleepPcs
  <1>5. \A v : (Storing(t, v) <=> v = u) /\ ~Storing(t, v)' /\ (Calling(t, v)' <=> v = u) /\ ~Calling(t, v)
    BY <1>0, <1>1, <1>3 DEF Storing, Calling, StorePcs, CallPcs
  <1>6. /\ pstate'[u] = 1 /\ \A v \in Threads \ {u} : pstate'[v] = pstate[v]
        /\ pc'[u] = pc[u]
    BY <1>1, <1>2, <1>4 DEF TypeOK
  <1>7. \A w \in Threads \ {t} : \A v : (Storing(w, v)' <=> Storing(w, v)) /\ (Calling(w, v)' <=> Calling(w, v))
    <2>1. \A w \in Threads \ {t} : Alike(w)
      BY <1>1 DEF Alike
    <2> QED
      BY <2>1, SameWaker
  <1>8. /\ SleepPcs \subseteq ParkPcs /\ pc[t] \notin ParkPcs /\ pc'[t] \notin ParkPcs
        /\ pc'[t] \in QueuedPcs <=> pc[t] \in QueuedPcs
    BY <1>1 DEF SleepPcs, ParkPcs, StorePcs, QueuedPcs, ShufflePcs
  <1>9. ASSUME NEW v \in Threads
        PROVE  ParkAt(v)' /\ AnswerAt(v)'
    <2>1. ParkAt(v) /\ AnswerAt(v)
      BY DEF WakeInv
    <2>2. CASE v = t
      <3>1. pstate'[t] = pstate[t] /\ lstatus'[t] = lstatus[t]
        BY <1>1, <1>4, <1>6
      <3>2. pc'[t] \notin SleepPcs /\ pc'[t] # "awake" /\ pc[t] \notin SleepPcs
        BY <1>8 DEF ParkPcs
      <3> QED
        BY <1>8, <2>1, <2>2, <3>1, <3>2 DEF ParkAt, AnswerAt
    <2>3. CASE v = u
      <3>1. ParkAt(u)'
        BY <1>1, <1>2, <1>6, <1>8, <2>1, <2>3 DEF ParkAt
      <3>2. AnswerAt(u)'
        BY <1>5, <1>6 DEF AnswerAt
      <3> QED
        BY <2>3, <3>1, <3>2
    <2>4. CASE v \notin {t, u}
      <3>1. pc'[v] = pc[v] /\ pstate'[v] = pstate[v] /\ lstatus'[v] = lstatus[v]
        BY <1>1, <1>6, <2>4
      <3>2. \A w \in Threads : (Storing(w, v)' <=> Storing(w, v)) /\ (Calling(w, v)' <=> Calling(w, v))
        BY <1>5, <1>7, <2>4
      <3> QED
        BY <2>1, <3>1, <3>2 DEF ParkAt, AnswerAt
    <2> QED
      BY <2>2, <2>3, <2>4
  <1>10. WakerAt(t)'
    <2>1. \A v \in Threads : Storing(v, u)' \/ Calling(v, u)' => v = t
      BY <1>2, <1>7
    <2> QED
      BY <1>1, <1>2, <1>3, <1>6, <2>1 DEF WakerAt, StorePcs, CallPcs
  <1>11. ASSUME NEW w \in Threads \ {t}
         PROVE  WakerAt(w)'
    <2>1. SUFFICES ASSUME pc'[w] \in StorePcs \cup CallPcs
                   PROVE  WakerAt(w)'
      BY DEF WakerAt
    <2>2. Wakee(w)' = Wakee(w) /\ pc'[w] = pc[w]
      BY <1>1 DEF Wakee
    <2>3. WakerAt(w)
      BY DEF WakeInv
    <2>0. PICK x : x = Wakee(w)
      OBVIOUS
    <2>4. /\ x \in Threads /\ pc[x] \in QueuedPcs /\ lstatus[x] # PARKED
          /\ pc[w] \in StorePcs => pstate[x] = 0 /\ pc[x] \in SleepPcs
          /\ pc[w] \in CallPcs => pstate[x] = 1
          /\ \A v \in Threads : Storing(v, x) \/ Calling(v, x) => v = w
          /\ Storing(w, x) \/ Calling(w, x)
      BY <2>0, <2>1, <2>2, <2>3 DEF WakerAt, Storing, Calling
    <2>5. x # u
      BY <1>2, <2>4
    <2>6. /\ lstatus'[x] # PARKED /\ pstate'[x] = pstate[x] /\ pc'[x] \in QueuedPcs
          /\ pc[w] \in StorePcs => pc'[x] \in SleepPcs
      <3>1. CASE x = t
        BY <1>1, <1>6, <1>8, <2>4, <2>5, <3>1
      <3>2. CASE x # t
        BY <1>1, <1>6, <2>4, <2>5, <3>2
      <3> QED
        BY <3>1, <3>2
    <2>7. Wakee(w)' = x
      BY <2>0, <2>2
    <2>8. \A v \in Threads : Storing(v, x)' \/ Calling(v, x)' => v = w
      BY <1>5, <1>7, <2>4, <2>5
    <2> QED
      BY <2>2, <2>4, <2>6, <2>7, <2>8 DEF WakerAt
  <1> QED
    BY <1>9, <1>10, <1>11 DEF WakeInv

\* FUTEX_WAKE: it makes a difference only to a thread that sleeps already.
LEMMA WakeCall ==
  ASSUME TypeOK, WakeInv, NEW t \in Threads, FutexWake(t)
  PROVE  WakeInv'
  <1>0. PICK u : u = Wakee(t)
    OBVIOUS
  <1> DEFINE l == IF pc[t] = "sfutex" THEN "mark" ELSE "cs"
  <1>1. /\ pc[t] \in CallPcs /\ UNCHANGED <<lstatus, pstate, sh>>
        /\ pc' = [pc EXCEPT ![t] = l, ![u] = IF @ = "asleep" THEN "awake" ELSE @]
        /\ \A v \in Threads \ {t} : peer'[v] = peer[v]
        /\ pc \in [Threads -> Pcs]
    BY <1>0 DEF FutexWake, nodeVars, TypeOK, CallPcs
  <1>2. /\ u \in Threads /\ pc[u] \in QueuedPcs /\ lstatus[u] # PARKED /\ pstate[u] = 1
        /\ \A v \in Threads : Storing(v, u) \/ Calling(v, u) => v = t
    BY <1>0, <1>1 DEF WakeInv, WakerAt
  <1>3. l \in {"mark", "cs"} /\ (pc[t] \in QueuedPcs <=> l \in QueuedPcs)
    BY <1>1 DEF CallPcs, QueuedPcs, ParkPcs, ShufflePcs
  <1>4. \A v : Calling(t, v) <=> v = u
    BY <1>0, <1>1 DEF Calling
  <1> HIDE DEF l
  <1>5. /\ pc'[t] = l
        /\ \A v \in Threads \ {t, u} : pc'[v] = pc[v]
        /\ u # t => pc'[u] = IF pc[u] = "asleep" THEN "awake" ELSE pc[u]
    BY <1>1, <1>2, <1>3
  <1>6. \A v : ~Storing(t, v)' /\ ~Calling(t, v)' /\ ~Storing(t, v)
    BY <1>1, <1>3, <1>5 DEF Storing, Calling, StorePcs, CallPcs
  <1>7. \A w \in Threads \ {t} : Alike(w)
    BY <1>1, <1>5 DEF Alike
  <1>8. \A w \in Threads \ {t} : \A v : (Storing(w, v)' <=> Storing(w, v)) /\ (Calling(w, v)' <=> Calling(w, v))
    BY <1>7, SameWaker
  <1>9. /\ \A v \in Threads : pc'[v] \in QueuedPcs <=> pc[v] \in QueuedPcs
        /\ l \notin ParkPcs /\ pc[t] \notin ParkPcs
    BY <1>1, <1>3, <1>5 DEF QueuedPcs, ParkPcs, CallPcs
  <1>10. ASSUME NEW v \in Threads
         PROVE  ParkAt(v)' /\ AnswerAt(v)'
    <2>1. ParkAt(v) /\ AnswerAt(v)
      BY DEF WakeInv
    <2>2. CASE v = t
      <3>1. pc'[t] \notin SleepPcs /\ pc'[t] # "awake" /\ pc[t] \notin SleepPcs
        BY <1>5, <1>9 DEF ParkPcs, SleepPcs
      <3> QED
        BY <1>1, <1>5, <1>9, <2>1, <2>2, <3>1 DEF ParkAt, AnswerAt
    <2>3. CASE v = u /\ u # t
      <3>1. pc'[u] \in ParkPcs <=> pc[u] \in ParkPcs
        BY <1>5, <2>3 DEF ParkPcs
      <3>2. ParkAt(u)'
        BY <1>1, <1>2, <1>9, <2>1, <2>3, <3>1 DEF ParkAt
      <3>3. AnswerAt(u)'
        BY <1>1, <1>2, <1>5, <2>3 DEF AnswerAt
      <3> QED
        BY <2>3, <3>2, <3>3
    <2>4. CASE v \notin {t, u}
      <3>1. pc'[v] = pc[v]
        BY <1>5, <2>4
      <3>2. \A w \in Threads : (Storing(w, v)' <=> Storing(w, v)) /\ (Calling(w, v)' <=> Calling(w, v))
        BY <1>4, <1>6, <1>8, <2>4
      <3> QED
        BY <1>1, <2>1, <3>1, <3>2 DEF ParkAt, AnswerAt
    <2> QED
      BY <2>2, <2>3, <2>4
  <1>11. ASSUME NEW w \in Threads
         PROVE  WakerAt(w)'
    <2>1. SUFFICES ASSUME pc'[w] \in StorePcs \cup CallPcs
                   PROVE  WakerAt(w)'
      BY DEF WakerAt
    <2>2. w # t
      BY <1>3, <1>5, <2>1 DEF StorePcs, CallPcs
    <2>3. Wakee(w)' = Wakee(w) /\ (pc'[w] \in StorePcs <=> pc[w] \in StorePcs)
          /\ (pc'[w] \in CallPcs <=> pc[w] \in CallPcs)
      BY <1>7, <2>1, <2>2, SameWaker
    <2>4. WakerAt(w)
      BY DEF WakeInv
    <2>0. PICK x : x = Wakee(w)
      OBVIOUS
    <2>5. /\ x \in Threads /\ pc[x] \in QueuedPcs /\ lstatus[x] # PARKED
          /\ pc[w] \in StorePcs => pstate[x] = 0 /\ pc[x] \in SleepPcs
          /\ pc[w] \in CallPcs => pstate[x] = 1
          /\ \A v \in Threads : Storing(v, x) \/ Calling(v, x) => v = w
          /\ Storing(w, x) \/ Calling(w, x)
      BY <2>0, <2>1, <2>3, <2>4 DEF WakerAt, Storing, Calling
    <2>6. x # u
      BY <1>2, <2>2, <2>5
    <2>7. pc'[x] \in QueuedPcs /\ (pc[w] \in StorePcs => pc'[x] \in SleepPcs)
      <3>1. CASE x = t
        BY <1>9, <2>5, <3>1 DEF SleepPcs, ParkPcs
      <3>2. CASE x # t
        BY <1>5, <2>5, <2>6, <3>2
      <3> QED
        BY <3>1, <3>2
    <2>8. Wakee(w)' = x
      BY <2>0, <2>3
    <2>9. \A v \in Threads : Storing(v, x)' \/ Calling(v, x)' => v = w
      BY <1>6, <1>8, <2>5
    <2> QED
      BY <1>1, <2>3, <2>5, <2>7, <2>8, <2>9 DEF WakerAt
  <1> QED
    BY <1>10, <1>11 DEF WakeInv

\* The steps that neither park nor wake anybody.
LEMMA CalmActions ==
  ASSUME TypeOK, WakeInv, NEW q, QInv(q), NEW t \in Threads,
         \/ FastPath(t) \/ SwapTail(t) \/ LinkPrev(t) \/ Spin(t) \/ HeadShuffle(t)
         \/ DisableStealing(t) \/ AwaitFree(t) \/ Acquire(t) \/ GetSuccessor(t)
         \/ (CasTail(t) /\ tail # t) \/ EnableStealing(t) \/ WaitSuccessor(t) \/ Unlock(t)
         \/ PassLeadership(t) \/ Scan(t) \/ TailCheck(t) \/ GetNext(t) \/ Mark(t) \/ Unlink(t)
         \/ Relink(t) \/ Insert(t) \/ Ready(t) \/ Appoint(t)
         \/ (Unpark(t) /\ lstatus[sh[t].curr] # PARKED) \/ (Park(t) /\ lstatus[t] # PWAIT)
  PROVE  WakeInv'
  <1> DEFINE Else == ParkPcs \cup StorePcs \cup CallPcs
  <1>1. CASE FastPath(t) \/ SwapTail(t) \/ LinkPrev(t) \/ DisableStealing(t) \/ AwaitFree(t)
             \/ Acquire(t) \/ GetSuccessor(t) \/ (CasTail(t) /\ tail # t) \/ EnableStealing(t)
             \/ WaitSuccessor(t) \/ Unlock(t) \/ (Park(t) /\ lstatus[t] # PWAIT)
    <2>1. UNCHANGED <<lstatus, pstate, sh>> /\ pc[t] \notin Else
      BY <1>1 DEF FastPath, SwapTail, LinkPrev, DisableStealing, AwaitFree, Acquire,
           GetSuccessor, CasTail, EnableStealing, WaitSuccessor, Unlock, Park, lockVars, nodeVars,
           ParkPcs, StorePcs, CallPcs
    <2>2. \E l \in Pcs \ Else : /\ Goto(t, l)
                                /\ pc[t] \in QueuedPcs => l \in QueuedPcs
                                /\ l \in QueuedPcs => pc[t] \in QueuedPcs \cup {"swap"}
      <3>1. \/ pc[t] = "idle" /\ Goto(t, "cs")
            \/ pc[t] = "cs" /\ Goto(t, "idle")
            \/ pc[t] = "enable" /\ Goto(t, "cs")
            \/ pc[t] = "swap" /\ (Goto(t, "steal") \/ Goto(t, "link"))
            \/ /\ pc[t] \in {"link", "park", "steal", "free", "acquire", "getsucc", "castail", "waitsucc"}
               /\ \E l \in {"spin", "free", "acquire", "getsucc", "steal", "castail", "waitsucc", "notify"} :
                    Goto(t, l)
        BY <1>1, Zenon DEF FastPath, SwapTail, LinkPrev, DisableStealing, AwaitFree, Acquire,
             GetSuccessor, CasTail, EnableStealing, WaitSuccessor, Unlock, Park
      <3> QED
        BY <3>1 DEF Pcs, QueuedPcs, HoldPcs, ShufflePcs, ParkPcs, StorePcs, CallPcs
    <2>3. \A u \in Threads \ {t} : pc'[u] = pc[u] /\ sh'[u] = sh[u]
      BY <2>1, <2>2 DEF Goto, TypeOK
    <2>4. \A u \in Threads \ {t} : peer'[u] = peer[u]
      BY <1>1 DEF FastPath, SwapTail, LinkPrev, DisableStealing, AwaitFree, Acquire,
           GetSuccessor, CasTail, EnableStealing, WaitSuccessor, Unlock, Park, TypeOK
    <2>5. pc[t] = "swap" => lstatus[t] # PARKED
      BY DEF QInv, Fresh, QueuedPcs, ParkPcs, ShufflePcs, PARKED, PWAIT
    <2>6. /\ pc'[t] \notin Else
          /\ pc[t] \in QueuedPcs => pc'[t] \in QueuedPcs
          /\ pc'[t] \in QueuedPcs => pc[t] \in QueuedPcs \cup {"swap"}
      BY <2>2 DEF Goto, TypeOK
    <2> QED
      BY <2>1, <2>3, <2>4, <2>5, <2>6, WakeCalm
  <1>2. CASE Spin(t) \/ HeadShuffle(t)
             \/ PassLeadership(t) \/ Scan(t) \/ TailCheck(t) \/ GetNext(t) \/ Mark(t) \/ Unlink(t)
             \/ Relink(t) \/ Insert(t) \/ Ready(t) \/ Appoint(t)
             \/ (Unpark(t) /\ lstatus[sh[t].curr] # PARKED)
    <2>1. /\ UNCHANGED <<lstatus, pstate, peer>>
          /\ pc[t] \in QueuedPcs \ Else
          /\ \E l \in QueuedPcs \ Else : Goto(t, l)
      BY <1>2, Zenon DEF Spin, HeadShuffle, StartShuffle, PassLeadership, Scan, TailCheck, GetNext,
           Mark, Unlink, Relink, Insert, Ready, Appoint, Unpark, Leave, Return, lockVars, nodeVars,
           QueuedPcs, ShufflePcs, ParkPcs, StorePcs, CallPcs
    <2>2. \A u \in Threads \ {t} : sh'[u] = sh[u]
      BY <1>2 DEF Spin, HeadShuffle, StartShuffle, PassLeadership, Scan, TailCheck, GetNext,
           Mark, Unlink, Relink, Insert, Ready, Appoint, Unpark, Leave, Return, TypeOK
    <2>3. /\ pc'[t] \in QueuedPcs \ Else
          /\ \A u \in Threads \ {t} : pc'[u] = pc[u]
      BY <2>1 DEF Goto, TypeOK
    <2> QED
      BY <2>1, <2>2, <2>3, WakeCalm
  <1> QED
    BY <1>1, <1>2

\* The steps that end a thread's time in the queue, or start it.
LEMMA OutsideActions ==
  ASSUME TypeOK, MutualExclusion, WakeInv, NEW q, QInv(q), NEW t \in Threads,
         SlowPath(t) \/ (CasTail(t) /\ tail = t)
  PROVE  WakeInv'
  <1>1. /\ UNCHANGED <<peer, sh>>
        /\ pc'[t] \in {"swap", "enable"}
        /\ \A u \in Threads \ {t} : pc'[u] = pc[u]
    BY DEF SlowPath, CasTail, Goto, TypeOK
  <1>2. PICK s, n : NodeReset(t, s, n)
    BY DEF SlowPath, CasTail
  <1>3. pstate'[t] = 0 /\ \A u \in Threads \ {t} : lstatus'[u] = lstatus[u] /\ pstate'[u] = pstate[u]
    BY <1>2 DEF NodeReset, TypeOK
  <1>4. \A w \in Threads : ~Storing(w, t) /\ ~Calling(w, t)
    <2>1. CASE SlowPath(t)
      <3>1. pc[t] \notin QueuedPcs
        BY <2>1 DEF SlowPath, QueuedPcs, ParkPcs, ShufflePcs
      <3>2. \A w \in Threads : WakerAt(w)
        BY DEF WakeInv
      <3> QED
        BY <3>1, <3>2 DEF WakerAt, Storing, Calling
    <2>2. CASE CasTail(t)
      BY <2>2, NotWoken DEF CasTail
    <2> QED
      BY <2>1, <2>2
  <1>5. pc[t] \notin StorePcs \cup CallPcs /\ pc'[t] \notin QueuedPcs \cup StorePcs \cup CallPcs
    BY <1>1 DEF SlowPath, CasTail, StorePcs, CallPcs, QueuedPcs, ParkPcs, ShufflePcs
  <1> QED
    BY <1>1, <1>3, <1>4, <1>5, WakeOutside

\* The leader turns a parked waiter of its socket into one that is about to be woken.
LEMMA UnparkAnswer ==
  ASSUME TypeOK, WakeInv, NEW q, QInv(q), NEW t \in Threads, Unpark(t), lstatus[sh[t].curr] = PARKED
  PROVE  WakeInv'
  <1>0. PICK u : u = sh[t].curr
    OBVIOUS
  <1>1. /\ pc[t] = "unpark" /\ pc'[t] = "swake" /\ lstatus' = [lstatus EXCEPT ![u] = UNPWAIT]
        /\ UNCHANGED <<pstate, peer, sh>>
        /\ \A v \in Threads \ {t} : pc'[v] = pc[v]
    BY <1>0 DEF Unpark, Goto, TypeOK
  <1>2. PICK j \in 1..Len(q) : \E i \in j..Len(q) : \E p \in i..Len(q) :
               q[j] = t /\ LoopFrom(q, j, i, p)
    BY <1>1, AtLoop DEF ScanPcs, WakePcs
  <1>3. PICK i \in j..Len(q) : \E p \in i..Len(q) : q[j] = t /\ LoopFrom(q, j, i, p)
    BY <1>2
  <1>4. PICK p \in i..Len(q) : q[j] = t /\ LoopFrom(q, j, i, p)
    BY <1>3
  <1>5. p < Len(q) /\ q[p + 1] = u
    BY <1>0, <1>1, <1>4 DEF LoopFrom, WakePcs
  <1>6. u \in Threads /\ pc[u] \in QueuedPcs
    <2>1. p + 1 \in 1..Len(q) /\ q \in Seq(Threads)
      BY <1>5 DEF QInv, QueueOf
    <2> QED
      BY <1>5, <2>1 DEF QInv, QueueOf
  <1>7. pc[t] \in QueuedPcs \ SleepPcs /\ pc'[t] \in QueuedPcs /\ pc'[t] \in StorePcs
        /\ pc[t] \notin ParkPcs \cup StorePcs \cup CallPcs
    BY <1>1 DEF QueuedPcs, ShufflePcs, ParkPcs, SleepPcs, StorePcs, CallPcs
  <1>8. u # t
    BY <1>0, <1>7 DEF WakeInv, ParkAt
  <1>9. lstatus'[u] \notin {PARKED, PWAIT} /\ \A v \in Threads \ {u} : lstatus'[v] = lstatus[v]
    BY <1>1, <1>6 DEF TypeOK, PARKED, PWAIT, UNPWAIT
  <1>10. Wakee(t)' = u
    BY <1>0, <1>1 DEF Wakee, ShufflePcs
  <1> QED
    BY <1>0, <1>1, <1>6, <1>7, <1>8, <1>9, <1>10, WakeAnswer

\* The front thread hands the queue over to its successor, which may be parked.
LEMMA NotifyAnswer ==
  ASSUME TypeOK, MutualExclusion, WakeInv, NEW q, QInv(q), NULL \notin Threads,
         NEW t \in Threads, Notify(t)
  PROVE  WakeInv'
  <1>0. PICK u : u = peer[t]
    OBVIOUS
  <1>1. /\ pc[t] = "notify" /\ UNCHANGED sh
        /\ lstatus' = [lstatus EXCEPT ![u] = LOCKED, ![t] = PARKED]
        /\ pstate' = [pstate EXCEPT ![t] = 0]
        /\ pc'[t] = IF lstatus[u] = PARKED THEN "hwake" ELSE "cs"
        /\ lstatus[u] = PARKED => UNCHANGED peer
        /\ \A v \in Threads \ {t} : pc'[v] = pc[v] /\ peer'[v] = peer[v]
    BY <1>0 DEF Notify, Goto, TypeOK
  <1>2. u \in Threads /\ pc[u] \in QueuedPcs /\ u # t
    BY <1>0, <1>1, NotifySuccessor
  <1>3. \A w \in Threads : ~Storing(w, t) /\ ~Calling(w, t)
    BY <1>1, NotWoken
  <1>4. /\ lstatus'[u] \notin {PARKED, PWAIT} /\ lstatus'[t] = PARKED /\ pstate'[t] = 0
        /\ \A v \in Threads \ {t, u} : lstatus'[v] = lstatus[v]
        /\ \A v \in Threads \ {t} : pstate'[v] = pstate[v]
    BY <1>1, <1>2 DEF TypeOK, PARKED, PWAIT, LOCKED
  <1>5. /\ pc[t] \notin ParkPcs \cup StorePcs \cup CallPcs /\ pc'[t] \notin QueuedPcs \cup CallPcs
        /\ lstatus[u] # PARKED => pc'[t] \notin StorePcs
    BY <1>1 DEF QueuedPcs, ShufflePcs, ParkPcs, StorePcs, CallPcs
  <1>6. CASE lstatus[u] = PARKED
    <2>1. pc'[t] \in StorePcs /\ Wakee(t)' = u
      BY <1>0, <1>1, <1>6 DEF Wakee, ShufflePcs, StorePcs
    <2> QED
      BY <1>1, <1>2, <1>3, <1>4, <1>5, <1>6, <2>1, WakeAnswer
  <1>7. CASE lstatus[u] # PARKED
    BY <1>1, <1>2, <1>3, <1>4, <1>5, <1>7, WakeOutside
  <1> QED
    BY <1>6, <1>7

\* Nobody has called lock at first.
LEMMA InitWakeInv == Init => WakeInv
  <1> SUFFICES ASSUME Init
               PROVE  WakeInv
    OBVIOUS
  <1>1. \A u \in Threads : pc[u] = "idle" /\ pstate[u] = 0 /\ lstatus[u] = PARKED
    BY DEF Init
  <1>2. \A u \in Threads : ParkAt(u)
    BY <1>1 DEF ParkAt, QueuedPcs, ParkPcs, ShufflePcs, PARKED, PWAIT
  <1>3. \A u \in Threads : AnswerAt(u) /\ WakerAt(u)
    BY <1>1 DEF AnswerAt, WakerAt, SleepPcs, StorePcs, CallPcs
  <1> QED
    BY <1>2, <1>3 DEF WakeInv

LEMMA NextWakeInv ==
  ASSUME TypeOK, MutualExclusion, QueueInv, WakeInv, [Next]_vars
  PROVE  WakeInv'
  <1>1. NULL \notin Threads
    BY AqmAssumption
  <1>2. PICK q \in Seq(Threads) : QInv(q)
    BY DEF QueueInv
  <1>3. CASE UNCHANGED vars
    <2>1. UNCHANGED <<lstatus, pstate, pc, peer, sh>>
      BY <1>3 DEF vars, nodeVars
    <2> QED
      BY <2>1 DEF WakeInv, ParkAt, AnswerAt, WakerAt, Storing, Calling, Wakee
  <1>4. ASSUME NEW t \in Threads,
               \/ FastPath(t) \/ SlowPath(t) \/ InLock(t) \/ Shuffle(t) \/ Interrupt(t) \/ Unlock(t)
        PROVE  WakeInv'
    <2>1. CASE SlowPath(t) \/ (CasTail(t) /\ tail = t)
      BY <1>2, <2>1, OutsideActions
    <2>2. CASE Notify(t)
      BY <1>1, <1>2, <2>2, NotifyAnswer
    <2>3. CASE Unpark(t) /\ lstatus[sh[t].curr] = PARKED
      BY <1>2, <2>3, UnparkAnswer
    <2>4. CASE Park(t) /\ lstatus[t] = PWAIT
      BY <2>4, WakePark
    <2>5. CASE SetPstate(t)
      BY <2>5, WakeStore
    <2>6. CASE FutexWake(t)
      BY <2>6, WakeCall
    <2>7. CASE Sleep(t) \/ FutexWait(t) \/ Awake(t) \/ Interrupt(t)
      <3>1. /\ UNCHANGED <<lstatus, pstate, sh, peer>>
            /\ pc[t] \in ParkPcs /\ pc'[t] \in ParkPcs \cup {"spin"}
            /\ \A u \in Threads \ {t} : pc'[u] = pc[u]
            /\ pc'[t] = "spin" => pstate[t] = 1
            /\ pc'[t] = "awake" => pstate[t] # 0
            /\ pc'[t] = "asleep" => pstate[t] = 0
        BY <1>4, <2>7 DEF Sleep, FutexWait, Awake, Interrupt, Goto, TypeOK, ParkPcs, nodeVars
      <3>2. pstate[t] \in {0, 1}
        BY DEF TypeOK
      <3> QED
        BY <3>1, <3>2, WakeDoze
    <2>8. CASE \/ FastPath(t) \/ SwapTail(t) \/ LinkPrev(t) \/ Spin(t) \/ HeadShuffle(t)
               \/ DisableStealing(t) \/ AwaitFree(t) \/ Acquire(t) \/ GetSuccessor(t)
               \/ (CasTail(t) /\ tail # t) \/ EnableStealing(t) \/ WaitSuccessor(t) \/ Unlock(t)
               \/ PassLeadership(t) \/ Scan(t) \/ TailCheck(t) \/ GetNext(t) \/ Mark(t) \/ Unlink(t)
               \/ Relink(t) \/ Insert(t) \/ Ready(t) \/ Appoint(t)
               \/ (Unpark(t) /\ lstatus[sh[t].curr] # PARKED) \/ (Park(t) /\ lstatus[t] # PWAIT)
      BY <1>2, <2>8, CalmActions
    <2> QED
      BY <1>4, <2>1, <2>2, <2>3, <2>4, <2>5, <2>6, <2>7, <2>8 DEF InLock, Shuffle
  <1> QED
    BY <1>3, <1>4 DEF Next

LEMMA QueueInvariant == Spec => [](TypeOK /\ MutualExclusion /\ QueueInv /\ WakeInv)
  <1>1. Init => TypeInv /\ MutualExclusion /\ QueueInv /\ WakeInv
    <2>1. Init => MutualExclusion
      BY DEF Init, aqm_mutex_create, MutualExclusion, Holders, HoldPcs
    <2>2. Init => QueueInv
      <3>1. << >> \in Seq(Threads)
        OBVIOUS
      <3> QED
        BY <3>1, InitQueueInv DEF QueueInv
    <2> QED
      BY <2>1, <2>2, InitTypeInv, InitWakeInv
  <1>2. TypeInv /\ MutualExclusion /\ QueueInv /\ WakeInv /\ [Next]_vars
          => (TypeInv /\ MutualExclusion /\ QueueInv /\ WakeInv)'
    <2>1. TypeInv => TypeOK
      BY DEF TypeInv
    <2> QED
      BY <2>1, NextTypeInv, NextMutualExclusion, NextQueueInv, NextWakeInv
  <1>3. TypeInv => TypeOK
    BY DEF TypeInv
  <1> QED
    BY <1>1, <1>2, <1>3, PTL DEF Spec

\* No wake-up is lost: a thread that somebody has answered while it was parking itself
\* has a waker under way, or sees its futex word set before it sleeps, however the
\* leader, the predecessor, the signals and the thread itself interleave.
THEOREM AqmNoLostWakeupCorrect == Spec => []NoLostWakeup
  <1>1. TypeOK /\ WakeInv => NoLostWakeup
    <2>1. SUFFICES ASSUME TypeOK, WakeInv, NEW u \in Threads, pc[u] \in SleepPcs, lstatus[u] # PARKED
                   PROVE  \/ \E t \in Threads : pc[t] \in StorePcs \cup CallPcs /\ Wakee(t) = u
                          \/ pstate[u] = 1 /\ pc[u] # "asleep"
      BY DEF NoLostWakeup, SleepPcs, StorePcs, CallPcs
    <2>2. pstate[u] \in {0, 1} /\ AnswerAt(u)
      BY <2>1 DEF TypeOK, WakeInv
    <2> QED
      BY <2>1, <2>2 DEF AnswerAt, Storing, Calling
  <1> QED
    BY <1>1, QueueInvariant, PTL

-----------------------------------------------------------------------------
(* The list that a successor function strings together is unique.            *)

\* A set of naturals has a least element.
LEMMA LeastOf ==
  ASSUME NEW T \in SUBSET Nat, T # {}
  PROVE  \E x \in T : \A y \in T : x <= y
  <1>1. \E x \in T : \A y \in T : ~ (<<y, x>> \in OpToRel(<, Nat))
    BY WFMin, NatLessThanWellFounded
  <1>2. PICK x \in T : \A y \in T : ~ (<<y, x>> \in OpToRel(<, Nat))
    BY <1>1
  <1>3. \A y \in T : ~(y < x)
    BY <1>2 DEF OpToRel
  <1> QED
    BY <1>3

\* The first n elements of f are those that succ strings together from front on.
Chain(f, succ, front, n) == \A i \in 1..n : f[i] = IF i = 1 THEN front ELSE succ[f[i - 1]]

LEMMA SameStart ==
  ASSUME NEW n \in Nat, NEW f, NEW g, NEW succ, NEW front,
         Chain(f, succ, front, n), Chain(g, succ, front, n)
  PROVE  \A i \in 1..n : f[i] = g[i]
  <1> DEFINE T == {i \in 1..n : f[i] # g[i]}
  <1>1. SUFFICES ASSUME T # {}
                 PROVE  FALSE
    OBVIOUS
  <1>2. T \in SUBSET Nat
    OBVIOUS
  <1>3. PICK m \in T : \A y \in T : m <= y
    <2> HIDE DEF T
    <2> QED
      BY <1>1, <1>2, LeastOf
  <1>4. m \in 1..n /\ f[m] # g[m]
    BY <1>3
  <1>5. m # 1 /\ m - 1 \in 1..n
    BY <1>4 DEF Chain
  <1>6. m - 1 \notin T
    BY <1>3, <1>4
  <1>7. f[m - 1] = g[m - 1]
    BY <1>5, <1>6
  <1> QED
    BY <1>4, <1>5, <1>7 DEF Chain

LEMMA ListIs ==
  ASSUME NEW S, NEW q \in Seq(S), NEW succ, NEW front, Chain(q, succ, front, Len(q))
  PROVE  ListFrom(succ, front, Len(q)) = q
  <1> DEFINE n == Len(q)
             F(f) == f = [i \in 1..n |-> IF i = 1 THEN front ELSE succ[f[i - 1]]]
             h == CHOOSE f : F(f)
  <1>1. n \in Nat /\ q = [i \in 1..n |-> q[i]]
    OBVIOUS
  <1>2. F(q)
    BY <1>1 DEF Chain
  <1>3. F(h)
    BY <1>2
  <1>4. Chain(h, succ, front, n)
    BY <1>3 DEF Chain
  <1>5. \A i \in 1..n : h[i] = q[i]
    <2> HIDE DEF h
    <2> QED
      BY <1>1, <1>4, SameStart
  <1>6. ListFrom(succ, front, n) = [i \in 1..n |-> h[i]]
    BY DEF ListFrom
  <1> QED
    BY <1>1, <1>5, <1>6

-----------------------------------------------------------------------------
(* QueueOrder is the queue.                                                  *)

LEMMA QueuedIs ==
  ASSUME NEW q, QueueOf(q)
  PROVE  Queued = {q[i] : i \in 1..Len(q)} /\ Cardinality(Queued) = Len(q)
  <1>1. /\ q \in Seq(Threads) /\ Len(q) \in Nat
        /\ \A i, j \in 1..Len(q) : q[i] = q[j] => i = j
        /\ \A i \in 1..Len(q) : q[i] \in Threads
        /\ \A t \in Threads : pc[t] \in QueuedPcs <=> \E i \in 1..Len(q) : q[i] = t
    BY DEF QueueOf
  <1>2. Queued = {q[i] : i \in 1..Len(q)}
    BY <1>1 DEF Queued
  <1>3. q \in [1..Len(q) -> Queued]
    BY <1>1, <1>2
  <1>4. q \in Bijection(1..Len(q), Queued)
    <2>1. \A t \in Queued : \E i \in 1..Len(q) : q[i] = t
      BY <1>2
    <2>2. \A i, j \in 1..Len(q) : q[i] = q[j] => i = j
      BY <1>1
    <2> QED
      BY <1>3, <2>1, <2>2, Fun_IsBij
  <1>5. ExistsBijection(1..Len(q), Queued)
    BY <1>4 DEF ExistsBijection
  <1>6. IsFiniteSet(1..Len(q)) /\ Cardinality(1..Len(q)) = Len(q)
    <2>1. 1 \in Int /\ Len(q) \in Int
      BY <1>1
    <2>2. /\ IsFiniteSet(1..Len(q))
          /\ Cardinality(1..Len(q)) = IF 1 > Len(q) THEN 0 ELSE Len(q) - 1 + 1
      BY <2>1, FS_Interval
    <2> QED
      BY <1>1, <2>2
  <1> QED
    BY <1>2, <1>5, <1>6, FS_Bijection

LEMMA HeadsAre ==
  ASSUME NEW q, QInv(q)
  PROVE  Heads = IF Len(q) = 0 THEN {} ELSE {q[1]}
  <1>0. QueueOf(q) /\ Len(q) \in Nat
    BY DEF QInv, QueueOf
  <1>1. Queued = {q[i] : i \in 1..Len(q)} /\ Len(q) \in Nat
    BY <1>0, QueuedIs
  <1>2. \A i \in 1..Len(q) : IsHead(q[i]) <=> i = 1
    BY DEF QInv, HeadAt
  <1>3. CASE Len(q) = 0
    BY <1>1, <1>3 DEF Heads
  <1>4. CASE Len(q) # 0
    <2>1. 1 \in 1..Len(q)
      BY <1>1, <1>4
    <2> QED
      BY <1>1, <1>2, <1>4, <2>1 DEF Heads
  <1> QED
    BY <1>3, <1>4

\* The stores under way are those that link a position to the one behind it.
LEMMA PendingIs ==
  ASSUME NEW q, QInv(q), NEW s \in PendingStores, NEW i \in 1..Len(q), i < Len(q), s.at = q[i]
  PROVE  s.to = q[i + 1]
  <1>1. /\ q \in Seq(Threads) /\ Len(q) \in Nat
        /\ \A k, l \in 1..Len(q) : q[k] = q[l] => k = l
        /\ \A u \in Threads : pc[u] \in QueuedPcs <=> \E k \in 1..Len(q) : q[k] = u
    BY DEF QInv, QueueOf
  <1>2. ASSUME NEW v \in Threads, pc[v] = "link", s = [at |-> peer[v], to |-> v]
        PROVE  s.to = q[i + 1]
    <2>1. PICK k \in 1..Len(q) : q[k] = v
      BY <1>1, <1>2 DEF QueuedPcs
    <2>2. LinkAt(q, k)
      BY DEF QInv
    <2>3. k >= 2 /\ q[k - 1] = q[i]
      BY <1>2, <2>1, <2>2 DEF LinkAt
    <2>4. k - 1 \in 1..Len(q)
      BY <1>1, <2>3
    <2>5. k - 1 = i
      BY <1>1, <2>3, <2>4
    <2>6. k = i + 1
      BY <1>1, <2>5
    <2> QED
      BY <1>2, <2>1, <2>6
  <1>3. ASSUME NEW m \in Threads, pc[m] \in {"relink", "insert"},
               \/ s = [at |-> sh[m].last, to |-> sh[m].curr]
               \/ s = [at |-> sh[m].curr, to |-> next[sh[m].last]]
        PROVE  s.to = q[i + 1]
    <2>1. PICK j \in 1..Len(q) : \E k \in j..Len(q) : \E p \in (k + 2)..Len(q) :
             q[j] = m /\ MoveFrom(q, j, k, p)
      <3>1. pc[m] \in MovePcs
        BY <1>3 DEF MovePcs
      <3> QED
        BY <3>1, AtMove
    <2>p. PICK k \in j..Len(q) : \E p \in (k + 2)..Len(q) : q[j] = m /\ MoveFrom(q, j, k, p)
      BY <2>1
    <2>2. /\ q[k] = sh[m].last /\ q[k + 1] = sh[m].curr /\ next[q[k]] = q[k + 2]
          /\ k + 2 <= Len(q)
      BY <1>1, <2>p DEF MoveFrom
    <2>3. /\ k \in 1..Len(q) /\ k + 1 \in 1..Len(q) /\ (k + 1) + 1 = k + 2
      BY <1>1, <2>2
    <2>4. CASE s = [at |-> sh[m].last, to |-> sh[m].curr]
      <3>1. k = i
        BY <1>1, <2>2, <2>3, <2>4
      <3> QED
        BY <2>2, <2>4, <3>1
    <2>5. CASE s = [at |-> sh[m].curr, to |-> next[sh[m].last]]
      <3>1. k + 1 = i
        BY <1>1, <2>2, <2>3, <2>5
      <3> QED
        BY <2>2, <2>3, <2>5, <3>1
    <2> QED
      BY <1>3, <2>4, <2>5
  <1> QED
    BY <1>2, <1>3 DEF PendingStores

LEMMA SuccessorIs ==
  ASSUME NEW q, QInv(q), NEW i \in 1..Len(q), i < Len(q), TypeOK
  PROVE  WithStores(next, PendingStores, Ptr)[q[i]] = q[i + 1]
  <1>1. q[i] \in Threads /\ q[i + 1] \in Threads /\ i + 1 \in 1..Len(q) /\ Len(q) \in Nat
    BY DEF QInv, QueueOf
  <1>2. \A s \in PendingStores : s.at = q[i] => s.to = q[i + 1]
    BY PendingIs
  <1>3. CASE \E s \in PendingStores : s.at = q[i]
    <2>1. (CHOOSE s \in PendingStores : s.at = q[i]).to = q[i + 1]
      BY <1>2, <1>3
    <2> QED
      BY <1>1, <1>3, <2>1 DEF WithStores, Ptr
  <1>4. CASE ~\E s \in PendingStores : s.at = q[i]
    <2>1. pc[q[i + 1]] # "link"
      <3>1. SUFFICES ASSUME pc[q[i + 1]] = "link"
                     PROVE  FALSE
        OBVIOUS
      <3>2. LinkAt(q, i + 1) /\ (i + 1) - 1 = i
        BY <1>1 DEF QInv
      <3>3. peer[q[i + 1]] = q[i]
        BY <1>1, <3>1, <3>2 DEF LinkAt
      <3>4. [at |-> peer[q[i + 1]], to |-> q[i + 1]] \in PendingStores
        BY <1>1, <3>1 DEF PendingStores
      <3> QED
        BY <1>4, <3>3, <3>4
    <2>2. ~Moved(q[i])
      <3>1. SUFFICES ASSUME NEW m \in Threads, \/ pc[m] \in MovePcs /\ sh[m].last = q[i]
                                               \/ pc[m] = "relink" /\ sh[m].curr = q[i]
                     PROVE  FALSE
        BY DEF Moved
      <3>2. pc[m] \in {"relink", "insert"}
        BY <3>1 DEF MovePcs
      <3>3. /\ [at |-> sh[m].last, to |-> sh[m].curr] \in PendingStores
            /\ [at |-> sh[m].curr, to |-> next[sh[m].last]] \in PendingStores
        BY <3>2 DEF PendingStores
      <3> QED
        BY <1>4, <3>1, <3>3
    <2>3. LinkAt(q, i)
      BY DEF QInv
    <2>4. next[q[i]] = q[i + 1]
      BY <2>1, <2>2, <2>3 DEF LinkAt
    <2>5. q[i] \in DOMAIN next
      BY <1>1 DEF TypeOK
    <2> QED
      BY <1>1, <1>4, <2>4, <2>5 DEF WithStores, Ptr
  <1> QED
    BY <1>3, <1>4

LEMMA OrderIs ==
  ASSUME TypeOK, NEW q, QInv(q)
  PROVE  QueueOrder = q
  <1> DEFINE front == IF Heads = {} THEN NULL ELSE CHOOSE t \in Heads : TRUE
             succ  == WithStores(next, PendingStores, Ptr)
  <1>1. q \in Seq(Threads) /\ Len(q) \in Nat /\ Cardinality(Queued) = Len(q)
    BY QueuedIs DEF QInv, QueueOf
  <1>2. 1 \in 1..Len(q) => front = q[1]
    <2>1. 1 \in 1..Len(q) => Heads = {q[1]}
      BY <1>1, HeadsAre
    <2> QED
      BY <2>1
  <1>3. Chain(q, succ, front, Len(q))
    <2>1. ASSUME NEW i \in 1..Len(q), i # 1
          PROVE  q[i] = succ[q[i - 1]]
      <3>1. i - 1 \in 1..Len(q) /\ i - 1 < Len(q) /\ (i - 1) + 1 = i
        BY <1>1, <2>1
      <3> QED
        BY <3>1, SuccessorIs
    <2> QED
      BY <1>2, <2>1 DEF Chain
  <1>4. QueueOrder = ListFrom(succ, front, Len(q))
    BY <1>1 DEF QueueOrder
  <1> HIDE DEF succ, front
  <1> QED
    BY <1>1, <1>3, <1>4, ListIs

-----------------------------------------------------------------------------
(* The safety properties of Aqm.                                             *)

LEMMA OrderIntact ==
  ASSUME TypeOK, NEW q, QInv(q)
  PROVE  QueueIntact
  <1>1. /\ QueueOrder = q /\ Cardinality(Queued) = Len(q) /\ Len(q) \in Nat
        /\ Queued = {q[i] : i \in 1..Len(q)}
        /\ tail = IF Len(q) = 0 THEN NULL ELSE q[Len(q)]
    <2>1. QueueOrder = q /\ QueueOf(q)
      BY OrderIs DEF QInv
    <2> QED
      BY <2>1, QueuedIs DEF QueueOf
  <1>2. Len(q) # 0 => Cardinality(Heads) = 1
    BY <1>1, HeadsAre, FS_Singleton
  <1> QED
    BY <1>1, <1>2 DEF QueueIntact

LEMMA OrderLed ==
  ASSUME TypeOK, NEW q, QInv(q)
  PROVE  SingleShuffler
  <1> DEFINE StartsAlone(x) == /\ x \in Heads /\ wcount[x] = 0
                               /\ pc[x] \in {"spin", "park", "head"} \cup ParkPcs
             Leads(x) == pc[x] \in ShufflePcs \/ sleader[x] = 1 \/ StartsAlone(x)
  <1>1. Queued = {q[i] : i \in 1..Len(q)} /\ Len(q) \in Nat
    BY QueuedIs DEF QInv, QueueOf
  <1>2. ASSUME NEW i \in 1..Len(q), NEW j \in 1..Len(q), Leads(q[i]), Leads(q[j])
        PROVE  i = j
    <2>1. 1 \in 1..Len(q) /\ Heads = {q[1]}
      BY <1>1, HeadsAre
    <2>2. \A k \in 1..Len(q) : q[k] = q[1] => k = 1
      BY <2>1 DEF QInv, QueueOf
    <2>3. CASE wcount[q[1]] = 1
      <3>1. Token(q[i]) /\ Token(q[j])
        BY <1>2, <2>1, <2>3 DEF Token
      <3> QED
        BY <3>1, OneToken
    <2>4. CASE wcount[q[1]] # 1
      <3>1. \A k \in 1..Len(q) : k # 1 => ~Token(q[k])
        BY <1>1, <2>1, <2>4 DEF QInv, TokenAt
      <3>2. ASSUME NEW k \in 1..Len(q), Leads(q[k])
            PROVE  k = 1
        BY <2>1, <2>2, <3>1, <3>2 DEF Token
      <3> QED
        BY <1>2, <3>2
    <2> QED
      BY <2>3, <2>4
  <1>3. SUFFICES ASSUME NEW t \in Queued, NEW u \in Queued, Leads(t), Leads(u)
                 PROVE  t = u
    BY DEF SingleShuffler
  <1> QED
    BY <1>1, <1>2, <1>3

LEMMA OrderAlive ==
  ASSUME TypeOK, WakeInv, NEW q, QInv(q)
  PROVE  NodesAlive
  <1>1. /\ QueueOrder = q /\ Len(q) \in Nat /\ DOMAIN q = 1..Len(q)
        /\ Queued = {q[i] : i \in 1..Len(q)}
        /\ \A i \in 1..Len(q) : q[i] \in Threads
    BY OrderIs, QueuedIs DEF QInv, QueueOf
  <1>2. ASSUME NEW j \in 1..Len(q), NEW u, On(q, j, u)
        PROVE  u \in FromOn(q, q[j])
    <2>1. PICK k \in j..Len(q) : q[k] = u
      BY <1>2 DEF On
    <2>2. k \in 1..Len(q) /\ j \in 1..k
      BY <1>1
    <2>3. k \in {l \in DOMAIN q : \E i \in 1..l : q[i] = q[j]}
      BY <1>1, <2>2
    <2> QED
      BY <2>1, <2>3 DEF FromOn
  <1>3. ASSUME NEW j \in 1..Len(q), pc[q[j]] \in ShufflePcs
        PROVE  {sh[q[j]].prev, sh[q[j]].last, sh[q[j]].curr, sh[q[j]].nxt, sh[q[j]].leader}
                  \subseteq FromOn(q, q[j]) \cup {NULL}
    <2>1. FrameAt(q, j)
      BY DEF QInv
    <2>2. \A x \in {sh[q[j]].prev, sh[q[j]].last, sh[q[j]].curr, sh[q[j]].nxt, sh[q[j]].leader} :
            x = NULL \/ On(q, j, x)
      BY <1>3, <2>1 DEF FrameAt
    <2> QED
      BY <1>2, <2>2
  <1>4. ASSUME NEW t \in Threads, pc[t] \in {"notify", "hwake", "hfutex"}
        PROVE  peer[t] \in Queued
    <2>1. CASE pc[t] = "notify"
      <3>1. peer[t] \in Threads /\ pc[peer[t]] \in QueuedPcs
        BY <2>1, NotifySuccessor, AqmAssumption
      <3> QED
        BY <3>1 DEF Queued
    <2>2. CASE pc[t] # "notify"
      <3>1. pc[t] \in StorePcs \cup CallPcs /\ Wakee(t) = peer[t]
        BY <1>4, <2>2 DEF StorePcs, CallPcs, Wakee, ShufflePcs
      <3>2. peer[t] \in Threads /\ pc[peer[t]] \in QueuedPcs
        BY <3>1 DEF WakeInv, WakerAt
      <3> QED
        BY <3>2 DEF Queued
    <2> QED
      BY <2>1, <2>2
  <1> QED
    BY <1>1, <1>3, <1>4 DEF NodesAlive

\* The next fields string the queued nodes together from the one very next waiter to
\* the tail, whatever enqueues, leaves and moves are under way.
THEOREM AqmQueueIntactCorrect == Spec => []QueueIntact
  <1>1. TypeOK /\ QueueInv => QueueIntact
    BY OrderIntact DEF QueueInv
  <1> QED
    BY <1>1, QueueInvariant, PTL

\* At most one thread is in shuffle_waiters, is appointed to it or may enter it by
\* itself.
THEOREM AqmSingleShufflerCorrect == Spec => []SingleShuffler
  <1>1. TypeOK /\ QueueInv => SingleShuffler
    BY OrderLed DEF QueueInv
  <1> QED
    BY <1>1, QueueInvariant, PTL

\* The pointers the shuffle leader follows are to nodes still queued at or behind itself,
\* and whoever is woken is still queued while its waker writes its futex word and calls
\* futex on it.
THEOREM AqmNodesAliveCorrect == Spec => []NodesAlive
  <1>1. TypeOK /\ QueueInv /\ WakeInv => NodesAlive
    BY OrderAlive DEF QueueInv
  <1> QED
    BY <1>1, QueueInvariant, PTL

-----------------------------------------------------------------------------
(* Aqm implements ShflQueue: the owner and the waiting queue of a state.     *)

HeadHolds(q) == Len(q) # 0 /\ pc[q[1]] \in HoldPcs

\* The front thread is out of the waiting queue from the moment it holds the lock.
LEMMA WaitIs ==
  ASSUME NEW q, TypeOK, QInv(q)
  PROVE  WaitQueue = IF HeadHolds(q) THEN Tail(q) ELSE q
  <1>1. QueueOrder = q /\ Heads = IF Len(q) = 0 THEN {} ELSE {q[1]}
    BY OrderIs, HeadsAre
  <1>2. Len(q) # 0 => q[1] \in Threads
    BY DEF QInv, QueueOf
  <1>3. Heads \cap Holders # {} <=> HeadHolds(q)
    BY <1>1, <1>2 DEF HeadHolds, Holders
  <1> QED
    BY <1>1, <1>3 DEF WaitQueue

LEMMA WaitNext ==
  ASSUME NEW q
  PROVE  (TypeOK /\ QInv(q) => WaitQueue = IF HeadHolds(q) THEN Tail(q) ELSE q)'
  <1>1. TypeOK /\ QInv(q) => WaitQueue = IF HeadHolds(q) THEN Tail(q) ELSE q
    BY WaitIs
  <1> QED
    BY <1>1, PTL

LEMMA OwnerIs ==
  ASSUME MutualExclusion
  PROVE  /\ \A t \in Threads : pc[t] \in HoldPcs => Owner = t
         /\ (\A t \in Threads : pc[t] \notin HoldPcs) => Owner = NULL
  BY DEF MutualExclusion, Owner, Holders

LEMMA OwnerNext ==
  (MutualExclusion => /\ \A t \in Threads : pc[t] \in HoldPcs => Owner = t
                      /\ (\A t \in Threads : pc[t] \notin HoldPcs) => Owner = NULL)'
  <1>1. MutualExclusion => /\ \A t \in Threads : pc[t] \in HoldPcs => Owner = t
                           /\ (\A t \in Threads : pc[t] \notin HoldPcs) => Owner = NULL
    BY OwnerIs
  <1> QED
    BY <1>1, PTL

\* While the lock is free, there is no owner, and the front thread still waits.
LEMMA FreeIs ==
  ASSUME NEW q, TypeOK, MutualExclusion, QInv(q), locked = 0
  PROVE  Owner = NULL /\ WaitQueue = q /\ \A t \in Threads : pc[t] \notin HoldPcs
  <1>1. \A t \in Threads : pc[t] \notin HoldPcs
    BY DEF MutualExclusion, Holders
  <1>2. ~HeadHolds(q)
    BY <1>1 DEF HeadHolds, QInv, QueueOf
  <1> QED
    BY <1>1, <1>2, OwnerIs, WaitIs

\* A thread that neither waits nor holds the lock is outside.
LEMMA OutsideIs ==
  ASSUME NEW q, TypeOK, MutualExclusion, QInv(q), NEW t \in Threads, pc[t] \notin QueuedPcs \cup HoldPcs
  PROVE  t \in Abs!Outside
  <1>1. q \in Seq(Threads) /\ Len(q) \in Nat /\ \A i \in 1..Len(q) : pc[q[i]] \in QueuedPcs
    BY DEF QInv, QueueOf
  <1>2. t # Owner
    <2>1. NULL \notin Threads
      BY AqmAssumption
    <2> QED
      BY <2>1, OwnerIs
  <1>3. \A i \in DOMAIN WaitQueue : WaitQueue[i] # t
    <2>1. CASE WaitQueue = q
      BY <1>1, <2>1
    <2>2. CASE HeadHolds(q) /\ WaitQueue = Tail(q)
      <3>1. Len(q) # 0
        BY <2>2 DEF HeadHolds
      <3>2. DOMAIN Tail(q) = 1..(Len(q) - 1) /\ \A i \in 1..(Len(q) - 1) : Tail(q)[i] = q[i + 1]
        BY <1>1, <3>1
      <3>3. \A i \in 1..(Len(q) - 1) : i + 1 \in 1..Len(q)
        BY <1>1
      <3> QED
        BY <1>1, <2>2, <3>2, <3>3
    <2> QED
      BY <2>1, <2>2, WaitIs
  <1> QED
    BY <1>2, <1>3 DEF Abs!Outside, Abs!Waiting

\* Steps of a thread that is not queued leave the waiting queue alone.
LEMMA WaitKept ==
  ASSUME NEW q, TypeOK, TypeOK', QInv(q), QInv(q)', NEW t \in Threads, pc[t] \notin QueuedPcs,
         \A u \in Threads \ {t} : pc'[u] = pc[u]
  PROVE  WaitQueue' = WaitQueue
  <1>1. Len(q) # 0 => q[1] \in Threads /\ pc[q[1]] \in QueuedPcs
    BY DEF QInv, QueueOf
  <1>2. HeadHolds(q)' <=> HeadHolds(q)
    BY <1>1 DEF HeadHolds
  <1>3. /\ WaitQueue = IF HeadHolds(q) THEN Tail(q) ELSE q
        /\ WaitQueue' = IF HeadHolds(q)' THEN Tail(q) ELSE q
    BY WaitIs, WaitNext
  <1> QED
    BY <1>2, <1>3

\* Steps after which the same threads hold the lock and wait change nothing.
LEMMA StutterStep ==
  ASSUME NEW q, TypeOK, TypeOK', MutualExclusion, MutualExclusion', QInv(q), QInv(q)',
         \A u \in Threads : pc'[u] \in HoldPcs <=> pc[u] \in HoldPcs,
         nid' = nid
  PROVE  UNCHANGED Abs!vars
  <1>1. Owner' = Owner
    BY OwnerIs, OwnerNext
  <1>2. Len(q) # 0 => q[1] \in Threads
    BY DEF QInv, QueueOf
  <1>3. HeadHolds(q)' <=> HeadHolds(q)
    BY <1>2 DEF HeadHolds
  <1>4. WaitQueue' = WaitQueue
    <2>1. /\ WaitQueue = IF HeadHolds(q) THEN Tail(q) ELSE q
          /\ WaitQueue' = IF HeadHolds(q)' THEN Tail(q) ELSE q
      BY WaitIs, WaitNext
    <2> QED
      BY <1>3, <2>1
  <1> QED
    BY <1>1, <1>4 DEF Abs!vars

-----------------------------------------------------------------------------
(* Each step is one of ShflQueue's or none.                                  *)

LEMMA StealStep ==
  ASSUME NEW q, TypeOK, TypeOK', MutualExclusion, MutualExclusion', QInv(q), QInv(q)',
         NEW t \in Threads, FastPath(t)
  PROVE  Abs!Steal
  <1>1. /\ pc[t] = "idle" /\ pc'[t] = "cs" /\ locked = 0 /\ nid' = nid
        /\ \A u \in Threads \ {t} : pc'[u] = pc[u]
    BY DEF FastPath, Goto, TypeOK, nodeVars
  <1>2. pc[t] \notin QueuedPcs \cup HoldPcs /\ pc'[t] \in HoldPcs
    BY <1>1 DEF QueuedPcs, HoldPcs, ParkPcs, ShufflePcs
  <1>3. Owner = NULL
    BY <1>1, FreeIs
  <1>4. Owner' = t /\ t # NULL
    BY <1>2, OwnerNext, AqmAssumption
  <1>5. WaitQueue' = WaitQueue
    BY <1>1, <1>2, WaitKept
  <1>6. t \in Abs!Outside
    BY <1>2, OutsideIs
  <1> QED
    BY <1>1, <1>3, <1>4, <1>5, <1>6 DEF Abs!Steal

LEMMA NoteStep ==
  ASSUME NEW q, TypeOK, TypeOK', MutualExclusion, MutualExclusion', QInv(q), QInv(q)',
         NEW t \in Threads, SlowPath(t)
  PROVE  Abs!Note \/ UNCHANGED Abs!vars
  <1>1. /\ pc[t] = "idle" /\ pc'[t] = "swap"
        /\ \A u \in Threads \ {t} : pc'[u] = pc[u]
    BY DEF SlowPath, Goto, TypeOK
  <1>2. PICK n \in Sockets : nid' = [nid EXCEPT ![t] = n]
    <2>1. Homes[t] \subseteq Sockets
      BY AqmAssumption
    <2> QED
      BY <2>1 DEF SlowPath, NodeReset
  <1>3. pc[t] \notin QueuedPcs \cup HoldPcs /\ pc'[t] \notin HoldPcs
    BY <1>1 DEF QueuedPcs, HoldPcs, ParkPcs, ShufflePcs
  <1>4. Owner' = Owner
    BY <1>1, <1>3, OwnerIs, OwnerNext
  <1>5. WaitQueue' = WaitQueue
    BY <1>1, <1>3, WaitKept
  <1>6. t \in Abs!Outside
    BY <1>3, OutsideIs
  <1> QED
    BY <1>2, <1>4, <1>5, <1>6 DEF Abs!Note, Abs!vars

LEMMA EnqueueStep ==
  ASSUME NEW q, TypeOK, TypeOK', MutualExclusion, MutualExclusion', QInv(q),
         NEW t \in Threads, QInv(Append(q, t))', SwapTail(t), nid[t] \in Sockets
  PROVE  Abs!Enqueue
  <1> DEFINE r == Append(q, t)
  <1>1. /\ pc[t] = "swap" /\ pc'[t] \in {"steal", "link"} /\ nid' = nid
        /\ \A u \in Threads \ {t} : pc'[u] = pc[u]
    BY DEF SwapTail, Goto, TypeOK, nodeVars
  <1>2. pc[t] \notin QueuedPcs \cup HoldPcs /\ pc'[t] \notin HoldPcs
    BY <1>1 DEF QueuedPcs, HoldPcs, ParkPcs, ShufflePcs
  <1>3. Owner' = Owner
    BY <1>1, <1>2, OwnerIs, OwnerNext
  <1>4. t \in Abs!Outside
    BY <1>2, OutsideIs
  <1>5. /\ q \in Seq(Threads) /\ Len(q) \in Nat
        /\ Len(q) # 0 => q[1] \in Threads /\ pc[q[1]] \in QueuedPcs
    BY DEF QInv, QueueOf
  <1>6. Len(r) = Len(q) + 1 /\ (Len(q) # 0 => r[1] = q[1]) /\ (Len(q) = 0 => r[1] = t)
    BY <1>5
  <1>7. WaitQueue = (IF HeadHolds(q) THEN Tail(q) ELSE q) /\ WaitQueue' = (IF HeadHolds(r)' THEN Tail(r) ELSE r)
    BY WaitIs, WaitNext
  <1>8. HeadHolds(r)' <=> HeadHolds(q)
    <2> HIDE DEF r
    <2> QED
      BY <1>1, <1>2, <1>5, <1>6 DEF HeadHolds
  <1>9. HeadHolds(q) => Tail(r) = Append(Tail(q), t)
    BY <1>5 DEF HeadHolds
  <1>10. WaitQueue' = Append(WaitQueue, t)
    BY <1>7, <1>8, <1>9
  <1> QED
    BY <1>1, <1>3, <1>4, <1>10 DEF Abs!Enqueue

LEMMA GrantStep ==
  ASSUME NEW q, TypeOK, TypeOK', MutualExclusion, MutualExclusion', QInv(q), QInv(q)',
         NEW t \in Threads, Acquire(t), locked = 0
  PROVE  Abs!Grant
  <1>1. pc[t] = "acquire" /\ pc'[t] = "getsucc" /\ locked = 0 /\ nid' = nid
    BY DEF Acquire, Goto, TypeOK, nodeVars
  <1>2. Owner = NULL /\ WaitQueue = q
    BY <1>1, FreeIs
  <1>3. Owner' = t /\ t # NULL
    BY <1>1, OwnerNext, AqmAssumption DEF HoldPcs
  <1>4. PICK j \in 1..Len(q) : q[j] = t
    BY <1>1, Placed DEF QInv, QueuedPcs
  <1>5. j = 1 /\ Len(q) # 0 /\ q[1] = t
    <2>1. IsHead(q[j]) /\ HeadAt(q, j)
      BY <1>1, <1>4 DEF QInv, IsHead
    <2> QED
      BY <1>4, <2>1 DEF HeadAt
  <1>6. HeadHolds(q)'
    BY <1>1, <1>5 DEF HeadHolds, HoldPcs
  <1>7. WaitQueue' = Tail(q)
    BY <1>6, WaitNext
  <1>8. q # << >> /\ Head(q) = t
    BY <1>5 DEF QInv, QueueOf
  <1> QED
    BY <1>1, <1>2, <1>3, <1>7, <1>8 DEF Abs!Grant

\* Leaving the queue with the lock, to an empty queue or to the next front waiter.
LEMMA ForgetStep ==
  ASSUME NEW q, NEW r, TypeOK, TypeOK', MutualExclusion, MutualExclusion', QInv(q), QInv(r)',
         NEW t \in Threads, Len(q) # 0, q[1] = t, r = Tail(q), pc[t] \in HoldPcs, pc'[t] \in HoldPcs \ QueuedPcs,
         \A u \in Threads \ {t} : pc'[u] = pc[u], nid' = [nid EXCEPT ![t] = NULL]
  PROVE  Abs!Forget \/ UNCHANGED Abs!vars
  <1>1. Owner = t /\ Owner' = t /\ t # NULL
    BY OwnerIs, OwnerNext, AqmAssumption
  <1>2. HeadHolds(q) /\ WaitQueue = r
    BY WaitIs DEF HeadHolds
  <1>3. ~HeadHolds(r)'
    <2>1. SUFFICES ASSUME Len(r) # 0
                   PROVE  pc'[r[1]] \notin HoldPcs
      BY DEF HeadHolds
    <2>2. r[1] \in Threads /\ pc'[r[1]] \in QueuedPcs
      <3>1. QueueOf(r)'
        BY DEF QInv
      <3>2. 1 \in 1..Len(r)
        <4>1. Len(r) \in Nat
          BY <3>1 DEF QueueOf
        <4>2. \A l \in Nat : l # 0 => 1 \in 1..l
          OBVIOUS
        <4> QED
          BY <2>1, <4>1, <4>2
      <3> QED
        BY <3>1, <3>2 DEF QueueOf
    <2>3. r[1] # t
      BY <2>2
    <2> QED
      BY <2>2, <2>3 DEF MutualExclusion, Holders
  <1>4. WaitQueue' = WaitQueue
    BY <1>2, <1>3, WaitNext
  <1> QED
    BY <1>1, <1>4 DEF Abs!Forget, Abs!vars

LEMMA ReleaseStep ==
  ASSUME NEW q, TypeOK, TypeOK', MutualExclusion, MutualExclusion', QInv(q), QInv(q)',
         NEW t \in Threads, Unlock(t)
  PROVE  Abs!Release
  <1>1. /\ pc[t] = "cs" /\ pc'[t] = "idle" /\ nid' = nid /\ locked' = 0
        /\ \A u \in Threads \ {t} : pc'[u] = pc[u]
    BY DEF Unlock, Goto, TypeOK, nodeVars
  <1>2. pc[t] \notin QueuedPcs /\ pc[t] \in HoldPcs
    BY <1>1 DEF QueuedPcs, HoldPcs, ParkPcs, ShufflePcs
  <1>3. Owner = t /\ t # NULL
    BY <1>2, OwnerIs, AqmAssumption
  <1>4. Owner' = NULL
    <2>1. \A u \in Threads : pc'[u] \notin HoldPcs
      BY <1>1 DEF MutualExclusion, Holders
    <2> QED
      BY <2>1, OwnerNext
  <1>5. WaitQueue' = WaitQueue
    BY <1>1, <1>2, WaitKept
  <1> QED
    BY <1>1, <1>3, <1>4, <1>5 DEF Abs!Release

\* Taking the front element off commutes with moving one forward behind it.
LEMMA MoveBehind ==
  ASSUME NEW q \in Seq(Threads), NEW i \in 2..Len(q), NEW p \in (i + 1)..Len(q), p + 1 \in 1..Len(q)
  PROVE  Tail(Abs!MoveForward(q, i + 1, p + 1)) = Abs!MoveForward(Tail(q), i, p)
  <1> DEFINE m == Abs!MoveForward(q, i + 1, p + 1)
             l == Abs!MoveForward(Tail(q), i, p)
             n == Len(q)
  <1>1. /\ n \in Nat /\ n # 0 /\ DOMAIN q = 1..n /\ i \in 1..n /\ p \in 1..n /\ p < n /\ i < p
        /\ (i + 1) + 1 = i + 2
    OBVIOUS
  <1>2. /\ Tail(q) \in Seq(Threads) /\ Len(Tail(q)) = n - 1 /\ DOMAIN Tail(q) = 1..(n - 1)
        /\ \A k \in 1..(n - 1) : Tail(q)[k] = q[k + 1]
    BY <1>1
  <1>3. m \in Seq(Threads) /\ Len(m) = n
    BY <1>1, MovedNext DEF MovedTo
  <1>4. m = [k \in 1..n |-> IF k = i + 1 THEN q[p + 1]
                            ELSE IF k \in (i + 2)..(p + 1) THEN q[k - 1] ELSE q[k]]
    BY <1>1 DEF Abs!MoveForward
  <1>5. l = [k \in 1..(n - 1) |-> IF k = i THEN Tail(q)[p]
                                  ELSE IF k \in (i + 1)..p THEN Tail(q)[k - 1] ELSE Tail(q)[k]]
    BY <1>2 DEF Abs!MoveForward
  <1> HIDE DEF m, l
  <1>6. Tail(m) = [k \in 1..(n - 1) |-> m[k + 1]]
    <2> DEFINE s == Tail(m)
    <2>1. s \in Seq(Threads) /\ Len(s) = n - 1 /\ \A k \in 1..(n - 1) : s[k] = m[k + 1]
      BY <1>1, <1>3
    <2> HIDE DEF s
    <2>2. s = [k \in 1..Len(s) |-> s[k]]
      BY <2>1
    <2>3. s = [k \in 1..(n - 1) |-> m[k + 1]]
      BY <2>1, <2>2
    <2> QED
      BY <2>3 DEF s
  <1>7. ASSUME NEW k \in 1..(n - 1)
        PROVE  m[k + 1] = l[k]
    <2>1. k + 1 \in 1..n /\ (k + 1) - 1 = k
      BY <1>1
    <2>2. CASE k = i
      <3>1. Tail(q)[p] = q[p + 1]
        BY <1>1, <1>2
      <3> QED
        BY <1>4, <1>5, <2>1, <2>2, <3>1
    <2>3. CASE k \in (i + 1)..p
      <3>1. k + 1 \in (i + 2)..(p + 1) /\ k # i /\ k + 1 # i + 1
        BY <1>1, <2>3
      <3>2. k - 1 \in 1..(n - 1) /\ (k - 1) + 1 = k
        BY <1>1, <2>3
      <3>3. Tail(q)[k - 1] = q[k]
        BY <1>2, <3>2
      <3> QED
        BY <1>4, <1>5, <2>1, <2>3, <3>1, <3>3
    <2>4. CASE k # i /\ k \notin (i + 1)..p
      <3>1. k + 1 # i + 1 /\ k + 1 \notin (i + 2)..(p + 1)
        BY <1>1, <2>4
      <3> QED
        BY <1>2, <1>4, <1>5, <2>1, <2>4, <3>1
    <2> QED
      BY <2>2, <2>3, <2>4
  <1>8. l = [k \in 1..(n - 1) |-> l[k]]
    BY <1>5
  <1>9. Tail(m) = l
    BY <1>6, <1>7, <1>8
  <1> QED
    BY <1>9 DEF m, l

LEMMA RegroupStep ==
  ASSUME NEW q, TypeOK, TypeOK', MutualExclusion, MutualExclusion', QInv(q),
         NEW t \in Threads, Unlink(t)
  PROVE  Abs!Regroup
  <1>1. PICK j \in 1..Len(q) : \E i \in j..Len(q) : \E p \in (i + 1)..Len(q) :
           /\ q[j] = t /\ p + 1 < Len(q)
           /\ \A k \in (i + 1)..p : nid[q[k]] # nid[q[p + 1]]
           /\ QInv(Abs!MoveForward(q, i + 1, p + 1))'
    BY UnlinkStep, AqmAssumption
  <1>2. PICK i \in j..Len(q) : \E p \in (i + 1)..Len(q) :
           /\ q[j] = t /\ p + 1 < Len(q)
           /\ \A k \in (i + 1)..p : nid[q[k]] # nid[q[p + 1]]
           /\ QInv(Abs!MoveForward(q, i + 1, p + 1))'
    BY <1>1
  <1>3. PICK p \in (i + 1)..Len(q) :
           /\ q[j] = t /\ p + 1 < Len(q)
           /\ \A k \in (i + 1)..p : nid[q[k]] # nid[q[p + 1]]
           /\ QInv(Abs!MoveForward(q, i + 1, p + 1))'
    BY <1>2
  <1> DEFINE r == Abs!MoveForward(q, i + 1, p + 1)
  <1>4. /\ pc[t] = "unlink" /\ pc'[t] = "relink" /\ nid' = nid
        /\ \A u \in Threads \ {t} : pc'[u] = pc[u]
    BY DEF Unlink, Goto, TypeOK
  <1>5. Owner' = Owner
    BY <1>4, OwnerIs, OwnerNext DEF HoldPcs
  <1>6. q \in Seq(Threads) /\ Len(q) \in Nat /\ \A k \in 1..Len(q) : q[k] \in Threads
    BY DEF QInv, QueueOf
  <1>7. i \in 1..Len(q) /\ p \in 1..Len(q) /\ i < p /\ p < Len(q) /\ p + 1 \in 1..Len(q) /\ 1 \in 1..i
    BY <1>3, <1>6
  <1>8. r[1] = q[1] /\ Len(r) = Len(q)
    BY <1>6, <1>7, MovedNext DEF MovedTo
  <1>9. /\ WaitQueue = IF HeadHolds(q) THEN Tail(q) ELSE q
        /\ WaitQueue' = IF HeadHolds(r)' THEN Tail(r) ELSE r
    BY <1>3, WaitIs, WaitNext
  <1> HIDE DEF r
  <1>10. HeadHolds(r)' <=> HeadHolds(q)
    BY <1>4, <1>6, <1>7, <1>8 DEF HeadHolds, HoldPcs
  <1>11. CASE ~HeadHolds(q)
    <2>1. WaitQueue = q /\ WaitQueue' = Abs!MoveForward(q, i + 1, p + 1)
      BY <1>9, <1>10, <1>11 DEF r
    <2>2. /\ i + 1 \in 2..Len(q) /\ p + 1 \in 3..Len(q) /\ i + 1 < p + 1 /\ (p + 1) - 1 = p
      BY <1>6, <1>7
    <2> QED
      BY <1>3, <1>4, <1>5, <2>1, <2>2 DEF Abs!Regroup
  <1>12. CASE HeadHolds(q)
    <2>1. j # 1
      BY <1>3, <1>4, <1>12 DEF HeadHolds, HoldPcs
    <2>2. i \in 2..Len(q)
      BY <1>6, <2>1
    <2>3. WaitQueue' = Abs!MoveForward(Tail(q), i, p)
      BY <1>3, <1>6, <1>7, <1>9, <1>10, <1>12, <2>2, MoveBehind DEF r
    <2>4. WaitQueue = Tail(q)
      BY <1>9, <1>12
    <2>5. /\ Len(Tail(q)) = Len(q) - 1
          /\ \A k \in 1..(Len(q) - 1) : Tail(q)[k] = q[k + 1]
      BY <1>6, <1>7
    <2>6. i \in 2..(Len(q) - 1) /\ p \in 3..(Len(q) - 1) /\ i < p /\ p \in 1..(Len(q) - 1)
      BY <1>6, <1>7, <2>2
    <2>7. ASSUME NEW k \in i..(p - 1)
          PROVE  nid[Tail(q)[k]] # nid[Tail(q)[p]]
      <3>1. k \in 1..(Len(q) - 1) /\ k + 1 \in (i + 1)..p
        BY <1>6, <1>7
      <3>2. Tail(q)[k] = q[k + 1] /\ Tail(q)[p] = q[p + 1]
        BY <2>5, <2>6, <3>1
      <3> QED
        BY <1>3, <3>1, <3>2
    <2> QED
      BY <1>4, <1>5, <2>3, <2>4, <2>5, <2>6, <2>7 DEF Abs!Regroup
  <1> QED
    BY <1>11, <1>12

\* The steps that neither take nor leave the lock nor note a socket.
Quiet(t) ==
  /\ KeepsQueue(t) /\ ~FastPath(t) /\ ~SlowPath(t) /\ ~Unlock(t)
  /\ ~(Acquire(t) /\ locked = 0)

LEMMA QuietSteps ==
  ASSUME TypeOK, NEW t \in Threads, Quiet(t)
  PROVE  /\ nid' = nid
         /\ \A u \in Threads : /\ pc'[u] \in HoldPcs <=> pc[u] \in HoldPcs
                               /\ pc'[u] = "swap" => pc[u] = "swap"
  <1>1. CASE FutexWake(t)
    <2>1. /\ pc[t] \in {"sfutex", "hfutex"} /\ nid' = nid
          /\ pc'[t] = IF pc[t] = "sfutex" THEN "mark" ELSE "cs"
          /\ \A u \in Threads \ {t} : Alike(u)
      BY <1>1, WakeMoves DEF nodeVars
    <2> QED
      BY <2>1 DEF Alike, HoldPcs
  <1>2. CASE ~FutexWake(t)
    <2>1. nid' = nid
      BY <1>2 DEF Quiet, KeepsQueue, LinkPrev, Spin, Park, Sleep, FutexWait, Awake, Interrupt,
      SetPstate, HeadShuffle, DisableStealing, AwaitFree, Acquire, GetSuccessor, CasTail,
      EnableStealing, WaitSuccessor, PassLeadership, Scan, TailCheck, GetNext, Unpark, Mark,
      Relink, Insert, Ready, Appoint, StartShuffle, nodeVars
    <2>2. PICK l : Goto(t, l) /\ (l \in HoldPcs <=> pc[t] \in HoldPcs) /\ l # "swap"
      BY <1>2 DEF Quiet, KeepsQueue, LinkPrev, Spin, Park, Sleep, FutexWait, Awake, Interrupt,
      SetPstate, HeadShuffle, DisableStealing, AwaitFree, Acquire, GetSuccessor, CasTail,
      EnableStealing, WaitSuccessor, PassLeadership, Scan, TailCheck, GetNext, Unpark, Mark,
      Relink, Insert, Ready, Appoint, StartShuffle, Leave, Return, HoldPcs
    <2>3. pc'[t] = l /\ \A u \in Threads \ {t} : pc'[u] = pc[u]
      BY <2>2 DEF Goto, TypeOK
    <2> QED
      BY <2>1, <2>2, <2>3
  <1> QED
    BY <1>1, <1>2

\* A thread notes its socket before it swaps the tail.
Noted == \A t \in Threads : pc[t] = "swap" => nid[t] \in Sockets

LEMMA NextNoted ==
  ASSUME TypeOK, Noted, [Next]_vars
  PROVE  Noted'
  <1>1. CASE UNCHANGED vars
    BY <1>1 DEF Noted, vars, nodeVars
  <1>2. ASSUME NEW t \in Threads, pc'[t] # "swap",
               \A u \in Threads \ {t} : pc'[u] = pc[u] /\ nid'[u] = nid[u]
        PROVE  Noted'
    BY <1>2 DEF Noted
  <1>3. ASSUME NEW t \in Threads, SlowPath(t)
        PROVE  Noted'
    <2>1. Homes[t] \subseteq Sockets
      BY AqmAssumption
    <2>2. /\ nid'[t] \in Sockets
          /\ \A u \in Threads \ {t} : pc'[u] = pc[u] /\ nid'[u] = nid[u]
      BY <1>3, <2>1 DEF SlowPath, NodeReset, Goto, TypeOK
    <2> QED
      BY <2>2 DEF Noted
  <1>4. ASSUME NEW t \in Threads, FastPath(t) \/ Unlock(t) \/ Acquire(t) \/ SwapTail(t) \/ Unlink(t)
        PROVE  Noted'
    <2>1. /\ pc'[t] # "swap"
          /\ \A u \in Threads \ {t} : pc'[u] = pc[u] /\ nid'[u] = nid[u]
      BY <1>4 DEF FastPath, Unlock, Acquire, SwapTail, Unlink, Goto, TypeOK, nodeVars
    <2> QED
      BY <1>2, <2>1
  <1>5. ASSUME NEW t \in Threads, Notify(t) \/ CasTail(t)
        PROVE  Noted'
    <2>1. /\ pc'[t] # "swap"
          /\ \A u \in Threads \ {t} : pc'[u] = pc[u] /\ nid'[u] = nid[u]
      BY <1>5 DEF Notify, CasTail, NodeReset, Goto, TypeOK, nodeVars
    <2> QED
      BY <1>2, <2>1
  <1>6. ASSUME NEW t \in Threads, Quiet(t)
        PROVE  Noted'
    BY <1>6, QuietSteps DEF Noted
  <1> QED
    BY <1>1, <1>3, <1>4, <1>5, <1>6, NextCases DEF Quiet

LEMMA NextRefines ==
  ASSUME TypeOK, TypeOK', MutualExclusion, MutualExclusion', QueueInv, Noted, [Next]_vars
  PROVE  [Abs!Next]_(Abs!vars)
  <1>1. NULL \notin Threads
    BY AqmAssumption
  <1>2. PICK q \in Seq(Threads) : QInv(q)
    BY DEF QueueInv
  <1>3. CASE UNCHANGED vars
    <2>1. QInv(q)'
      BY <1>2, <1>3, IdleStep
    <2>2. pc' = pc /\ nid' = nid
      BY <1>3 DEF vars, nodeVars
    <2>3. \A u \in Threads : pc'[u] \in HoldPcs <=> pc[u] \in HoldPcs
      BY <2>2
    <2> QED
      BY <1>2, <2>1, <2>2, <2>3, StutterStep
  <1>4. ASSUME NEW t \in Threads, KeepsQueue(t)
        PROVE  [Abs!Next]_(Abs!vars)
    <2>1. QInv(q)'
      BY <1>1, <1>2, <1>4, KeptStep
    <2>2. CASE FastPath(t)
      <3>1. Abs!Steal
        BY <1>2, <2>1, <2>2, StealStep
      <3> QED
        BY <3>1 DEF Abs!Next
    <2>3. CASE SlowPath(t)
      <3>1. Abs!Note \/ UNCHANGED Abs!vars
        BY <1>2, <2>1, <2>3, NoteStep
      <3> QED
        BY <3>1 DEF Abs!Next
    <2>4. CASE Acquire(t) /\ locked = 0
      <3>1. Abs!Grant
        BY <1>2, <2>1, <2>4, GrantStep
      <3> QED
        BY <3>1 DEF Abs!Next
    <2>5. CASE Unlock(t)
      <3>1. Abs!Release
        BY <1>2, <2>1, <2>5, ReleaseStep
      <3> QED
        BY <3>1 DEF Abs!Next
    <2>6. CASE Quiet(t)
      <3>1. nid' = nid /\ \A u \in Threads : pc'[u] \in HoldPcs <=> pc[u] \in HoldPcs
        BY <1>4, <2>6, QuietSteps
      <3>2. UNCHANGED Abs!vars
        BY <1>2, <2>1, <3>1, StutterStep
      <3> QED
        BY <3>2
    <2> QED
      BY <1>4, <2>2, <2>3, <2>4, <2>5, <2>6 DEF Quiet
  <1>5. ASSUME NEW t \in Threads, SwapTail(t)
        PROVE  [Abs!Next]_(Abs!vars)
    <2>1. QInv(Append(q, t))'
      BY <1>1, <1>2, <1>5, SwapStep
    <2>2. nid[t] \in Sockets
      BY <1>5 DEF Noted, SwapTail
    <2>3. Abs!Enqueue
      BY <1>2, <1>5, <2>1, <2>2, EnqueueStep
    <2> QED
      BY <2>3 DEF Abs!Next
  <1>6. ASSUME NEW t \in Threads, Unlink(t)
        PROVE  [Abs!Next]_(Abs!vars)
    <2>1. Abs!Regroup
      BY <1>2, <1>6, RegroupStep
    <2> QED
      BY <2>1 DEF Abs!Next
  <1>7. ASSUME NEW t \in Threads, Notify(t) \/ (CasTail(t) /\ tail = t)
        PROVE  [Abs!Next]_(Abs!vars)
    <2>1. /\ pc[t] \in HoldPcs /\ pc'[t] \in HoldPcs \ QueuedPcs
          /\ \A u \in Threads \ {t} : pc'[u] = pc[u]
          /\ nid' = [nid EXCEPT ![t] = NULL]
      BY <1>7 DEF Notify, CasTail, NodeReset, Goto, TypeOK, HoldPcs, QueuedPcs, ParkPcs, ShufflePcs
    <2>2. Len(q) # 0 /\ q[1] = t /\ \E r : r = Tail(q) /\ QInv(r)'
      <3>1. CASE Notify(t)
        <4>1. q # << >> /\ q[1] = t /\ QInv(Tail(q))'
          BY <1>1, <1>2, <3>1, NotifyStep
        <4>2. Len(q) # 0 /\ q[1] = t
          BY <4>1
        <4>3. \E r : r = Tail(q) /\ QInv(r)'
          BY <4>1
        <4> QED
          BY <4>2, <4>3
      <3>2. CASE CasTail(t) /\ tail = t
        <4>1. Len(q) = 1 /\ q[1] = t /\ QInv(<< >>)'
          BY <1>1, <1>2, <3>2, EmptyStep
        <4>2. << >> = Tail(q)
          BY <4>1
        <4>3. Len(q) # 0 /\ q[1] = t
          BY <4>1
        <4>4. \E r : r = Tail(q) /\ QInv(r)'
          BY <4>1, <4>2
        <4> QED
          BY <4>3, <4>4
      <3> QED
        BY <1>7, <3>1, <3>2
    <2>3. Abs!Forget \/ UNCHANGED Abs!vars
      BY <1>2, <2>1, <2>2, ForgetStep
    <2> QED
      BY <2>3 DEF Abs!Next
  <1> QED
    BY <1>3, <1>4, <1>5, <1>6, <1>7, NextCases

LEMMA InitRefines == Init => Abs!Init
  <1> SUFFICES ASSUME Init
               PROVE  Abs!Init
    OBVIOUS
  <1>1. \A t \in Threads : pc[t] \notin HoldPcs
    BY DEF Init, HoldPcs
  <1>2. Owner = NULL
    BY <1>1 DEF Owner, Holders
  <1>3. TypeOK /\ QInv(<< >>)
    BY InitTypeInv, InitQueueInv DEF TypeInv
  <1>4. WaitQueue = << >>
    BY <1>3, WaitIs DEF HeadHolds
  <1> QED
    BY <1>2, <1>4 DEF Abs!Init, Init

\* The lock implements the abstract shuffled queue: whatever the interleaving of
\* enqueuing, shuffling, stealing and handing over, each step is one of ShflQueue's or
\* changes neither the owner nor the queue.
THEOREM AqmRefinementCorrect == Spec => Refinement
  <1>1. Init => Noted
    BY DEF Init, Noted
  <1>2. TypeOK /\ Noted /\ [Next]_vars => Noted'
    BY NextNoted
  <1>3. TypeOK /\ TypeOK' /\ MutualExclusion /\ MutualExclusion' /\ QueueInv /\ Noted /\ [Next]_vars
          => [Abs!Next]_(Abs!vars)
    BY NextRefines
  <1> QED
    BY InitRefines, <1>1, <1>2, <1>3, AqmMutexCorrect, QueueInvariant, PTL DEF Spec, Refinement, Abs!Spec
=============================================================================
