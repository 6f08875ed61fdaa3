---------------------------- MODULE CondVarProof ----------------------------
(***************************************************************************)
(* The condition-variable wrapper implements Monitor, for any set of       *)
(* threads.                                                                *)
(***************************************************************************)
EXTENDS CondVar, TLAPS

\* Which threads are inside cond_timedwait, by program counter: the calls of
\* lock it makes look like any other's, and only inWait tells them apart.
WaitersKnown ==
  \A t \in Threads :
    /\ pc[t] \in {"condwait", "waiting", "woken", "unwait"} => t \in inWait
    /\ t \in inWait => pc[t] \in {"condwait", "waiting", "woken", "unwait", "lock", "posix"}

IInv == TypeOK /\ LocksNested /\ WaitersKnown

LEMMA InitIInv == Init => IInv
  BY CondVarAssumption DEF Init, IInv, TypeOK, LocksNested, WaitersKnown, Pcs

LEMMA NextIInv == IInv /\ [Next]_vars => IInv'
  <1> SUFFICES ASSUME IInv, [Next]_vars
               PROVE  IInv'
    OBVIOUS
  <1> USE CondVarAssumption DEF IInv, TypeOK, LocksNested, WaitersKnown, Pcs, Goto
  <1>1. ASSUME NEW t \in Threads, CallLock(t) PROVE IInv'
    BY <1>1 DEF CallLock
  <1>2. ASSUME NEW t \in Threads, OptLock(t) PROVE IInv'
    BY <1>2 DEF OptLock
  <1>3. ASSUME NEW t \in Threads, PosixLock(t) PROVE IInv'
    BY <1>3 DEF PosixLock
  <1>4. ASSUME NEW t \in Threads, TryLock(t) PROVE IInv'
    BY <1>4 DEF TryLock
  <1>5. ASSUME NEW t \in Threads, PosixTryLock(t) PROVE IInv'
    BY <1>5 DEF PosixTryLock
  <1>6. ASSUME NEW t \in Threads, PosixUnlock(t) PROVE IInv'
    BY <1>6 DEF PosixUnlock
  <1>7. ASSUME NEW t \in Threads, OptUnlock(t) PROVE IInv'
    BY <1>7 DEF OptUnlock
  <1>8. ASSUME NEW t \in Threads, WaitOptUnlock(t) PROVE IInv'
    BY <1>8 DEF WaitOptUnlock
  <1>9. ASSUME NEW t \in Threads, RealWait(t) PROVE IInv'
    BY <1>9 DEF RealWait
  <1>10. ASSUME NEW t \in Threads, RealWake(t) PROVE IInv'
    BY <1>10 DEF RealWake
  <1>11. ASSUME NEW t \in Threads, RealReturn(t) PROVE IInv'
    BY <1>11 DEF RealReturn
  <1>12. ASSUME NEW t \in Threads, WaitPosixUnlock(t) PROVE IInv'
    BY <1>12 DEF WaitPosixUnlock
  <1>13. CASE Broadcast
    BY <1>13 DEF Broadcast
  <1>14. CASE UNCHANGED vars
    BY <1>14 DEF vars
  <1> QED
    BY <1>1, <1>2, <1>3, <1>4, <1>5, <1>6, <1>7, <1>8, <1>9, <1>10, <1>11, <1>12,
       <1>13, <1>14 DEF Next, Finish

\* The optimised lock and the real mutex are held together where the
\* application owns the mutex, whatever the wrapper's calls interleave with.
THEOREM LocksNestedCorrect == Spec => []LocksNested
  <1>1. IInv => LocksNested
    BY DEF IInv
  <1> QED
    BY InitIInv, NextIInv, <1>1, PTL DEF Spec

-----------------------------------------------------------------------------
(* The refinement *)

\* The owner of the abstract mutex, read off the program counters.
OwnerByPc ==
  /\ \A t \in Threads : pc[t] \in {"cs", "condwait"} => Owner = t
  /\ (\A t \in Threads : pc[t] \notin {"cs", "condwait"}) => Owner = NULL

LEMMA OwnerKnown == IInv => OwnerByPc
  <1>1. ASSUME IInv, NEW t \in Threads, pc[t] \in {"cs", "condwait"}
        PROVE  Owner = t
    <2>1. \A u \in Owners : u = t
      BY <1>1 DEF IInv, LocksNested, Owners
    <2>2. t \in Owners
      BY <1>1 DEF Owners
    <2> QED
      BY <2>1, <2>2 DEF Owner
  <1>2. (\A t \in Threads : pc[t] \notin {"cs", "condwait"}) => Owner = NULL
    BY DEF Owners, Owner
  <1> QED
    BY <1>1, <1>2 DEF OwnerByPc

LEMMA InitMonitor == Init => Mon!Init
  BY DEF Init, Mon!Init, Owner, Owners, InRealWait, Woken

\* Every step of the wrapper is a step of the monitor or leaves it unchanged.
LEMMA NextMonitor == IInv /\ IInv' /\ [Next]_vars => [Mon!Next]_(Mon!vars)
  <1> SUFFICES ASSUME IInv, IInv', [Next]_vars
               PROVE  [Mon!Next]_(Mon!vars)
    OBVIOUS
  <1>a. OwnerByPc /\ OwnerByPc'
    BY OwnerKnown, PTL
  <1>b. /\ posix_lock = NULL => Owner = NULL
        /\ posix_lock' = NULL => Owner' = NULL
    BY <1>a, CondVarAssumption DEF OwnerByPc, IInv, LocksNested
  <1> DEFINE Same == Owner' = Owner /\ InRealWait' = InRealWait /\ Woken' = Woken
  <1>c. Same => [Mon!Next]_(Mon!vars)
    BY DEF Mon!vars
  <1> USE CondVarAssumption DEF IInv, TypeOK, Pcs, Goto
  <1>1. ASSUME NEW t \in Threads,
               CallLock(t) \/ OptLock(t) \/ TryLock(t) \/ OptUnlock(t)
                 \/ WaitOptUnlock(t) \/ RealReturn(t) \/ WaitPosixUnlock(t)
        PROVE  Same
    <2>1. /\ \A u \in Threads : u # t => pc'[u] = pc[u]
          /\ pc[t] \in {"cs", "condwait"} <=> pc'[t] \in {"cs", "condwait"}
          /\ pc[t] # "waiting" /\ pc'[t] # "waiting"
      BY <1>1 DEF CallLock, OptLock, TryLock, OptUnlock, WaitOptUnlock, RealReturn,
                  WaitPosixUnlock
    <2>2. Owner' = Owner
      BY <2>1, <1>a DEF OwnerByPc
    <2>3. InRealWait' = InRealWait
      BY <2>1 DEF InRealWait
    <2>4. Woken' = Woken
      BY <1>1 DEF Woken, WaitersKnown, CallLock, OptLock, TryLock, OptUnlock,
                  WaitOptUnlock, RealReturn, WaitPosixUnlock
    <2> QED
      BY <2>2, <2>3, <2>4
  <1>2. ASSUME NEW t \in Threads, PosixLock(t) \/ PosixTryLock(t)
        PROVE  Mon!Lock(t) \/ Mon!Resume(t)
    <2>1. Owner = NULL /\ Owner' = t
      BY <1>2, <1>a, <1>b DEF OwnerByPc, PosixLock, PosixTryLock
    <2>2. InRealWait' = InRealWait /\ t \notin InRealWait
      BY <1>2 DEF InRealWait, PosixLock, PosixTryLock
    <2>3. Woken' = Woken \ {t}
      BY <1>2 DEF Woken, WaitersKnown, PosixLock, PosixTryLock
    <2> QED
      BY <2>1, <2>2, <2>3 DEF Mon!Lock, Mon!Resume
  <1>3. ASSUME NEW t \in Threads, PosixUnlock(t) PROVE Mon!Unlock(t)
    <2>1. Owner = t /\ Owner' = NULL
      BY <1>3, <1>a, <1>b DEF OwnerByPc, PosixUnlock
    <2>2. InRealWait' = InRealWait /\ Woken' = Woken
      BY <1>3 DEF InRealWait, Woken, WaitersKnown, PosixUnlock
    <2> QED
      BY <2>1, <2>2 DEF Mon!Unlock
  <1>4. ASSUME NEW t \in Threads, RealWait(t) PROVE Mon!Wait(t)
    <2>1. Owner = t /\ Owner' = NULL
      BY <1>4, <1>a, <1>b DEF OwnerByPc, RealWait
    <2>2. InRealWait' = InRealWait \cup {t} /\ Woken' = Woken
      BY <1>4 DEF InRealWait, Woken, RealWait
    <2> QED
      BY <2>1, <2>2 DEF Mon!Wait
  <1>5. ASSUME NEW t \in Threads, RealWake(t) PROVE Mon!Wake({t})
    <2>1. Owner' = Owner
      BY <1>5, <1>a DEF OwnerByPc, RealWake
    <2>2. t \in InRealWait /\ InRealWait' = InRealWait \ {t} /\ Woken' = Woken \cup {t}
      BY <1>5 DEF InRealWait, Woken, WaitersKnown, RealWake
    <2> QED
      BY <2>1, <2>2 DEF Mon!Wake
  <1>6. ASSUME Broadcast PROVE Mon!Wake(InRealWait)
    <2>1. Owner' = Owner
      BY <1>6, <1>a DEF OwnerByPc, Broadcast
    <2>2. InRealWait # {} /\ InRealWait' = {} /\ Woken' = Woken \cup InRealWait
      BY <1>6 DEF InRealWait, Woken, WaitersKnown, Broadcast
    <2> QED
      BY <2>1, <2>2 DEF Mon!Wake
  <1>7. ASSUME UNCHANGED vars PROVE Same
    BY <1>7 DEF vars, Owner, Owners, InRealWait, Woken
  <1> QED
    BY <1>c, <1>1, <1>2, <1>3, <1>4, <1>5, <1>6, <1>7 DEF Next, Finish, Mon!Next

\* The wrapper's cond_wait is atomic for the application: the two locks of the
\* wrapper implement the one mutex of Monitor, whatever threads use them.
THEOREM MonitorCorrect == Spec => MonitorImplemented
  <1>1. IInv /\ [Next]_vars => [Mon!Next]_(Mon!vars)
    BY NextIInv, NextMonitor
  <1> QED
    BY InitIInv, NextIInv, InitMonitor, <1>1, PTL DEF Spec, MonitorImplemented, Mon!Spec
=============================================================================
