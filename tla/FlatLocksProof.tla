---------------------------- MODULE FlatLocksProof ----------------------------
(***************************************************************************)
(* The locks with one level: each is the optimised lock that CondVar takes *)
(* it for, the queue and ticket locks are first come, first served, and a  *)
(* lock that nobody uses is free.  Every algorithm has an invariant of its *)
(* own, with one holder at most.  First come the locks on a word, on       *)
(* tickets and on an array, then the queue locks, then what follows for    *)
(* all of them.                                                            *)
(***************************************************************************)
EXTENDS FlatLocks, LockApiProof, FunctionTheorems, SequenceTheorems

-----------------------------------------------------------------------------
(* The locks on one word.                                                    *)

HeldWord == IF algo = "spinlock" THEN LOCKED ELSE Tas!TAKEN

TasInv ==
  /\ OneHolder
  /\ lk \in [spin_lock : {UNLOCKED, HeldWord}]
  /\ lk.spin_lock = UNLOCKED <=> \A t \in Threads : ~Hold(t)

LEMMA TasCalls ==
  ASSUME NEW t \in Threads
  PROVE  /\ Tas!CallLock(t) => CallLock(t)
         /\ Tas!PosixLock(t) => PosixLock(t)
         /\ Tas!PosixTryLock(t) => PosixTryLock(t)
         /\ Tas!PosixUnlock(t) => PosixUnlock(t)
         /\ Tas!CondTimedwait(t) => CondTimedwait(t)
         /\ Tas!CondSignal(t) => CondSignal(t)
         /\ Tas!CondBroadcast(t) => CondBroadcast(t)
         /\ \A p, q : Tas!Step(t, p, q) => Step(t, p, q)
         /\ \A p, q : Tas!Read(t, p, q) => Step(t, p, q) /\ lk' = lk /\ nd' = nd /\ loc' = loc
         /\ Tas!After(t) = After(t)
  <1>1. Tas!CallLock(t) => CallLock(t)
    BY DEF Tas!CallLock, CallLock, Tas!Read, Read, Tas!Step, Step, Tas!mem, mem
  <1>2. Tas!PosixLock(t) => PosixLock(t)
    BY DEF Tas!PosixLock, PosixLock, Tas!mem, mem
  <1>3. Tas!PosixTryLock(t) => PosixTryLock(t)
    BY DEF Tas!PosixTryLock, PosixTryLock, Tas!mem, mem
  <1>4. Tas!PosixUnlock(t) => PosixUnlock(t)
    BY DEF Tas!PosixUnlock, PosixUnlock, Tas!mem, mem
  <1>5. \A u : Tas!RealWake(u) <=> RealWake(u)
    BY DEF Tas!RealWake, RealWake, Tas!Read, Read, Tas!Step, Step, Tas!mem, mem
  <1>6. Tas!CondTimedwait(t) => CondTimedwait(t)
    BY <1>5, Zenon DEF Tas!CondTimedwait, CondTimedwait, Tas!CallWait, CallWait, Tas!RealWait, RealWait,
                Tas!RealReturn, RealReturn, Tas!WaitPosixUnlock, WaitPosixUnlock, Tas!mem, mem
  <1>7. Tas!CondSignal(t) => CondSignal(t)
    BY <1>5 DEF Tas!CondSignal, CondSignal
  <1>8. Tas!CondBroadcast(t) => CondBroadcast(t)
    BY DEF Tas!CondBroadcast, CondBroadcast, Tas!mem, mem
  <1>9. \A p, q : Tas!Step(t, p, q) => Step(t, p, q)
    BY DEF Tas!Step, Step
  <1>10. \A p, q : Tas!Read(t, p, q) => Step(t, p, q) /\ lk' = lk /\ nd' = nd /\ loc' = loc
    BY DEF Tas!Read, Tas!Step, Step, Tas!mem
  <1>11. Tas!After(t) = After(t)
    BY DEF Tas!After, After
  <1> QED
    BY <1>1, <1>2, <1>3, <1>4, <1>6, <1>7, <1>8, <1>9, <1>10, <1>11

LEMMA TasWrapped ==
  ASSUME ApiInv, TasInv, algo' = algo, NEW t \in Threads, Wrapped(t)
  PROVE  TasInv'
  BY WrappedKeeps DEF TasInv, HeldWord

LEMMA TasStep ==
  ASSUME ApiInv, TasInv, algo' = algo, algo \in TasAlgos, NEW t \in Threads, Calls(t)
  PROVE  TasInv' /\ (Allowed(t) \/ Wrapped(t))
  <1>0. Tas!TAKEN = 255 /\ UNLOCKED = 1 /\ LOCKED = 0 /\ Tas!UNLOCKED = 1 /\ Tas!LOCKED = 0
    BY DEF Tas!TAKEN, UNLOCKED, LOCKED, Tas!UNLOCKED, Tas!LOCKED
  <1>1. \/ Wrapped(t)
        \/ Tas!AtomicTake(t, "lock", HeldWord, "posix")
        \/ Tas!AtomicTake(t, "idle", HeldWord, "tryposix")
        \/ Tas!ReadFree(t)
        \/ algo # "spinlock" /\ Tas!TestAndSet(t)
        \/ algo # "spinlock" /\ Tas!Release(t)
        \/ algo = "spinlock" /\ Tas!CasRelease(t)
    <2>1. \/ algo = "spinlock"     /\ Tas!spinlock(t)
          \/ algo = "spinlockepfl" /\ Tas!spinlockepfl(t)
          \/ algo = "ttas"         /\ Tas!ttas(t)
          \/ algo = "ttasepfl"     /\ Tas!ttasepfl(t)
          \/ algo = "backoff"      /\ Tas!backoff(t)
      BY DEF Calls, TasAlgos
    <2>2. Tas!LOCKED = LOCKED
      BY <1>0
    <2>3. CASE algo = "spinlock" /\ Tas!spinlock(t)
      BY <2>2, <2>3, TasCalls, Zenon
      DEF Tas!spinlock, Tas!spinlock_mutex_lock, Tas!spinlock_mutex_trylock, Tas!spinlock_mutex_unlock,
          Tas!spinlock_cond_timedwait, Tas!spinlock_cond_signal, Tas!spinlock_cond_broadcast,
          Wrapped, HeldWord
    <2>4. CASE algo = "spinlockepfl" /\ Tas!spinlockepfl(t)
      BY <2>4, TasCalls
      DEF Tas!spinlockepfl, Tas!spinlockepfl_mutex_lock, Tas!spinlockepfl_mutex_trylock,
          Tas!spinlockepfl_mutex_unlock, Tas!spinlockepfl_cond_timedwait, Wrapped, HeldWord
    <2>5. CASE algo = "ttas" /\ Tas!ttas(t)
      BY <2>5, TasCalls
      DEF Tas!ttas, Tas!ttas_mutex_lock, Tas!ttas_mutex_trylock, Tas!ttas_mutex_unlock,
          Tas!ttas_cond_timedwait, Wrapped, HeldWord
    <2>6. CASE algo = "ttasepfl" /\ Tas!ttasepfl(t)
      BY <2>6, TasCalls
      DEF Tas!ttasepfl, Tas!ttasepfl_mutex_lock, Tas!ttasepfl_mutex_trylock, Tas!ttasepfl_mutex_unlock,
          Tas!ttasepfl_cond_timedwait, Wrapped, HeldWord
    <2>7. CASE algo = "backoff" /\ Tas!backoff(t)
      BY <2>7, TasCalls
      DEF Tas!backoff, Tas!backoff_mutex_lock, Tas!backoff_mutex_trylock, Tas!backoff_mutex_unlock,
          Tas!backoff_cond_timedwait, Wrapped, HeldWord
    <2> QED
      BY <2>1, <2>3, <2>4, <2>5, <2>6, <2>7
  <1>2. /\ "posix" \in HeldPcs /\ "tryposix" \in HeldPcs /\ "unlock" \in HeldPcs /\ "idle" \notin HeldPcs
        /\ "unlock" \in UnlockPcs /\ After(t) \notin HeldPcs
    BY DEF HeldPcs, UnlockPcs, After
  \* One step of a thread from p to q, with the word before and after it.
  <1>3. ASSUME NEW p, NEW q, Step(t, p, q), Legal(t, p, q), NEW v \in {UNLOCKED, HeldWord},
               lk' = [lk EXCEPT !.spin_lock = v],
               v = UNLOCKED <=> (p \in HeldPcs \/ lk.spin_lock = UNLOCKED) /\ q \notin HeldPcs,
               q \in HeldPcs => p \in HeldPcs \/ lk.spin_lock = UNLOCKED
        PROVE  TasInv' /\ Allowed(t)
    <2>1. /\ \A u \in Threads \ {t} : Hold(u)' <=> Hold(u)
          /\ (Hold(t) <=> p \in HeldPcs) /\ (Hold(t)' <=> q \in HeldPcs)
          /\ Allowed(t)
      BY <1>3, StepMoves
    <2>2. OneHolder'
      BY <1>3, <2>1, OneHolderKept DEF TasInv
    <2>3. lk' \in [spin_lock : {UNLOCKED, HeldWord}] /\ lk'.spin_lock = v
      BY <1>3 DEF TasInv
    <2>4. lk'.spin_lock = UNLOCKED <=> \A u \in Threads : ~Hold(u)'
      BY <1>3, <2>1, <2>3 DEF TasInv, OneHolder
    <2> QED
      BY <2>1, <2>2, <2>3, <2>4 DEF TasInv, HeldWord
  <1>4. HeldWord # UNLOCKED
    BY <1>0 DEF HeldWord
  <1>5. \A q \in {"posix", "tas", "lock"} : Legal(t, "lock", q) /\ Legal(t, "tas", q)
    BY LockPcs DEF Legal
  <1>6. Legal(t, "idle", "tryposix") /\ Legal(t, "unlock", After(t))
    BY <1>2 DEF Legal
  <1>7. CASE Wrapped(t)
    BY <1>7, TasWrapped
  <1>8. CASE Tas!AtomicTake(t, "lock", HeldWord, "posix")
    <2>1. lk.spin_lock = UNLOCKED /\ Step(t, "lock", "posix") /\ lk' = [lk EXCEPT !.spin_lock = HeldWord]
      BY <1>0, <1>8, TasCalls DEF Tas!AtomicTake, Tas!SetLock
    <2> QED
      BY <1>2, <1>3, <1>4, <1>5, <2>1
  <1>9. CASE Tas!AtomicTake(t, "idle", HeldWord, "tryposix")
    <2>1. lk.spin_lock = UNLOCKED /\ Step(t, "idle", "tryposix") /\ lk' = [lk EXCEPT !.spin_lock = HeldWord]
      BY <1>0, <1>9, TasCalls DEF Tas!AtomicTake, Tas!SetLock
    <2> QED
      BY <1>2, <1>3, <1>4, <1>6, <2>1
  <1>10. CASE Tas!ReadFree(t)
    <2>1. lk.spin_lock = UNLOCKED /\ Step(t, "lock", "tas") /\ lk' = [lk EXCEPT !.spin_lock = UNLOCKED]
      BY <1>0, <1>10, TasCalls DEF Tas!ReadFree, TasInv
    <2> QED
      BY <1>3, <1>5, <2>1, LockPcs
  <1>11. CASE algo # "spinlock" /\ Tas!TestAndSet(t)
    <2>1. /\ Step(t, "tas", IF lk.spin_lock = UNLOCKED THEN "posix" ELSE "lock")
          /\ lk' = [lk EXCEPT !.spin_lock = HeldWord]
      BY <1>0, <1>11, TasCalls DEF Tas!TestAndSet, Tas!SetLock, HeldWord
    <2>2. CASE lk.spin_lock = UNLOCKED
      BY <1>2, <1>3, <1>4, <1>5, <2>1, <2>2, LockPcs
    <2>3. CASE lk.spin_lock # UNLOCKED
      BY <1>2, <1>3, <1>4, <1>5, <2>1, <2>3, LockPcs
    <2> QED
      BY <2>2, <2>3
  <1>12. CASE (algo # "spinlock" /\ Tas!Release(t)) \/ (algo = "spinlock" /\ Tas!CasRelease(t))
    <2>1. Step(t, "unlock", After(t))
      BY <1>12, TasCalls DEF Tas!Release, Tas!CasRelease
    <2>2. Hold(t)
      BY <1>2, <2>1, StepMoves
    <2>3. lk.spin_lock = HeldWord
      BY <2>2 DEF TasInv
    <2>4. lk' = [lk EXCEPT !.spin_lock = UNLOCKED]
      BY <1>0, <1>12, <2>3 DEF Tas!Release, Tas!CasRelease, Tas!SetLock, HeldWord
    <2> QED
      BY <1>2, <1>3, <1>6, <2>1, <2>4
  <1> QED
    BY <1>1, <1>7, <1>8, <1>9, <1>10, <1>11, <1>12

LEMMA TasInitial ==
  ASSUME Tas!Init
  PROVE  TasInv
  <1>1. lk = [spin_lock |-> UNLOCKED] /\ pc = [t \in Threads |-> "idle"]
    BY DEF Tas!Init, Tas!spinlock_mutex_create, Tas!ApiInit, Tas!UNLOCKED, UNLOCKED
  <1>2. \A t \in Threads : ~Hold(t)
    BY <1>1 DEF Hold, HeldPcs, UnlockPcs
  <1> QED
    BY <1>1, <1>2 DEF TasInv, OneHolder

\* A step of t, to q, that moves u too, to r.
StepWith(t, q, u, r) ==
  pc' = [pc EXCEPT ![t] = q, ![u] = r] /\ UNCHANGED <<posix_lock, inWait>>

LEMMA WakeMoves ==
  ASSUME ApiInv, NEW t \in Threads, NEW u \in Threads, u # t, NEW q, NEW r,
         LockPc(pc[u]), LockPc(r), Legal(t, pc[t], q), StepWith(t, q, u, r)
  PROVE  /\ Allowed(t) /\ pc'[t] = q /\ pc'[u] = r /\ \A v \in Threads \ {t, u} : pc'[v] = pc[v]
         /\ \A v \in Threads \ {t} : Hold(v)' <=> Hold(v)
  <1>1. /\ pc'[t] = q /\ pc'[u] = r /\ (\A v \in Threads \ {t, u} : pc'[v] = pc[v]) /\ PcType'
    BY DEF ApiInv, PcType, StepWith
  <1>2. \A p : LockPc(p) => p \notin HeldPcs
    BY DEF LockPc, HeldPcs, WrapperPcs
  <1>3. UNCHANGED <<posix_lock, inWait>>
    BY DEF StepWith
  <1> QED
    BY <1>1, <1>2, <1>3 DEF Allowed, Legal, Hold

-----------------------------------------------------------------------------
(* mutexee.c                                                                 *)

MutexeeInv ==
  /\ OneHolder
  /\ lk \in [locked : {0, 1}, contended : {0, 1}]
  /\ lk.locked = 0 <=> \A t \in Threads : ~Hold(t)

LEMMA MutexeeCalls ==
  ASSUME NEW t \in Threads
  PROVE  /\ Mutexee!CallLock(t) => CallLock(t)
         /\ Mutexee!PosixLock(t) => PosixLock(t)
         /\ Mutexee!PosixTryLock(t) => PosixTryLock(t)
         /\ Mutexee!PosixUnlock(t) => PosixUnlock(t)
         /\ Mutexee!CondTimedwait(t) => CondTimedwait(t)
         /\ Mutexee!CondSignal(t) => CondSignal(t)
         /\ Mutexee!CondBroadcast(t) => CondBroadcast(t)
         /\ \A p, q : Mutexee!Step(t, p, q) => Step(t, p, q)
         /\ \A p, q : Mutexee!Read(t, p, q) => Step(t, p, q) /\ lk' = lk /\ nd' = nd /\ loc' = loc
         /\ Mutexee!After(t) = After(t)
  <1>1. Mutexee!CallLock(t) => CallLock(t)
    BY DEF Mutexee!CallLock, CallLock, Mutexee!Read, Read, Mutexee!Step, Step, Mutexee!mem, mem
  <1>2. Mutexee!PosixLock(t) => PosixLock(t)
    BY DEF Mutexee!PosixLock, PosixLock, Mutexee!mem, mem
  <1>3. Mutexee!PosixTryLock(t) => PosixTryLock(t)
    BY DEF Mutexee!PosixTryLock, PosixTryLock, Mutexee!mem, mem
  <1>4. Mutexee!PosixUnlock(t) => PosixUnlock(t)
    BY DEF Mutexee!PosixUnlock, PosixUnlock, Mutexee!mem, mem
  <1>5. \A u : Mutexee!RealWake(u) <=> RealWake(u)
    BY DEF Mutexee!RealWake, RealWake, Mutexee!Read, Read, Mutexee!Step, Step, Mutexee!mem, mem
  <1>6. Mutexee!CondTimedwait(t) => CondTimedwait(t)
    BY <1>5, Zenon DEF Mutexee!CondTimedwait, CondTimedwait, Mutexee!CallWait, CallWait, Mutexee!RealWait, RealWait,
                Mutexee!RealReturn, RealReturn, Mutexee!WaitPosixUnlock, WaitPosixUnlock, Mutexee!mem, mem
  <1>7. Mutexee!CondSignal(t) => CondSignal(t)
    BY <1>5 DEF Mutexee!CondSignal, CondSignal
  <1>8. Mutexee!CondBroadcast(t) => CondBroadcast(t)
    BY DEF Mutexee!CondBroadcast, CondBroadcast, Mutexee!mem, mem
  <1>9. \A p, q : Mutexee!Step(t, p, q) => Step(t, p, q)
    BY DEF Mutexee!Step, Step
  <1>10. \A p, q : Mutexee!Read(t, p, q) => Step(t, p, q) /\ lk' = lk /\ nd' = nd /\ loc' = loc
    BY DEF Mutexee!Read, Mutexee!Step, Step, Mutexee!mem
  <1>11. Mutexee!After(t) = After(t)
    BY DEF Mutexee!After, After
  <1> QED
    BY <1>1, <1>2, <1>3, <1>4, <1>6, <1>7, <1>8, <1>9, <1>10, <1>11

LEMMA MutexeeStep ==
  ASSUME ApiInv, MutexeeInv, algo = "mutexee", NEW t \in Threads, Calls(t)
  PROVE  MutexeeInv' /\ (Allowed(t) \/ Wrapped(t))
  <1>1. \/ Wrapped(t)
        \/ Mutexee!SwapLocked(t, "lock", "posix")
        \/ Mutexee!SwapLocked(t, "idle", "tryposix")
        \/ Mutexee!SpinOver(t)
        \/ Mutexee!SwapHeld(t)
        \/ Mutexee!FutexWait(t)
        \/ Mutexee!Interrupt(t)
        \/ Mutexee!Uncontended(t)
        \/ Mutexee!Release(t)
        \/ Mutexee!CheckTaken(t)
        \/ Mutexee!ClearContended(t)
        \/ Mutexee!FutexWake(t)
    <2>1. Mutexee!mutexee(t)
      BY DEF Calls, McsAlgos, ClhAlgos
    <2> QED
      BY <2>1, MutexeeCalls, Zenon
      DEF Mutexee!mutexee, Mutexee!mutexee_mutex_lock, Mutexee!mutexee_lock, Mutexee!mutexee_mutex_trylock,
          Mutexee!mutexee_mutex_unlock, Mutexee!mutexee_unlock, Mutexee!mutexee_cond_timedwait, Wrapped
  <1>2. /\ {"posix", "tryposix", "unlock", "release"} \subseteq HeldPcs
        /\ \A p \in {"idle", "check", "recheck", "clear", "futexwake", After(t)} : p \notin HeldPcs
        /\ {"unlock", "release"} \subseteq UnlockPcs
        /\ {"check", "recheck", "clear", "futexwake"} \subseteq ReleasedPcs
    BY DEF HeldPcs, UnlockPcs, ReleasedPcs, After
  \* One step of a thread from p to q, with the word before and after it.
  <1>3. ASSUME NEW p, NEW q, Step(t, p, q), Legal(t, p, q), lk' \in [locked : {0, 1}, contended : {0, 1}],
               lk'.locked = 0 <=> (p \in HeldPcs \/ lk.locked = 0) /\ q \notin HeldPcs,
               q \in HeldPcs => p \in HeldPcs \/ lk.locked = 0
        PROVE  MutexeeInv' /\ Allowed(t)
    <2>1. /\ \A u \in Threads \ {t} : Hold(u)' <=> Hold(u)
          /\ (Hold(t) <=> p \in HeldPcs) /\ (Hold(t)' <=> q \in HeldPcs)
          /\ Allowed(t)
      BY <1>3, StepMoves
    <2>2. OneHolder'
      BY <1>3, <2>1, OneHolderKept DEF MutexeeInv
    <2>3. lk'.locked = 0 <=> \A u \in Threads : ~Hold(u)'
      BY <1>3, <2>1 DEF MutexeeInv, OneHolder
    <2> QED
      BY <1>3, <2>1, <2>2, <2>3 DEF MutexeeInv
  <1>4. lk \in [locked : {0, 1}, contended : {0, 1}]
    BY DEF MutexeeInv
  <1>5. /\ Legal(t, "lock", "posix") /\ Legal(t, "lock", "swap") /\ Legal(t, "swap", "posix")
        /\ Legal(t, "swap", "futex") /\ Legal(t, "futex", "asleep") /\ Legal(t, "futex", "swap")
        /\ Legal(t, "asleep", "swap") /\ Legal(t, "idle", "tryposix")
        /\ Legal(t, "unlock", "release") /\ Legal(t, "unlock", After(t)) /\ Legal(t, "release", "check")
        /\ \A p, q \in {"check", "recheck", "clear", "futexwake", After(t)} :
             p # After(t) => Legal(t, p, q)
    BY <1>2, LockPcs DEF Legal
  <1>7. CASE Wrapped(t)
    BY <1>7, WrappedKeeps DEF MutexeeInv
  <1>8. CASE Mutexee!SwapLocked(t, "lock", "posix") \/ Mutexee!SwapLocked(t, "idle", "tryposix")
    <2>1. /\ lk.locked = 0 /\ (Step(t, "lock", "posix") \/ Step(t, "idle", "tryposix"))
          /\ lk' = [lk EXCEPT !.locked = 1]
      BY <1>8, MutexeeCalls DEF Mutexee!SwapLocked, Mutexee!Store
    <2>2. lk' \in [locked : {0, 1}, contended : {0, 1}] /\ lk'.locked = 1
      BY <1>4, <2>1
    <2> QED
      BY <1>2, <1>3, <1>5, <2>1, <2>2, LockPcs
  <1>9. CASE Mutexee!SpinOver(t) \/ Mutexee!Interrupt(t)
    <2>1. lk' = lk /\ (Step(t, "lock", "swap") \/ Step(t, "asleep", "swap"))
      BY <1>9, MutexeeCalls DEF Mutexee!SpinOver, Mutexee!Interrupt
    <2> QED
      BY <1>3, <1>4, <1>5, <2>1, LockPcs
  <1>10. CASE Mutexee!SwapHeld(t)
    <2>1. /\ Step(t, "swap", IF lk.locked = 0 THEN "posix" ELSE "futex")
          /\ lk' = [locked |-> 1, contended |-> 1]
      BY <1>10, MutexeeCalls DEF Mutexee!SwapHeld, Mutexee!Store, Mutexee!Held
    <2>2. lk' \in [locked : {0, 1}, contended : {0, 1}] /\ lk'.locked = 1
      BY <2>1
    <2>3. CASE lk.locked = 0
      BY <1>2, <1>3, <1>5, <2>1, <2>2, <2>3, LockPcs
    <2>4. CASE lk.locked # 0
      BY <1>2, <1>3, <1>5, <2>1, <2>2, <2>4, LockPcs
    <2> QED
      BY <2>3, <2>4
  <1>11. CASE Mutexee!FutexWait(t)
    <2>1. lk' = lk /\ (Step(t, "futex", "asleep") \/ Step(t, "futex", "swap"))
      BY <1>11, MutexeeCalls DEF Mutexee!FutexWait
    <2> QED
      BY <1>3, <1>4, <1>5, <2>1, LockPcs
  <1>12. CASE Mutexee!Uncontended(t)
    <2>1. PICK alone \in BOOLEAN :
            /\ Step(t, "unlock", IF alone THEN After(t) ELSE "release")
            /\ lk' = IF alone THEN [lk EXCEPT !.locked = 0] ELSE lk
      BY <1>12, MutexeeCalls DEF Mutexee!Uncontended, Mutexee!Store
    <2>2. Hold(t)
      BY <1>2, <2>1, StepMoves
    <2>3. lk.locked = 1
      BY <1>4, <2>2 DEF MutexeeInv
    <2>4. CASE alone
      <3>1. lk' \in [locked : {0, 1}, contended : {0, 1}] /\ lk'.locked = 0
        BY <1>4, <2>1, <2>4
      <3> QED
        BY <1>2, <1>3, <1>5, <2>1, <2>4, <3>1
    <2>5. CASE ~alone
      <3>1. lk' = lk /\ Step(t, "unlock", "release")
        BY <2>1, <2>5
      <3> QED
        BY <1>2, <1>3, <1>4, <1>5, <2>3, <3>1
    <2> QED
      BY <2>4, <2>5
  <1>13. CASE Mutexee!Release(t)
    <2>1. Step(t, "release", "check") /\ lk' = [lk EXCEPT !.locked = 0]
      BY <1>13, MutexeeCalls DEF Mutexee!Release, Mutexee!Store
    <2>2. lk' \in [locked : {0, 1}, contended : {0, 1}] /\ lk'.locked = 0
      BY <1>4, <2>1
    <2> QED
      BY <1>2, <1>3, <1>5, <2>1, <2>2
  <1>14. CASE Mutexee!CheckTaken(t)
    <2>1. lk' = lk /\ \E p \in {"check", "recheck"}, q \in {"recheck", "clear", After(t)} : Step(t, p, q)
      BY <1>14, MutexeeCalls DEF Mutexee!CheckTaken
    <2>2. PICK p \in {"check", "recheck"}, q \in {"recheck", "clear", After(t)} : Step(t, p, q)
      BY <2>1
    <2>3. Legal(t, p, q) /\ p \notin HeldPcs /\ q \notin HeldPcs
      BY <1>2 DEF Legal
    <2> QED
      BY <1>3, <1>4, <2>1, <2>2, <2>3
  <1>15. CASE Mutexee!ClearContended(t)
    <2>1. Step(t, "clear", "futexwake") /\ lk' = [lk EXCEPT !.contended = 0]
      BY <1>15, MutexeeCalls DEF Mutexee!ClearContended, Mutexee!Store
    <2>2. lk' \in [locked : {0, 1}, contended : {0, 1}] /\ lk'.locked = lk.locked
      BY <1>4, <2>1
    <2>3. Legal(t, "clear", "futexwake")
      BY <1>2 DEF Legal
    <2> QED
      BY <1>2, <1>3, <2>1, <2>2, <2>3
  <1>16. CASE Mutexee!FutexWake(t)
    <2>1. /\ pc[t] = "futexwake" /\ lk' = lk /\ UNCHANGED <<posix_lock, inWait>>
          /\ \/ \E u \in Threads : pc[u] = "asleep" /\ pc' = [pc EXCEPT ![t] = After(t), ![u] = "swap"]
             \/ pc' = [pc EXCEPT ![t] = After(t)]
      BY <1>16, MutexeeCalls DEF Mutexee!FutexWake, Mutexee!mem
    <2>2. Legal(t, "futexwake", After(t))
      BY <1>2 DEF Legal
    <2>3. CASE pc' = [pc EXCEPT ![t] = After(t)]
      <3>1. Step(t, "futexwake", After(t))
        BY <2>1, <2>3 DEF Step
      <3> QED
        BY <1>2, <1>3, <1>4, <2>1, <2>2, <3>1
    <2>4. ASSUME NEW u \in Threads, pc[u] = "asleep", pc' = [pc EXCEPT ![t] = After(t), ![u] = "swap"]
          PROVE  MutexeeInv' /\ Allowed(t)
      <3>1. Allowed(t) /\ pc'[t] = After(t) /\ \A v \in Threads \ {t} : Hold(v)' <=> Hold(v)
        <4>1. u # t /\ LockPc(pc[u]) /\ LockPc("swap") /\ Legal(t, pc[t], After(t))
          BY <2>1, <2>2, <2>4, LockPcs
        <4>2. StepWith(t, After(t), u, "swap")
          BY <2>1, <2>4 DEF StepWith
        <4> QED
          BY <2>4, <4>1, <4>2, WakeMoves
      <3>2. ~Hold(t)' /\ ~Hold(t)
        BY <1>2, <2>1, <3>1 DEF Hold
      <3> QED
        BY <2>1, <3>1, <3>2, OneHolderKept DEF MutexeeInv
    <2> QED
      BY <2>1, <2>3, <2>4
  <1> QED
    BY <1>1, <1>7, <1>8, <1>9, <1>10, <1>11, <1>12, <1>13, <1>14, <1>15, <1>16

LEMMA MutexeeInitial ==
  ASSUME Mutexee!Init
  PROVE  MutexeeInv
  <1>1. lk = [locked |-> 0, contended |-> 0] /\ pc = [t \in Threads |-> "idle"]
    BY DEF Mutexee!Init, Mutexee!mutexee_init, Mutexee!ApiInit
  <1>2. \A t \in Threads : ~Hold(t)
    BY <1>1 DEF Hold, HeldPcs, UnlockPcs
  <1> QED
    BY <1>1, <1>2 DEF MutexeeInv, OneHolder

-----------------------------------------------------------------------------
(* The threads in the order of their arrival.                                *)

Enqueued(t) == LockPc(pc[t]) /\ pc[t] # "lock"

At1(q, t) == \E i \in 1..Len(q) : q[i] = t

Distinct(q) == \A i, j \in 1..Len(q) : q[i] = q[j] => i = j

OrderInv ==
  /\ order \in Seq(Threads) /\ Distinct(order)
  /\ \A t \in Threads : At1(order, t) <=> Enqueued(t)

\* What ThreadStep does to order, and what it should find there.
Ordered(t) == order' = IF Granted(t) THEN Tail(Joined(t)) ELSE Joined(t)

InTurn(t) == Granted(t) => t = Head(Joined(t))

LEMMA SeqLength ==
  ASSUME NEW S, NEW q \in Seq(S)
  PROVE  Len(q) \in Nat /\ \A i \in 1..Len(q) : q[i] \in S
  OBVIOUS

LEMMA AppendIs ==
  ASSUME NEW S, NEW q \in Seq(S), NEW t \in S, Distinct(q), ~At1(q, t)
  PROVE  /\ Append(q, t) \in Seq(S) /\ Len(Append(q, t)) = Len(q) + 1
         /\ \A i \in 1..Len(q) : Append(q, t)[i] = q[i]
         /\ Append(q, t)[Len(q) + 1] = t
         /\ Distinct(Append(q, t))
         /\ \A u : At1(Append(q, t), u) <=> At1(q, u) \/ u = t
  <1> DEFINE r == Append(q, t)
  <1>1. /\ r \in Seq(S) /\ Len(r) = Len(q) + 1 /\ Len(q) \in Nat
        /\ \A i \in 1..Len(q) : r[i] = q[i]
        /\ r[Len(q) + 1] = t
    OBVIOUS
  <1> HIDE DEF r
  <1>2. \A i \in 1..Len(r) : i \in 1..Len(q) \/ i = Len(q) + 1
    BY <1>1
  <1>3. Distinct(r)
    BY <1>1, <1>2 DEF Distinct, At1
  <1>4. \A i \in 1..Len(q) : i \in 1..Len(r)
    BY <1>1
  <1>5. Len(q) + 1 \in 1..Len(r)
    BY <1>1
  <1>6. \A u : At1(r, u) <=> At1(q, u) \/ u = t
    BY <1>1, <1>2, <1>4, <1>5 DEF At1
  <1> QED
    BY <1>1, <1>3, <1>6 DEF r

LEMMA RestIs ==
  ASSUME NEW S, NEW q \in Seq(S), Distinct(q), Len(q) # 0
  PROVE  /\ Tail(q) \in Seq(S) /\ Len(Tail(q)) = Len(q) - 1
         /\ \A i \in 1..Len(Tail(q)) : Tail(q)[i] = q[i + 1] /\ i + 1 \in 1..Len(q)
         /\ Distinct(Tail(q))
         /\ \A u : At1(Tail(q), u) <=> At1(q, u) /\ u # q[1]
  <1> DEFINE r == Tail(q)
  <1>0. q # <<>> /\ Len(q) \in Nat \ {0}
    OBVIOUS
  <1>1. /\ r \in Seq(S) /\ Len(r) = Len(q) - 1
        /\ \A i \in 1..Len(r) : r[i] = q[i + 1] /\ i + 1 \in 1..Len(q)
    BY <1>0
  <1> HIDE DEF r
  <1>2. Distinct(r)
    <2> SUFFICES ASSUME NEW i \in 1..Len(r), NEW j \in 1..Len(r), r[i] = r[j]
                 PROVE  i = j
      BY DEF Distinct
    <2>1. q[i + 1] = q[j + 1] /\ i + 1 \in 1..Len(q) /\ j + 1 \in 1..Len(q)
      BY <1>1
    <2>2. i + 1 = j + 1
      BY <2>1 DEF Distinct
    <2> QED
      BY <2>2
  <1>3. ASSUME NEW u, At1(r, u)
        PROVE  At1(q, u) /\ u # q[1]
    <2>1. PICK i \in 1..Len(r) : r[i] = u
      BY <1>3 DEF At1
    <2>2. q[i + 1] = u /\ i + 1 \in 1..Len(q) /\ i + 1 # 1 /\ 1 \in 1..Len(q)
      BY <1>0, <1>1, <2>1
    <2> QED
      BY <2>2 DEF At1, Distinct
  <1>4. ASSUME NEW u, At1(q, u), u # q[1]
        PROVE  At1(r, u)
    <2>1. PICK i \in 1..Len(q) : q[i] = u
      BY <1>4 DEF At1
    <2>2. i # 1 /\ i - 1 \in 1..Len(r)
      BY <1>0, <1>1, <1>4, <2>1
    <2>3. r[i - 1] = u
      BY <1>1, <2>1, <2>2
    <2> QED
      BY <2>2, <2>3 DEF At1
  <1> QED
    BY <1>1, <1>2, <1>3, <1>4 DEF r

\* A thread arrives and waits, ...
LEMMA OrderJoin ==
  ASSUME OrderInv, algo \in FifoAlgos, NEW t \in Threads, Ordered(t), pc[t] = "lock", Enqueued(t)',
         \A u \in Threads \ {t} : Enqueued(u)' <=> Enqueued(u)
  PROVE  /\ order' = Append(order, t) /\ Len(order') = Len(order) + 1
         /\ \A i \in 1..Len(order) : order'[i] = order[i]
         /\ order'[Len(order) + 1] = t
         /\ OrderInv' /\ InTurn(t)
  <1>1. pc'[t] # "lock" /\ pc'[t] # "posix"
    BY DEF Enqueued, LockPc, WrapperPcs
  <1>2. order' = Append(order, t)
    BY <1>1 DEF Ordered, Joined, Joins, Granted
  <1>3. ~At1(order, t)
    BY DEF OrderInv, Enqueued
  <1>4. OrderInv'
    BY <1>2, <1>3, AppendIs DEF OrderInv
  <1> QED
    BY <1>1, <1>2, <1>3, <1>4, AppendIs DEF OrderInv, InTurn, Granted

\* ... or has the lock at once, when nobody waits, ...
LEMMA OrderThrough ==
  ASSUME OrderInv, algo \in FifoAlgos, NEW t \in Threads, Ordered(t), pc[t] = "lock", pc'[t] = "posix",
         Len(order) = 0, \A u \in Threads \ {t} : Enqueued(u)' <=> Enqueued(u)
  PROVE  order' = order /\ OrderInv' /\ InTurn(t)
  <1>1. order = <<>> /\ Joined(t) = <<t>>
    BY DEF OrderInv, Joined, Joins
  <1>2. order' = <<>>
    BY <1>1 DEF Ordered, Granted
  <1>3. ~Enqueued(t) /\ ~Enqueued(t)'
    BY DEF Enqueued, LockPc, WrapperPcs
  <1>4. OrderInv'
    BY <1>1, <1>2, <1>3 DEF OrderInv, Distinct, At1
  <1> QED
    BY <1>1, <1>2, <1>4 DEF InTurn

\* ... or as the front of those who wait.
LEMMA OrderGrant ==
  ASSUME OrderInv, algo \in FifoAlgos, NEW t \in Threads, Ordered(t), Enqueued(t), pc'[t] = "posix",
         Len(order) # 0 => t = order[1], \A u \in Threads \ {t} : Enqueued(u)' <=> Enqueued(u)
  PROVE  /\ Len(order) \in Nat \ {0} /\ t = order[1]
         /\ order' = Tail(order) /\ Len(order') = Len(order) - 1
         /\ \A i \in 1..Len(order') : order'[i] = order[i + 1] /\ i + 1 \in 1..Len(order)
         /\ OrderInv' /\ InTurn(t)
  <1>1. At1(order, t)
    BY DEF OrderInv
  <1>2. Len(order) \in Nat \ {0} /\ t = order[1]
    BY <1>1 DEF OrderInv, At1
  <1>3. pc[t] # "lock" /\ pc[t] # "posix"
    BY DEF Enqueued, LockPc, WrapperPcs
  <1>4. Joined(t) = order /\ order' = Tail(order)
    BY <1>3 DEF Ordered, Joined, Joins, Granted
  <1>5. ~Enqueued(t)'
    BY DEF Enqueued, LockPc, WrapperPcs
  <1>6. OrderInv'
    BY <1>2, <1>4, <1>5, RestIs DEF OrderInv
  <1>7. Head(order) = t
    BY <1>2 DEF OrderInv
  <1> QED
    BY <1>2, <1>4, <1>6, <1>7, RestIs DEF OrderInv, InTurn

\* Nobody arrives or is granted the lock.
LEMMA OrderStays ==
  ASSUME OrderInv, NEW t \in Threads, Ordered(t), pc[t] = "lock" => pc'[t] = "lock",
         pc'[t] # "posix" \/ pc[t] = "posix", \A u \in Threads : Enqueued(u)' <=> Enqueued(u)
  PROVE  order' = order /\ OrderInv' /\ InTurn(t)
  <1>1. order' = order /\ ~Granted(t)
    BY DEF Ordered, Joined, Joins, Granted
  <1> QED
    BY <1>1 DEF OrderInv, InTurn

LEMMA OrderWrapped ==
  ASSUME OrderInv, ApiInv, OneHolder, NEW t \in Threads, Ordered(t), Wrapped(t)
  PROVE  order' = order /\ OrderInv' /\ InTurn(t)
  <1>1. \A u \in Threads : Around(u)
    BY WrappedStep
  <1>2. \A u \in Threads : Enqueued(u)' <=> Enqueued(u)
    <2>1. \A p \in {"posix", "tryposix", "cs", "unlock", "lock"} \cup RestPcs : ~(LockPc(p) /\ p # "lock")
      BY DEF LockPc, WrapperPcs, UnlockPcs, RestPcs
    <2> QED
      BY <1>1, <2>1 DEF Around, Enqueued, RestPcs
  <1>3. pc'[t] # "posix" \/ pc[t] = "posix"
    BY <1>1 DEF Around, RestPcs
  <1>4. pc[t] = "lock" => pc'[t] = "lock"
    BY <1>1 DEF Around, RestPcs
  <1> QED
    BY <1>2, <1>3, <1>4, OrderStays

LEMMA UpTo ==
  ASSUME NEW n \in Nat
  PROVE  IsFiniteSet(1..n) /\ Cardinality(1..n) = n
  <1>1. 1 \in Int /\ n \in Int
    OBVIOUS
  <1>2. IsFiniteSet(1..n)
    BY <1>1, FS_Interval, Zenon
  <1>3. Cardinality(1..n) = IF 1 > n THEN 0 ELSE n - 1 + 1
    BY <1>1, FS_Interval, Zenon
  <1> QED
    BY <1>2, <1>3

\* The threads that wait are no more than the threads, and one less if somebody
\* does not.
LEMMA OrderLength ==
  ASSUME OrderInv
  PROVE  /\ Cardinality(Threads) \in Nat /\ Len(order) \in Nat
         /\ Len(order) <= Cardinality(Threads)
         /\ (\E t \in Threads : ~Enqueued(t)) => Len(order) + 1 <= Cardinality(Threads)
  <1>0. IsFiniteSet(Threads) /\ Cardinality(Threads) \in Nat /\ Len(order) \in Nat
    BY FlatLocksAssumption, FS_CardinalityType DEF OrderInv
  <1> DEFINE D == 1..Len(order)
             T == {u \in Threads : Enqueued(u)}
             f == [i \in D |-> order[i]]
  <1>1. IsFiniteSet(T) /\ Cardinality(T) \in Nat /\ Cardinality(T) <= Cardinality(Threads)
    BY <1>0, FS_Subset, FS_CardinalityType
  <1>2. \A i \in D : order[i] \in T
    BY <1>0 DEF OrderInv, At1
  <1>3. f \in Injection(D, T)
    <2>1. f \in [D -> T]
      BY <1>2
    <2>2. \A a, b \in D : f[a] = f[b] => a = b
      BY DEF OrderInv, Distinct
    <2> QED
      BY <2>1, <2>2, Fun_IsInj
  <1>4. IsFiniteSet(D) /\ Cardinality(D) = Len(order)
    BY <1>0, UpTo
  <1> HIDE DEF f, D
  <1>5. Len(order) <= Cardinality(T)
    BY <1>1, <1>3, <1>4, FS_Injection
  <1>6. ASSUME NEW t \in Threads, ~Enqueued(t)
        PROVE  Cardinality(T) + 1 <= Cardinality(Threads)
    <2>1. T \subseteq Threads \ {t}
      BY <1>6
    <2>2. IsFiniteSet(Threads \ {t}) /\ Cardinality(Threads \ {t}) = Cardinality(Threads) - 1
      BY <1>0, FS_RemoveElement
    <2>3. Cardinality(T) <= Cardinality(Threads \ {t})
      BY <2>1, <2>2, FS_Subset
    <2> QED
      BY <1>0, <1>1, <2>2, <2>3
  <1>7. (\E t \in Threads : ~Enqueued(t)) => Len(order) + 1 <= Cardinality(Threads)
    BY <1>0, <1>1, <1>5, <1>6
  <1> QED
    BY <1>0, <1>1, <1>5, <1>7

LEMMA OrderLength2 ==
  ASSUME OrderInv, NEW t \in Threads, NEW h \in Threads, t # h, ~Enqueued(t), ~Enqueued(h)
  PROVE  Len(order) + 2 <= Cardinality(Threads)
  <1>0. IsFiniteSet(Threads) /\ Cardinality(Threads) \in Nat /\ Len(order) \in Nat
    BY FlatLocksAssumption, FS_CardinalityType DEF OrderInv
  <1> DEFINE D == 1..Len(order)
             T == Threads \ {t, h}
             f == [i \in D |-> order[i]]
  <1>1. IsFiniteSet(T) /\ Cardinality(T) = Cardinality(Threads) - 2
    <2>1. IsFiniteSet(Threads \ {t}) /\ Cardinality(Threads \ {t}) = Cardinality(Threads) - 1
      BY <1>0, FS_RemoveElement
    <2>2. h \in Threads \ {t}
      OBVIOUS
    <2>3. /\ IsFiniteSet((Threads \ {t}) \ {h})
          /\ Cardinality((Threads \ {t}) \ {h}) = Cardinality(Threads \ {t}) - 1
      BY <2>1, <2>2, FS_RemoveElement
    <2>4. T = (Threads \ {t}) \ {h}
      OBVIOUS
    <2>5. IsFiniteSet(T) /\ Cardinality(T) = Cardinality(Threads \ {t}) - 1
      BY <2>3, <2>4, Zenon
    <2> HIDE DEF T
    <2>6. Cardinality(Threads \ {t}) - 1 = Cardinality(Threads) - 2
      BY <1>0, <2>1
    <2> QED
      BY <2>5, <2>6
  <1>2. \A i \in D : order[i] \in T
    BY <1>0 DEF OrderInv, At1
  <1>3. f \in Injection(D, T)
    <2>1. f \in [D -> T]
      BY <1>2
    <2>2. \A a, b \in D : f[a] = f[b] => a = b
      BY DEF OrderInv, Distinct
    <2> QED
      BY <2>1, <2>2, Fun_IsInj
  <1>4. IsFiniteSet(D) /\ Cardinality(D) = Len(order)
    BY <1>0, UpTo
  <1> HIDE DEF f, D, T
  <1>5. Cardinality(D) <= Cardinality(T)
    BY <1>1, <1>3, <1>4, FS_Injection
  <1> QED
    BY <1>0, <1>1, <1>4, <1>5

-----------------------------------------------------------------------------
(* The ticket locks.  The tickets between grant and the next one are those   *)
(* of the holder and of the threads that wait, in their order.               *)

Held == IF \E t \in Threads : Hold(t) THEN 1 ELSE 0

LEMMA HeldIs ==
  /\ Held \in {0, 1}
  /\ Held = 0 <=> \A t \in Threads : ~Hold(t)
  BY DEF Held

LEMMA HeldNext ==
  ASSUME NEW t \in Threads, \A u \in Threads \ {t} : Hold(u)' <=> Hold(u), OneHolder
  PROVE  /\ Hold(t)' <=> Hold(t) => Held' = Held
         /\ Hold(t)' => Held' = 1
         /\ Hold(t) /\ ~Hold(t)' => Held = 1 /\ Held' = 0
  BY DEF Held, OneHolder

NextTicket == IF algo = "ticket" THEN lk.request ELSE Ticket!Plus1(lk.request)

TicketInv ==
  /\ OneHolder /\ OrderInv
  /\ loc = [t \in Threads |-> loc[t]]
  /\ lk \in [request : 0..TicketMod - 1, grant : 0..TicketMod - 1]
  /\ NextTicket = (lk.grant + Held + Len(order)) % TicketMod
  /\ \A i \in 1..Len(order) : loc[order[i]] = (lk.grant + Held + i - 1) % TicketMod

\* There are more tickets than threads.
LEMMA TicketRoom ==
  ASSUME OrderInv
  PROVE  /\ TicketMod \in Nat \ {0} /\ Len(order) \in Nat /\ Held + Len(order) < TicketMod
         /\ (\E t \in Threads : ~Enqueued(t) /\ ~Hold(t)) /\ OneHolder => Held + Len(order) + 1 < TicketMod + 1
  <1>1. /\ Cardinality(Threads) \in Nat /\ Len(order) \in Nat /\ Len(order) <= Cardinality(Threads)
        /\ (\E t \in Threads : ~Enqueued(t)) => Len(order) + 1 <= Cardinality(Threads)
    BY OrderLength
  <1>2. TicketMod \in Nat /\ Cardinality(Threads) < TicketMod
    BY FlatLocksAssumption
  <1>3. \A t \in Threads : Hold(t) => ~Enqueued(t)
    BY DEF Hold, Enqueued, HeldPcs, LockPc, WrapperPcs
  <1> QED
    BY <1>1, <1>2, <1>3, HeldIs DEF Held

LEMMA TicketCalls ==
  ASSUME NEW t \in Threads
  PROVE  /\ Ticket!CallLock(t) => CallLock(t)
         /\ Ticket!PosixLock(t) => PosixLock(t)
         /\ Ticket!PosixTryLock(t) => PosixTryLock(t)
         /\ Ticket!PosixUnlock(t) => PosixUnlock(t)
         /\ Ticket!CondTimedwait(t) => CondTimedwait(t)
         /\ Ticket!CondSignal(t) => CondSignal(t)
         /\ Ticket!CondBroadcast(t) => CondBroadcast(t)
         /\ \A p, q : Ticket!Step(t, p, q) => Step(t, p, q)
         /\ \A p, q : Ticket!Read(t, p, q) => Step(t, p, q) /\ lk' = lk /\ nd' = nd /\ loc' = loc
         /\ Ticket!After(t) = After(t)
  <1>1. Ticket!CallLock(t) => CallLock(t)
    BY DEF Ticket!CallLock, CallLock, Ticket!Read, Read, Ticket!Step, Step, Ticket!mem, mem
  <1>2. Ticket!PosixLock(t) => PosixLock(t)
    BY DEF Ticket!PosixLock, PosixLock, Ticket!mem, mem
  <1>3. Ticket!PosixTryLock(t) => PosixTryLock(t)
    BY DEF Ticket!PosixTryLock, PosixTryLock, Ticket!mem, mem
  <1>4. Ticket!PosixUnlock(t) => PosixUnlock(t)
    BY DEF Ticket!PosixUnlock, PosixUnlock, Ticket!mem, mem
  <1>5. \A u : Ticket!RealWake(u) <=> RealWake(u)
    BY DEF Ticket!RealWake, RealWake, Ticket!Read, Read, Ticket!Step, Step, Ticket!mem, mem
  <1>6. Ticket!CondTimedwait(t) => CondTimedwait(t)
    BY <1>5, Zenon DEF Ticket!CondTimedwait, CondTimedwait, Ticket!CallWait, CallWait, Ticket!RealWait, RealWait,
                Ticket!RealReturn, RealReturn, Ticket!WaitPosixUnlock, WaitPosixUnlock, Ticket!mem, mem
  <1>7. Ticket!CondSignal(t) => CondSignal(t)
    BY <1>5 DEF Ticket!CondSignal, CondSignal
  <1>8. Ticket!CondBroadcast(t) => CondBroadcast(t)
    BY DEF Ticket!CondBroadcast, CondBroadcast, Ticket!mem, mem
  <1>9. \A p, q : Ticket!Step(t, p, q) => Step(t, p, q)
    BY DEF Ticket!Step, Step
  <1>10. \A p, q : Ticket!Read(t, p, q) => Step(t, p, q) /\ lk' = lk /\ nd' = nd /\ loc' = loc
    BY DEF Ticket!Read, Ticket!Step, Step, Ticket!mem
  <1>11. Ticket!After(t) = After(t)
    BY DEF Ticket!After, After
  <1> QED
    BY <1>1, <1>2, <1>3, <1>4, <1>6, <1>7, <1>8, <1>9, <1>10, <1>11

LEMMA NextTicketIs ==
  ASSUME algo' = algo, TicketMod \in Nat \ {0}, lk \in [request : 0..TicketMod - 1, grant : 0..TicketMod - 1]
  PROVE  /\ NextTicket \in 0..TicketMod - 1
         /\ lk' = [lk EXCEPT !.request = Ticket!Plus1(lk.request)]
              => NextTicket' = (NextTicket + 1) % TicketMod
         /\ lk'.request = lk.request => NextTicket' = NextTicket
  <1>1. \A x \in 0..TicketMod - 1 : Ticket!Plus1(x) \in 0..TicketMod - 1 /\ Ticket!Plus1(x) = (x + 1) % TicketMod
    BY DEF Ticket!Plus1
  <1> QED
    BY <1>1 DEF NextTicket

LEMMA TicketStep ==
  ASSUME ApiInv, TicketInv, algo \in {"ticket", "ticketepfl"}, algo' = algo,
         NEW t \in Threads, Calls(t), Ordered(t)
  PROVE  TicketInv' /\ InTurn(t) /\ (Allowed(t) \/ Wrapped(t))
  <1> DEFINE M == TicketMod  g == lk.grant  n == Len(order)
  <1>0. algo \in FifoAlgos
    BY DEF FifoAlgos
  <1>1. /\ M \in Nat \ {0} /\ n \in Nat /\ Held + n < M /\ Held \in {0, 1} /\ g \in 0..M - 1
        /\ lk.request \in 0..M - 1
        /\ NextTicket = (g + (Held + n)) % M
        /\ \A i \in 1..n : loc[order[i]] = (g + (Held + i - 1)) % M
    BY TicketRoom, HeldIs DEF TicketInv
  <1>2. \/ Wrapped(t)
        \/ Ticket!TakeTicket(t, NextTicket)
        \/ Ticket!AwaitGrant(t)
        \/ Ticket!TryRead(t)
        \/ Ticket!TryCas(t, IF algo = "ticket" THEN loc[t] ELSE Ticket!Plus1(loc[t]))
        \/ Ticket!Grant(t)
    <2>1. \/ algo = "ticket" /\ Ticket!ticket(t)
          \/ algo = "ticketepfl" /\ Ticket!ticketepfl(t)
      BY DEF Calls
    <2>2. CASE algo = "ticket" /\ Ticket!ticket(t)
      BY <2>2, TicketCalls
      DEF Ticket!ticket, Ticket!ticket_mutex_lock, Ticket!ticket_mutex_trylock, Ticket!ticket_mutex_unlock,
          Ticket!ticket_cond_timedwait, Wrapped, NextTicket
    <2>3. CASE algo = "ticketepfl" /\ Ticket!ticketepfl(t)
      BY <2>3, TicketCalls
      DEF Ticket!ticketepfl, Ticket!ticketepfl_mutex_lock, Ticket!ticketepfl_mutex_trylock,
          Ticket!ticketepfl_mutex_unlock, Ticket!ticketepfl_cond_timedwait, Wrapped, NextTicket
    <2> QED
      BY <2>1, <2>2, <2>3
  <1>3. /\ {"posix", "tryposix", "unlock"} \subseteq HeldPcs /\ "unlock" \in UnlockPcs
        /\ \A p \in {"idle", "try", "lock", "spin", After(t)} : p \notin HeldPcs
        /\ {"lock", "spin"} \cap TryPcs = {} /\ "try" \in TryPcs
    BY LockPcs DEF HeldPcs, UnlockPcs, TryPcs, After
  <1>4. /\ Legal(t, "lock", "spin") /\ Legal(t, "spin", "posix") /\ Legal(t, "idle", "try")
        /\ Legal(t, "try", "tryposix") /\ Legal(t, "try", "idle") /\ Legal(t, "unlock", After(t))
    BY <1>3, LockPcs DEF Legal
  <1>5. \A p : p \in TryPcs \cup {"idle", "tryposix", "lock"} \cup UnlockPcs \cup RestPcs => ~(LockPc(p) /\ p # "lock")
    BY DEF LockPc, WrapperPcs, RestPcs
  <1>6. ASSUME NEW p, NEW q, Step(t, p, q), Legal(t, p, q)
        PROVE  /\ pc[t] = p /\ pc'[t] = q /\ \A u \in Threads \ {t} : pc'[u] = pc[u]
               /\ \A u \in Threads \ {t} : Enqueued(u)' <=> Enqueued(u)
               /\ Allowed(t)
               /\ (Hold(t) <=> p \in HeldPcs) /\ (Hold(t)' <=> q \in HeldPcs)
               /\ q \notin HeldPcs \/ p \in HeldPcs \/ Held = 0 => OneHolder'
               /\ ((p \in HeldPcs <=> q \in HeldPcs) => Held' = Held)
               /\ q \in HeldPcs => Held' = 1
               /\ p \in HeldPcs /\ q \notin HeldPcs => Held = 1 /\ Held' = 0
    <2>1. /\ pc[t] = p /\ pc'[t] = q /\ \A u \in Threads \ {t} : pc'[u] = pc[u]
          /\ \A u \in Threads \ {t} : Hold(u)' <=> Hold(u)
          /\ (Hold(t) <=> p \in HeldPcs) /\ (Hold(t)' <=> q \in HeldPcs)
          /\ Allowed(t)
      BY <1>6, StepMoves
    <2>2. q \notin HeldPcs \/ p \in HeldPcs \/ Held = 0 => OneHolder'
      BY <2>1, OneHolderKept, HeldIs DEF TicketInv
    <2>3. OneHolder
      BY DEF TicketInv
    <2> QED
      BY <2>1, <2>2, <2>3, HeldNext DEF Enqueued
  <1>7. CASE Wrapped(t)
    <2>1. /\ lk' = lk /\ loc' = loc /\ OneHolder' /\ \A u \in Threads : Hold(u)' <=> Hold(u)
      BY <1>7, WrappedKeeps DEF TicketInv
    <2>2. order' = order /\ OrderInv' /\ InTurn(t)
      BY <1>7, OrderWrapped DEF TicketInv
    <2>3. Held' = Held
      BY <2>1 DEF Held
    <2> QED
      BY <1>7, <2>1, <2>2, <2>3 DEF TicketInv, NextTicket
  <1>8. CASE Ticket!TakeTicket(t, NextTicket)
    <2>1. /\ Step(t, "lock", "spin") /\ lk' = [lk EXCEPT !.request = Ticket!Plus1(lk.request)]
          /\ loc' = [loc EXCEPT ![t] = NextTicket]
      BY <1>8, TicketCalls DEF Ticket!TakeTicket
    <2>2. /\ pc[t] = "lock" /\ pc'[t] = "spin" /\ \A u \in Threads \ {t} : Enqueued(u)' <=> Enqueued(u)
          /\ Allowed(t) /\ OneHolder' /\ Held' = Held
      BY <1>3, <1>4, <1>6, <2>1
    <2>3. Enqueued(t)'
      BY <2>2, LockPcs DEF Enqueued
    <2>4. /\ Len(order') = n + 1 /\ OrderInv' /\ InTurn(t) /\ order'[n + 1] = t
          /\ \A i \in 1..n : order'[i] = order[i]
      BY <1>0, <2>2, <2>3, OrderJoin DEF TicketInv
    <2>5. OrderInv /\ ~Enqueued(t)
      BY <2>2 DEF TicketInv, Enqueued
    <2>6. NextTicket' = (NextTicket + 1) % M
      BY <1>1, <2>1, NextTicketIs DEF TicketInv
    <2>7. NextTicket' = (lk'.grant + Held' + Len(order')) % M
      <3>1. lk'.grant = g
        BY <2>1 DEF TicketInv
      <3>6. (NextTicket + 1) % M = (g + ((Held + n) + 1)) % M
        <4>1. Held + n \in 0..M - 1
          BY <1>1
        <4> QED
          BY <1>1, <4>1, ModNext
      <3>7. g + ((Held + n) + 1) = lk'.grant + Held' + Len(order')
        <4>1. Held' = Held /\ Len(order') = n + 1
          BY <2>2, <2>4
        <4>2. g \in Int /\ Held \in Int /\ n \in Int
          BY <1>1, HeldIs
        <4> QED
          BY <3>1, <4>1, <4>2
      <3> QED
        BY <2>6, <3>6, <3>7
    <2>8. lk' \in [request : 0..M - 1, grant : 0..M - 1] /\ lk'.grant = g
      <3>1. Ticket!Plus1(lk.request) \in 0..M - 1
        BY <1>1 DEF Ticket!Plus1
      <3> QED
        BY <2>1, <3>1 DEF TicketInv
    <2>9. ASSUME NEW i \in 1..Len(order')
          PROVE  loc'[order'[i]] = (lk'.grant + Held' + i - 1) % M
      <3>1. loc'[t] = NextTicket /\ \A u \in Threads \ {t} : loc'[u] = loc[u]
        BY <2>1 DEF TicketInv
      <3>2. CASE i \in 1..n
        <4>1. order[i] \in Threads \ {t}
          BY <2>5, <3>2 DEF OrderInv, At1
        <4>2. g + (Held + i - 1) = lk'.grant + Held' + i - 1
          BY <1>1, <2>2, <2>8
        <4> QED
          BY <1>1, <2>4, <3>1, <3>2, <4>1, <4>2
      <3>3. CASE i = n + 1
        <4>1. g + (Held + n) = lk'.grant + Held' + i - 1
          BY <1>1, <2>2, <2>8, <3>3
        <4> QED
          BY <1>1, <2>4, <3>1, <3>3, <4>1
      <3> QED
        BY <1>1, <2>4, <3>2, <3>3
    <2>10. loc' = [u \in Threads |-> loc'[u]]
      BY <2>1 DEF TicketInv
    <2> QED
      BY <2>2, <2>4, <2>7, <2>8, <2>9, <2>10 DEF TicketInv
  <1>9. CASE Ticket!AwaitGrant(t)
    <2>1. /\ Step(t, "spin", "posix") /\ lk' = lk /\ loc' = [loc EXCEPT ![t] = NULL] /\ g = loc[t]
      BY <1>9, TicketCalls DEF Ticket!AwaitGrant
    <2>2. /\ pc[t] = "spin" /\ pc'[t] = "posix" /\ \A u \in Threads \ {t} : Enqueued(u)' <=> Enqueued(u)
          /\ Allowed(t) /\ Held' = 1 /\ (Held = 0 => OneHolder')
      BY <1>3, <1>4, <1>6, <2>1
    <2>3. Enqueued(t)
      BY <2>2, LockPcs DEF Enqueued
    <2>4. PICK i \in 1..n : order[i] = t
      BY <2>3 DEF TicketInv, OrderInv, At1
    <2>5. Held = 0 /\ i = 1
      <3>1. (g + (Held + i - 1)) % M = g
        BY <1>1, <2>1, <2>4
      <3>2. Held + i - 1 \in 0..M - 1
        BY <1>1
      <3>4. Held + i - 1 = 0
        BY <1>1, <3>1, <3>2, ModSame
      <3> QED
        BY <1>1, <3>4
    <2>6. /\ n \in Nat \ {0} /\ Len(order') = n - 1 /\ OrderInv' /\ InTurn(t)
          /\ \A j \in 1..Len(order') : order'[j] = order[j + 1] /\ j + 1 \in 1..n
      BY <1>0, <2>2, <2>3, <2>4, <2>5, OrderGrant DEF TicketInv
    <2>7. NextTicket' = (lk'.grant + Held' + Len(order')) % M
      <3>1. NextTicket' = NextTicket
        BY <2>1 DEF NextTicket
      <3>2. g + (Held + n) = lk'.grant + Held' + Len(order')
        BY <1>1, <2>1, <2>2, <2>5, <2>6
      <3> QED
        BY <1>1, <3>1, <3>2
    <2>8. ASSUME NEW j \in 1..Len(order')
          PROVE  loc'[order'[j]] = (lk'.grant + Held' + j - 1) % M
      <3>1. order'[j] = order[j + 1] /\ j + 1 \in 1..n /\ j + 1 # 1
        BY <2>6
      <3>2. order[j + 1] \in Threads \ {t}
        <4>1. 1 \in 1..n /\ order[1] = t
          BY <2>4, <2>5
        <4>2. order[j + 1] # order[1]
          BY <3>1, <4>1 DEF TicketInv, OrderInv, Distinct
        <4>3. order \in Seq(Threads)
          BY DEF TicketInv, OrderInv
        <4> QED
          BY <3>1, <4>1, <4>2, <4>3, SeqLength
      <3>3. loc'[order[j + 1]] = loc[order[j + 1]]
        BY <2>1, <3>2 DEF TicketInv
      <3>4. g + (Held + (j + 1) - 1) = lk'.grant + Held' + j - 1
        BY <1>1, <2>1, <2>2, <2>5
      <3> QED
        BY <1>1, <3>1, <3>3, <3>4
    <2>9. loc' = [u \in Threads |-> loc'[u]]
      BY <2>1 DEF TicketInv
    <2> QED
      BY <2>1, <2>2, <2>5, <2>6, <2>7, <2>8, <2>9 DEF TicketInv
  \* Steps that leave the queue alone.
  <1>10. ASSUME NEW p, NEW q, Step(t, p, q), Legal(t, p, q), p # "lock", q # "posix",
                ~(LockPc(p) /\ p # "lock"), ~(LockPc(q) /\ q # "lock")
         PROVE  /\ order' = order /\ OrderInv' /\ InTurn(t)
                /\ \A i \in 1..n : order[i] \in Threads \ {t}
    <2>1. /\ pc[t] = p /\ pc'[t] = q /\ \A u \in Threads \ {t} : Enqueued(u)' <=> Enqueued(u)
      BY <1>6, <1>10
    <2>2. ~Enqueued(t) /\ ~Enqueued(t)'
      BY <1>10, <2>1 DEF Enqueued
    <2>3. order' = order /\ OrderInv' /\ InTurn(t)
      BY <1>10, <2>1, <2>2, OrderStays DEF TicketInv
    <2>4. \A i \in 1..n : order[i] \in Threads \ {t}
      BY <2>2 DEF TicketInv, OrderInv, At1
    <2> QED
      BY <2>3, <2>4
  <1>11. ASSUME NEW x, loc' = [loc EXCEPT ![t] = x]
         PROVE  /\ loc' = [u \in Threads |-> loc'[u]]
                /\ \A u \in Threads \ {t} : loc'[u] = loc[u]
    BY <1>11 DEF TicketInv
  <1>12. CASE Ticket!TryRead(t)
    <2>1. Step(t, "idle", "try") /\ lk' = lk /\ loc' = [loc EXCEPT ![t] = lk.request]
      BY <1>12, TicketCalls DEF Ticket!TryRead
    <2>2. Allowed(t) /\ OneHolder' /\ Held' = Held
      BY <1>3, <1>4, <1>6, <2>1
    <2>3. /\ order' = order /\ OrderInv' /\ InTurn(t)
          /\ \A i \in 1..n : order[i] \in Threads \ {t}
      BY <1>3, <1>4, <1>5, <1>10, <2>1
    <2> QED
      BY <1>11, <2>1, <2>2, <2>3 DEF TicketInv, NextTicket
  <1>13. CASE Ticket!TryCas(t, IF algo = "ticket" THEN loc[t] ELSE Ticket!Plus1(loc[t]))
    <2>1. PICK free \in BOOLEAN :
            /\ Step(t, "try", IF free THEN "tryposix" ELSE "idle")
            /\ lk' = IF free THEN [lk EXCEPT !.request = Ticket!Plus1(lk.request)] ELSE lk
            /\ loc' = [loc EXCEPT ![t] = NULL]
            /\ free => lk = [request |-> loc[t],
                             grant |-> IF algo = "ticket" THEN loc[t] ELSE Ticket!Plus1(loc[t])]
      BY <1>13, TicketCalls DEF Ticket!TryCas
    <2>2. CASE ~free
      <3>1. Step(t, "try", "idle") /\ lk' = lk
        BY <2>1, <2>2
      <3>2. Allowed(t) /\ OneHolder' /\ Held' = Held
        BY <1>3, <1>4, <1>6, <3>1
      <3>3. /\ order' = order /\ OrderInv' /\ InTurn(t)
            /\ \A i \in 1..n : order[i] \in Threads \ {t}
        BY <1>3, <1>4, <1>5, <1>10, <3>1
      <3> QED
        BY <1>11, <2>1, <3>1, <3>2, <3>3 DEF TicketInv, NextTicket
    <2>3. CASE free
      <3>1. Step(t, "try", "tryposix") /\ lk' = [lk EXCEPT !.request = Ticket!Plus1(lk.request)]
        BY <2>1, <2>3
      <3>2. NextTicket = g
        BY <2>1, <2>3 DEF NextTicket
      <3>3. Held + n = 0
        <4>1. Held + n \in 0..M - 1
          BY <1>1
        <4> QED
          BY <1>1, <3>2, <4>1, ModSame
      <3>4. Held = 0 /\ n = 0
        BY <1>1, <3>3
      <3>5. Allowed(t) /\ OneHolder' /\ Held' = 1
        BY <1>3, <1>4, <1>6, <3>1, <3>4
      <3>6. order' = order /\ OrderInv' /\ InTurn(t)
        BY <1>3, <1>4, <1>5, <1>10, <3>1
      <3>7. NextTicket' = (g + 1) % M
        BY <1>1, <3>1, <3>2, NextTicketIs DEF TicketInv
      <3>8. lk' \in [request : 0..M - 1, grant : 0..M - 1] /\ lk'.grant = g
        <4>1. Ticket!Plus1(lk.request) \in 0..M - 1
          BY <1>1 DEF Ticket!Plus1
        <4> QED
          BY <3>1, <4>1 DEF TicketInv
      <3>9. NextTicket' = (lk'.grant + Held' + Len(order')) % M
        <4>1. g + 1 = lk'.grant + Held' + Len(order')
          BY <1>1, <3>4, <3>5, <3>6, <3>8
        <4> QED
          BY <3>7, <4>1
      <3> QED
        BY <1>11, <2>1, <3>4, <3>5, <3>6, <3>8, <3>9 DEF TicketInv
    <2> QED
      BY <2>2, <2>3
  <1>14. CASE Ticket!Grant(t)
    <2>1. Step(t, "unlock", After(t)) /\ lk' = [lk EXCEPT !.grant = (g + 1) % M] /\ loc' = loc
      BY <1>14, TicketCalls DEF Ticket!Grant, Ticket!Plus1
    <2>2. Allowed(t) /\ OneHolder' /\ Held = 1 /\ Held' = 0
      BY <1>3, <1>4, <1>6, <2>1
    <2>3. After(t) \in RestPcs /\ After(t) # "lock" /\ After(t) # "posix"
      BY DEF After, RestPcs
    <2>4. order' = order /\ OrderInv' /\ InTurn(t)
      BY <1>3, <1>4, <1>5, <1>10, <2>1, <2>3
    <2>5. (g + 1) % M \in 0..M - 1 /\ (g + 1) % M = IF g + 1 < M THEN g + 1 ELSE g + 1 - M
      <3>1. 1 \in 0..M
        BY <1>1
      <3>2. (g + 1) % M = IF g + 1 < M THEN g + 1 ELSE g + 1 - M
        <4>1. PICK k \in 0..M : k = 1
          BY <3>1
        <4> QED
          BY <1>1, <4>1, ModAdd
      <3>3. (IF g + 1 < M THEN g + 1 ELSE g + 1 - M) \in 0..M - 1
        <4>1. g \in 0..M - 1 /\ M \in Nat \ {0}
          BY <1>1
        <4>2. CASE g + 1 < M
          BY <4>1, <4>2
        <4>3. CASE ~(g + 1 < M)
          <5>1. g + 1 = M
            BY <4>1, <4>3
          <5> QED
            BY <4>1, <4>3, <5>1
        <4> QED
          BY <4>2, <4>3
      <3> QED
        BY <3>2, <3>3
    <2>6. \A k \in 0..M - 1 : (g + (1 + k)) % M = (((g + 1) % M) + k) % M
      BY <1>1, ModFrom
    <2>7. lk' \in [request : 0..M - 1, grant : 0..M - 1] /\ lk'.grant = (g + 1) % M /\ lk'.request = lk.request
      BY <2>1, <2>5 DEF TicketInv
    <2>8. NextTicket' = (lk'.grant + Held' + Len(order')) % M
      <3>1. NextTicket' = NextTicket
        BY <2>7 DEF NextTicket
      <3>2. n \in 0..M - 1 /\ Held + n = 1 + n
        BY <1>1, <2>2
      <3>3. lk'.grant + Held' + Len(order') = ((g + 1) % M) + n
        BY <1>1, <2>2, <2>4, <2>5, <2>7
      <3> QED
        BY <1>1, <2>6, <3>1, <3>2, <3>3
    <2>9. ASSUME NEW i \in 1..Len(order')
          PROVE  loc'[order'[i]] = (lk'.grant + Held' + i - 1) % M
      <3>1. i \in 1..n /\ i - 1 \in 0..M - 1 /\ Held + i - 1 = 1 + (i - 1)
        BY <1>1, <2>2, <2>4
      <3>2. lk'.grant + Held' + i - 1 = ((g + 1) % M) + (i - 1)
        BY <1>1, <2>2, <2>4, <2>5, <2>7
      <3> QED
        BY <1>1, <2>1, <2>4, <2>6, <3>1, <3>2
    <2> QED
      BY <2>1, <2>2, <2>4, <2>7, <2>8, <2>9 DEF TicketInv
  <1> QED
    BY <1>2, <1>7, <1>8, <1>9, <1>12, <1>13, <1>14


LEMMA TicketInitial ==
  ASSUME order = <<>>,
         \/ algo = "ticket" /\ Ticket!Init
         \/ algo = "ticketepfl" /\ Ticket!InitEpfl
  PROVE  TicketInv
  <1>1. /\ pc = [t \in Threads |-> "idle"] /\ loc = [t \in Threads |-> NULL]
        /\ lk = [request |-> 0, grant |-> IF algo = "ticket" THEN 0 ELSE 1]
    BY DEF Ticket!Init, Ticket!InitEpfl, Ticket!InitWith, Ticket!ApiInit, Ticket!ticket_mutex_create,
           Ticket!ticketepfl_mutex_create
  <1>2. (\A t \in Threads : ~Hold(t) /\ ~Enqueued(t)) /\ Held = 0
    BY <1>1 DEF Hold, HeldPcs, UnlockPcs, Enqueued, LockPc, WrapperPcs, Held
  <1>3. OneHolder /\ OrderInv
    BY <1>2 DEF OneHolder, OrderInv, Distinct, At1
  <1>4. TicketMod \in Nat \ {0}
    BY <1>3, TicketRoom
  <1>5. TicketMod # 1
    BY FlatLocksAssumption
  <1> QED
    BY <1>1, <1>2, <1>3, <1>4, <1>5 DEF TicketInv, NextTicket, Ticket!Plus1

-----------------------------------------------------------------------------
(* One step of a thread from p to q, for the locks with a queue.             *)

LEMMA QueueMoves ==
  ASSUME ApiInv, OneHolder, NEW t \in Threads, NEW p, NEW q, Step(t, p, q), Legal(t, p, q)
  PROVE  /\ pc[t] = p /\ pc'[t] = q /\ \A u \in Threads \ {t} : pc'[u] = pc[u]
         /\ \A u \in Threads \ {t} : Enqueued(u)' <=> Enqueued(u)
         /\ \A u \in Threads \ {t} : Hold(u)' <=> Hold(u)
         /\ Allowed(t)
         /\ (Hold(t) <=> p \in HeldPcs) /\ (Hold(t)' <=> q \in HeldPcs)
         /\ q \notin HeldPcs \/ p \in HeldPcs \/ Held = 0 => OneHolder'
         /\ (p \in HeldPcs <=> q \in HeldPcs) => Held' = Held
         /\ q \in HeldPcs => Held' = 1
         /\ p \in HeldPcs => Held = 1
         /\ p \in HeldPcs /\ q \notin HeldPcs => Held' = 0
  <1>1. /\ pc[t] = p /\ pc'[t] = q /\ \A u \in Threads \ {t} : pc'[u] = pc[u]
        /\ \A u \in Threads \ {t} : Hold(u)' <=> Hold(u)
        /\ (Hold(t) <=> p \in HeldPcs) /\ (Hold(t)' <=> q \in HeldPcs)
        /\ Allowed(t)
    BY StepMoves
  <1>2. q \notin HeldPcs \/ p \in HeldPcs \/ Held = 0 => OneHolder'
    BY <1>1, OneHolderKept, HeldIs
  <1>3. p \in HeldPcs => Held = 1
    BY <1>1 DEF Held
  <1> QED
    BY <1>1, <1>2, <1>3, HeldNext DEF Enqueued

\* A step of a thread that does not wait, before it or after it.
LEMMA OrderAside ==
  ASSUME OrderInv, ApiInv, NEW t \in Threads, NEW p, NEW q, Step(t, p, q), Ordered(t),
         p # "lock", q # "posix", ~(LockPc(p) /\ p # "lock"), ~(LockPc(q) /\ q # "lock")
  PROVE  /\ order' = order /\ OrderInv' /\ InTurn(t)
         /\ \A i \in 1..Len(order) : order[i] \in Threads \ {t}
  <1>1. /\ pc[t] = p /\ pc'[t] = q /\ \A u \in Threads \ {t} : pc'[u] = pc[u]
    BY StepMoves
  <1>2. ~Enqueued(t) /\ ~Enqueued(t)' /\ \A u \in Threads \ {t} : Enqueued(u)' <=> Enqueued(u)
    BY <1>1 DEF Enqueued
  <1>3. order' = order /\ OrderInv' /\ InTurn(t)
    BY <1>1, <1>2, OrderStays
  <1>4. \A i \in 1..Len(order) : order[i] \in Threads \ {t}
    BY <1>2 DEF OrderInv, At1
  <1> QED
    BY <1>3, <1>4

\* A step of a thread that goes on waiting.
LEMMA OrderWaits ==
  ASSUME OrderInv, ApiInv, NEW t \in Threads, NEW p, NEW q, Step(t, p, q), Ordered(t),
         p # "lock", q # "lock", LockPc(p), LockPc(q)
  PROVE  order' = order /\ OrderInv' /\ InTurn(t) /\ Enqueued(t) /\ Enqueued(t)'
  <1>1. /\ pc[t] = p /\ pc'[t] = q /\ \A u \in Threads \ {t} : pc'[u] = pc[u]
    BY StepMoves
  <1>2. Enqueued(t) /\ Enqueued(t)' /\ q # "posix" /\ \A u \in Threads \ {t} : Enqueued(u)' <=> Enqueued(u)
    BY <1>1 DEF Enqueued, LockPc, WrapperPcs
  <1> QED
    BY <1>1, <1>2, OrderStays

\* Who waits is not the holder, and where there are as many of them as threads
\* nobody is anywhere else.
LEMMA QueueRoom ==
  ASSUME OrderInv, OneHolder
  PROVE  /\ Len(order) \in Nat /\ Held \in {0, 1} /\ Cardinality(Threads) \in Nat
         /\ Held + Len(order) <= Cardinality(Threads)
         /\ (\E t \in Threads : ~Enqueued(t) /\ ~Hold(t)) => Held + Len(order) < Cardinality(Threads)
  <1>1. /\ Cardinality(Threads) \in Nat /\ Len(order) \in Nat /\ Len(order) <= Cardinality(Threads)
        /\ (\E t \in Threads : ~Enqueued(t)) => Len(order) + 1 <= Cardinality(Threads)
    BY OrderLength
  <1>2. \A t \in Threads : Hold(t) => ~Enqueued(t)
    BY DEF Hold, Enqueued, HeldPcs, LockPc, WrapperPcs
  <1>3. Held \in {0, 1} /\ (Held = 0 <=> \A t \in Threads : ~Hold(t))
    BY HeldIs
  <1>4. Held + Len(order) <= Cardinality(Threads)
    BY <1>1, <1>2, <1>3
  <1>5. ASSUME NEW t \in Threads, ~Enqueued(t), ~Hold(t)
        PROVE  Held + Len(order) < Cardinality(Threads)
    <2>1. CASE Held = 0
      BY <1>1, <1>5, <2>1
    <2>2. CASE Held = 1
      <3>1. PICK h \in Threads : Hold(h)
        BY <1>3, <2>2
      <3>2. h # t /\ ~Enqueued(h)
        BY <1>2, <1>5, <3>1
      <3>3. Len(order) + 2 <= Cardinality(Threads)
        BY <1>5, <3>2, OrderLength2
      <3> QED
        BY <1>1, <2>2, <3>3
    <2> QED
      BY <1>3, <2>1, <2>2
  <1> QED
    BY <1>1, <1>3, <1>4, <1>5
LEMMA ArrayCalls ==
  ASSUME NEW t \in Threads
  PROVE  /\ Array!CallLock(t) => CallLock(t)
         /\ Array!PosixLock(t) => PosixLock(t)
         /\ Array!PosixTryLock(t) => PosixTryLock(t)
         /\ Array!PosixUnlock(t) => PosixUnlock(t)
         /\ Array!CondTimedwait(t) => CondTimedwait(t)
         /\ Array!CondSignal(t) => CondSignal(t)
         /\ Array!CondBroadcast(t) => CondBroadcast(t)
         /\ \A p, q : Array!Step(t, p, q) => Step(t, p, q)
         /\ \A p, q : Array!Read(t, p, q) => Step(t, p, q) /\ lk' = lk /\ nd' = nd /\ loc' = loc
         /\ Array!After(t) = After(t)
  <1>1. Array!CallLock(t) => CallLock(t)
    BY DEF Array!CallLock, CallLock, Array!Read, Read, Array!Step, Step, Array!mem, mem
  <1>2. Array!PosixLock(t) => PosixLock(t)
    BY DEF Array!PosixLock, PosixLock, Array!mem, mem
  <1>3. Array!PosixTryLock(t) => PosixTryLock(t)
    BY DEF Array!PosixTryLock, PosixTryLock, Array!mem, mem
  <1>4. Array!PosixUnlock(t) => PosixUnlock(t)
    BY DEF Array!PosixUnlock, PosixUnlock, Array!mem, mem
  <1>5. \A u : Array!RealWake(u) <=> RealWake(u)
    BY DEF Array!RealWake, RealWake, Array!Read, Read, Array!Step, Step, Array!mem, mem
  <1>6. Array!CondTimedwait(t) => CondTimedwait(t)
    BY <1>5, Zenon DEF Array!CondTimedwait, CondTimedwait, Array!CallWait, CallWait, Array!RealWait, RealWait,
                Array!RealReturn, RealReturn, Array!WaitPosixUnlock, WaitPosixUnlock, Array!mem, mem
  <1>7. Array!CondSignal(t) => CondSignal(t)
    BY <1>5 DEF Array!CondSignal, CondSignal
  <1>8. Array!CondBroadcast(t) => CondBroadcast(t)
    BY DEF Array!CondBroadcast, CondBroadcast, Array!mem, mem
  <1>9. \A p, q : Array!Step(t, p, q) => Step(t, p, q)
    BY DEF Array!Step, Step
  <1>10. \A p, q : Array!Read(t, p, q) => Step(t, p, q) /\ lk' = lk /\ nd' = nd /\ loc' = loc
    BY DEF Array!Read, Array!Step, Step, Array!mem
  <1>11. Array!After(t) = After(t)
    BY DEF Array!After, After
  <1> QED
    BY <1>1, <1>2, <1>3, <1>4, <1>6, <1>7, <1>8, <1>9, <1>10, <1>11


-----------------------------------------------------------------------------
(* alockepfl.c                                                               *)

\* b is the slot of the holder, or the one that is open.
ArrayAt(b) ==
  /\ lk.tail = (b + (Held + Len(order))) % Slots
  /\ \A t \in Threads : Hold(t) => nd[t] = b
  /\ \A i \in 1..Len(order) : nd[order[i]] = (b + (Held + i - 1)) % Slots
  /\ \A i \in 0..Slots - 1 :
       lk.flags[i] = UNLOCKED <=> i = b /\ \A t \in Threads : pc[t] # "handover"

ArrayInv ==
  /\ OneHolder /\ OrderInv
  /\ nd \in [Threads -> 0..Slots - 1] /\ loc = [t \in Threads |-> loc[t]]
  /\ lk \in [tail : 0..Slots - 1, flags : [0..Slots - 1 -> {LOCKED, UNLOCKED}]]
  /\ \A t \in Threads : pc[t] \in {"try", "trycas"} /\ loc[t] # NULL => loc[t] = lk.tail
  /\ \A t \in Threads : pc[t] = "trycas" /\ loc[t] # NULL => Held = 0 /\ Len(order) = 0
  /\ \E b \in 0..Slots - 1 : ArrayAt(b)

LEMMA ArrayStep ==
  ASSUME ApiInv, ArrayInv, algo = "alockepfl", NEW t \in Threads, Calls(t), Ordered(t)
  PROVE  ArrayInv' /\ InTurn(t) /\ (Allowed(t) \/ Wrapped(t))
  <1> DEFINE n == Len(order)
  <1>0. algo \in FifoAlgos /\ Slots \in Nat \ {0} /\ Cardinality(Threads) <= Slots
    BY FlatLocksAssumption DEF FifoAlgos
  <1>1. /\ n \in Nat /\ Held \in {0, 1} /\ Held + n <= Slots
        /\ (\E u \in Threads : ~Enqueued(u) /\ ~Hold(u)) => Held + n < Slots
        /\ OneHolder /\ OrderInv /\ order \in Seq(Threads)
    BY <1>0, QueueRoom DEF ArrayInv, OrderInv
  <1>2. \/ Wrapped(t)
        \/ Array!Enqueue(t) \/ Array!AwaitFlag(t) \/ Array!TryRead(t) \/ Array!TryFlag(t)
        \/ Array!TryCas(t) \/ Array!CloseSlot(t) \/ Array!OpenNext(t)
    <2>1. Array!alockepfl(t)
      BY DEF Calls, McsAlgos, ClhAlgos
    <2> QED
      BY <2>1, ArrayCalls, Zenon
      DEF Array!alockepfl, Array!alockepfl_mutex_lock, Array!alockepfl_mutex_trylock,
          Array!alockepfl_mutex_unlock, Array!alockepfl_cond_timedwait, Wrapped
  <1>3. /\ {"posix", "tryposix", "unlock", "handover"} \subseteq HeldPcs
        /\ {"unlock", "handover"} \subseteq UnlockPcs
        /\ \A p \in {"idle", "try", "trycas", "lock", "spin", After(t)} : p \notin HeldPcs
        /\ {"try", "trycas"} \subseteq TryPcs
    BY LockPcs DEF HeldPcs, UnlockPcs, TryPcs, After
  <1>4. /\ Legal(t, "lock", "spin") /\ Legal(t, "spin", "posix") /\ Legal(t, "idle", "try")
        /\ Legal(t, "try", "trycas") /\ Legal(t, "try", "idle") /\ Legal(t, "trycas", "tryposix")
        /\ Legal(t, "trycas", "idle") /\ Legal(t, "unlock", "handover") /\ Legal(t, "handover", After(t))
    BY <1>3, LockPcs DEF Legal
  <1>5. \A p : p \in TryPcs \cup {"idle", "tryposix", "lock"} \cup UnlockPcs \cup RestPcs => ~(LockPc(p) /\ p # "lock")
    BY DEF LockPc, WrapperPcs, RestPcs
  <1>6. PICK b \in 0..Slots - 1 : ArrayAt(b)
    BY DEF ArrayInv
  <1>7. UNLOCKED = 1 /\ LOCKED = 0 /\ Array!UNLOCKED = 1 /\ Array!LOCKED = 0
    BY DEF UNLOCKED, LOCKED, Array!UNLOCKED, Array!LOCKED
  <1>8. /\ nd \in [Threads -> 0..Slots - 1] /\ loc = [u \in Threads |-> loc[u]]
        /\ lk \in [tail : 0..Slots - 1, flags : [0..Slots - 1 -> {LOCKED, UNLOCKED}]]
        /\ lk.tail \in 0..Slots - 1
    BY DEF ArrayInv
  <1>9. CASE Wrapped(t)
    <2>1. /\ lk' = lk /\ nd' = nd /\ loc' = loc /\ OneHolder'
          /\ \A u \in Threads : Around(u) /\ (Hold(u)' <=> Hold(u))
      BY <1>1, <1>9, WrappedKeeps
    <2>2. order' = order /\ OrderInv' /\ InTurn(t)
      BY <1>1, <1>9, OrderWrapped
    <2>3. Held' = Held
      BY <2>1 DEF Held
    <2>4. \A u \in Threads : \A p \in {"try", "trycas", "handover"} : pc'[u] = p <=> pc[u] = p
      BY <2>1 DEF Around, RestPcs
    <2>5. ArrayAt(b)'
      BY <1>6, <2>1, <2>2, <2>3, <2>4 DEF ArrayAt
    <2> QED
      BY <1>9, <2>1, <2>2, <2>3, <2>4, <2>5 DEF ArrayInv
  \* A thread gets the next slot.
  <1>10. ASSUME Array!TakeSlot(t), Held + n < Slots,
                \A i \in 1..n : order[i] # t
         PROVE  /\ lk'.tail = (b + ((Held + n) + 1)) % Slots /\ lk'.flags = lk.flags
                /\ lk' \in [tail : 0..Slots - 1, flags : [0..Slots - 1 -> {LOCKED, UNLOCKED}]]
                /\ nd' \in [Threads -> 0..Slots - 1] /\ nd'[t] = (b + (Held + n)) % Slots
                /\ \A u \in Threads \ {t} : nd'[u] = nd[u]
                /\ \A i \in 1..n : nd'[order[i]] = (b + (Held + i - 1)) % Slots
                /\ loc' = [u \in Threads |-> loc'[u]] /\ \A u \in Threads : loc'[u] = NULL
    <2>1. /\ lk' = [lk EXCEPT !.tail = (lk.tail + 1) % Slots] /\ nd' = [nd EXCEPT ![t] = lk.tail]
          /\ loc' = [u \in Threads |-> NULL]
      BY <1>10 DEF Array!TakeSlot
    <2>2. lk.tail = (b + (Held + n)) % Slots
      BY <1>6 DEF ArrayAt
    <2>3. (lk.tail + 1) % Slots = (b + ((Held + n) + 1)) % Slots /\ (lk.tail + 1) % Slots \in 0..Slots - 1
      <3>1. Held + n \in 0..Slots - 1
        BY <1>0, <1>1, <1>10
      <3>2. (lk.tail + 1) % Slots = (b + ((Held + n) + 1)) % Slots
        BY <1>0, <2>2, <3>1, ModNext
      <3>3. (lk.tail + 1) % Slots \in 0..Slots - 1
        BY <1>0, <1>8
      <3> QED
        BY <3>2, <3>3
    <2>4. /\ lk'.tail = (lk.tail + 1) % Slots /\ lk'.flags = lk.flags
          /\ lk' \in [tail : 0..Slots - 1, flags : [0..Slots - 1 -> {LOCKED, UNLOCKED}]]
      BY <1>8, <2>1, <2>3
    <2>5. /\ nd' \in [Threads -> 0..Slots - 1] /\ nd'[t] = lk.tail
          /\ \A u \in Threads \ {t} : nd'[u] = nd[u]
      BY <1>8, <2>1
    <2>6. \A i \in 1..n : nd'[order[i]] = (b + (Held + i - 1)) % Slots
      <3> TAKE i \in 1..n
      <3>1. order[i] \in Threads \ {t}
        BY <1>1, <1>10, SeqLength
      <3> QED
        BY <1>6, <2>5, <3>1 DEF ArrayAt
    <2>7. loc' = [u \in Threads |-> loc'[u]] /\ \A u \in Threads : loc'[u] = NULL
      BY <2>1
    <2> QED
      BY <2>2, <2>3, <2>4, <2>5, <2>6, <2>7
  <1>11. CASE Array!Enqueue(t)
    <2>1. Step(t, "lock", "spin") /\ Array!TakeSlot(t)
      BY <1>11, ArrayCalls DEF Array!Enqueue
    <2>2. /\ pc[t] = "lock" /\ pc'[t] = "spin" /\ \A u \in Threads \ {t} : pc'[u] = pc[u]
          /\ \A u \in Threads \ {t} : Enqueued(u)' <=> Enqueued(u)
          /\ \A u \in Threads : Hold(u)' <=> Hold(u)
          /\ ~Hold(t) /\ Allowed(t) /\ OneHolder' /\ Held' = Held
      BY <1>1, <1>3, <1>4, <2>1, QueueMoves
    <2>3. Enqueued(t)' /\ ~Enqueued(t)
      BY <2>2, LockPcs DEF Enqueued
    <2>4. /\ Len(order') = n + 1 /\ OrderInv' /\ InTurn(t) /\ order'[n + 1] = t
          /\ \A i \in 1..n : order'[i] = order[i]
      BY <1>0, <1>1, <2>2, <2>3, OrderJoin
    <2>5. Held + n < Slots /\ \A i \in 1..n : order[i] # t
      BY <1>1, <2>2, <2>3 DEF OrderInv, At1
    <2>6. /\ lk'.tail = (b + ((Held + n) + 1)) % Slots /\ lk'.flags = lk.flags
          /\ lk' \in [tail : 0..Slots - 1, flags : [0..Slots - 1 -> {LOCKED, UNLOCKED}]]
          /\ nd' \in [Threads -> 0..Slots - 1] /\ nd'[t] = (b + (Held + n)) % Slots
          /\ \A u \in Threads \ {t} : nd'[u] = nd[u]
          /\ \A i \in 1..n : nd'[order[i]] = (b + (Held + i - 1)) % Slots
          /\ loc' = [u \in Threads |-> loc'[u]] /\ \A u \in Threads : loc'[u] = NULL
      BY <1>10, <2>1, <2>5
    <2>7. \A i \in 1..Len(order') : nd'[order'[i]] = (b + (Held' + i - 1)) % Slots
      <3> TAKE i \in 1..Len(order')
      <3>1. CASE i \in 1..n
        BY <2>2, <2>4, <2>6, <3>1
      <3>2. CASE i = n + 1
        <4>1. Held' + i - 1 = Held + n
          BY <1>1, <2>2, <3>2
        <4> QED
          BY <2>4, <2>6, <3>2, <4>1
      <3> QED
        BY <1>1, <2>4, <3>1, <3>2
    <2>8. ArrayAt(b)'
      <3>1. (Held + n) + 1 = Held' + Len(order')
        BY <1>1, <2>2, <2>4
      <3>2. \A u \in Threads : Hold(u)' => nd'[u] = b
        BY <1>6, <2>2, <2>6 DEF ArrayAt
      <3>3. (\A u \in Threads : pc'[u] # "handover") <=> \A u \in Threads : pc[u] # "handover"
        BY <2>2
      <3> QED
        BY <1>6, <2>6, <2>7, <3>1, <3>2, <3>3 DEF ArrayAt
    <2> QED
      BY <2>2, <2>4, <2>6, <2>8 DEF ArrayInv
  <1>12. CASE Array!AwaitFlag(t)
    <2>1. Step(t, "spin", "posix") /\ lk' = lk /\ nd' = nd /\ loc' = loc /\ lk.flags[nd[t]] # LOCKED
      BY <1>7, <1>12, ArrayCalls DEF Array!AwaitFlag
    <2>2. /\ pc[t] = "spin" /\ pc'[t] = "posix" /\ \A u \in Threads \ {t} : pc'[u] = pc[u]
          /\ \A u \in Threads \ {t} : Enqueued(u)' <=> Enqueued(u)
          /\ \A u \in Threads \ {t} : Hold(u)' <=> Hold(u)
          /\ Allowed(t) /\ Held' = 1 /\ (Held = 0 => OneHolder')
      BY <1>1, <1>3, <1>4, <2>1, QueueMoves
    <2>3. Enqueued(t)
      BY <2>2, LockPcs DEF Enqueued
    <2>4. PICK i \in 1..n : order[i] = t
      BY <2>3 DEF ArrayInv, OrderInv, At1
    <2>5. nd[t] = b
      <3>1. nd[t] \in 0..Slots - 1
        BY <1>8
      <3>2. lk.flags[nd[t]] = UNLOCKED
        BY <1>8, <2>1, <3>1
      <3> QED
        BY <1>6, <3>1, <3>2 DEF ArrayAt
    <2>6. Held = 0 /\ i = 1
      <3>1. (b + (Held + i - 1)) % Slots = b
        BY <1>6, <2>4, <2>5 DEF ArrayAt
      <3>2. Held + i - 1 \in 0..Slots - 1
        BY <1>0, <1>1
      <3>3. Held + i - 1 = 0
        BY <1>0, <3>1, <3>2, ModSame
      <3> QED
        BY <1>1, <3>3
    <2>7. /\ n \in Nat \ {0} /\ t = order[1] /\ Len(order') = n - 1 /\ OrderInv' /\ InTurn(t)
          /\ \A j \in 1..Len(order') : order'[j] = order[j + 1] /\ j + 1 \in 1..n
      BY <1>0, <1>1, <2>2, <2>3, <2>4, <2>6, OrderGrant
    <2>8. \A j \in 1..Len(order') : nd'[order'[j]] = (b + (Held' + j - 1)) % Slots
      <3> TAKE j \in 1..Len(order')
      <3>1. nd[order[j + 1]] = (b + (Held + (j + 1) - 1)) % Slots /\ order'[j] = order[j + 1]
        BY <1>6, <2>7 DEF ArrayAt
      <3>2. Held + (j + 1) - 1 = Held' + j - 1
        BY <1>1, <2>2, <2>6, <2>7
      <3> QED
        BY <2>1, <3>1, <3>2
    <2>9. ArrayAt(b)'
      <3>1. Held + n = Held' + Len(order')
        BY <1>1, <2>2, <2>6, <2>7
      <3>2. \A u \in Threads : Hold(u)' => nd'[u] = b
        BY <1>6, <2>1, <2>2, <2>5 DEF ArrayAt
      <3>3. (\A u \in Threads : pc'[u] # "handover") <=> \A u \in Threads : pc[u] # "handover"
        BY <2>2
      <3> QED
        BY <1>6, <2>1, <2>8, <3>1, <3>2, <3>3 DEF ArrayAt
    <2>10. \A u \in Threads : pc[u] = "trycas" => loc[u] = NULL
      BY <2>7 DEF ArrayInv
    <2> QED
      BY <1>8, <2>1, <2>2, <2>6, <2>7, <2>9, <2>10 DEF ArrayInv
  \* Steps of a trylock that takes no slot.
  <1>13. ASSUME NEW p \in {"idle", "try", "trycas"}, NEW q \in {"idle", "try", "trycas"},
                Step(t, p, q), Legal(t, p, q), lk' = lk, nd' = nd, NEW x, loc' = [loc EXCEPT ![t] = x],
                q \in {"try", "trycas"} /\ x # NULL => x = lk.tail,
                q = "trycas" /\ x # NULL => Held = 0 /\ n = 0
         PROVE  ArrayInv' /\ InTurn(t) /\ Allowed(t)
    <2>1. /\ pc[t] = p /\ pc'[t] = q /\ \A u \in Threads \ {t} : pc'[u] = pc[u]
          /\ \A u \in Threads : Hold(u)' <=> Hold(u)
          /\ Allowed(t) /\ OneHolder' /\ Held' = Held
      BY <1>1, <1>3, <1>13, QueueMoves
    <2>2. order' = order /\ OrderInv' /\ InTurn(t)
      BY <1>1, <1>3, <1>5, <1>13, OrderAside
    <2>3. /\ loc' = [u \in Threads |-> loc'[u]] /\ loc'[t] = x
          /\ \A u \in Threads \ {t} : loc'[u] = loc[u]
      BY <1>8, <1>13
    <2>4. (\A u \in Threads : pc'[u] # "handover") <=> \A u \in Threads : pc[u] # "handover"
      BY <1>13, <2>1
    <2>5. ArrayAt(b)'
      BY <1>6, <1>13, <2>1, <2>2, <2>4 DEF ArrayAt
    <2>6. \A u \in Threads : pc'[u] \in {"try", "trycas"} /\ loc'[u] # NULL => loc'[u] = lk'.tail
      BY <1>13, <2>1, <2>3 DEF ArrayInv
    <2>7. \A u \in Threads : pc'[u] = "trycas" /\ loc'[u] # NULL => Held' = 0 /\ Len(order') = 0
      BY <1>13, <2>1, <2>2, <2>3 DEF ArrayInv
    <2> QED
      BY <1>8, <1>13, <2>1, <2>2, <2>3, <2>5, <2>6, <2>7 DEF ArrayInv
  <1>14. CASE Array!TryRead(t)
    <2>1. Step(t, "idle", "try") /\ loc' = [loc EXCEPT ![t] = lk.tail] /\ lk' = lk /\ nd' = nd
      BY <1>14, ArrayCalls DEF Array!TryRead
    <2> QED
      BY <1>4, <1>13, <2>1
  <1>15. CASE Array!TryFlag(t)
    <2> DEFINE open == loc[t] # NULL /\ lk.flags[loc[t]] = UNLOCKED
    <2>1. /\ Step(t, "try", IF open THEN "trycas" ELSE "idle") /\ lk' = lk /\ nd' = nd
          /\ loc' = [loc EXCEPT ![t] = IF open THEN loc[t] ELSE NULL]
      BY <1>7, <1>15, ArrayCalls DEF Array!TryFlag
    <2>2. CASE ~open
      <3>1. Step(t, "try", "idle") /\ loc' = [loc EXCEPT ![t] = NULL]
        BY <2>1, <2>2
      <3> QED
        BY <1>4, <1>13, <2>1, <3>1
    <2>3. CASE open
      <3>1. Step(t, "try", "trycas") /\ loc' = [loc EXCEPT ![t] = loc[t]]
        BY <2>1, <2>3
      <3>2. pc[t] = "try"
        BY <3>1, StepMoves
      <3>3. loc[t] = lk.tail /\ lk.tail = b
        <4>1. loc[t] = lk.tail
          BY <2>3, <3>2 DEF ArrayInv
        <4> QED
          BY <1>6, <1>8, <2>3, <4>1 DEF ArrayAt
      <3>4. Held + n \in 0..Slots - 1
        <4>1. ~Enqueued(t) /\ ~Hold(t)
          BY <1>3, <1>5, <3>2 DEF Enqueued, Hold
        <4> QED
          BY <1>0, <1>1, <4>1
      <3>5. Held + n = 0
        BY <1>0, <1>6, <3>3, <3>4, ModSame DEF ArrayAt
      <3>6. Held = 0 /\ n = 0
        BY <1>1, <3>5
      <3> QED
        BY <1>4, <1>13, <2>1, <3>1, <3>3, <3>6
    <2> QED
      BY <2>2, <2>3
  <1>16. CASE Array!TryCas(t)
    <2>1. CASE loc[t] = NULL /\ Array!Read(t, "trycas", "idle")
      <3>1. Step(t, "trycas", "idle") /\ lk' = lk /\ nd' = nd /\ loc' = [loc EXCEPT ![t] = loc[t]]
        <4>1. Step(t, "trycas", "idle") /\ lk' = lk /\ nd' = nd /\ loc' = loc
          BY <2>1, ArrayCalls
        <4> QED
          BY <1>8, <4>1
      <3> QED
        BY <1>4, <1>13, <2>1, <3>1
    <2>2. CASE loc[t] # NULL /\ Array!Step(t, "trycas", "tryposix") /\ Array!TakeSlot(t)
      <3>1. Step(t, "trycas", "tryposix")
        BY <2>2, ArrayCalls
      <3>2. /\ pc[t] = "trycas" /\ pc'[t] = "tryposix" /\ \A u \in Threads \ {t} : pc'[u] = pc[u]
            /\ \A u \in Threads \ {t} : Hold(u)' <=> Hold(u)
            /\ Allowed(t) /\ Held' = 1 /\ (Held = 0 => OneHolder')
        BY <1>1, <1>3, <1>4, <3>1, QueueMoves
      <3>3. Held = 0 /\ n = 0
        BY <2>2, <3>2 DEF ArrayInv
      <3>4. order' = order /\ OrderInv' /\ InTurn(t)
        BY <1>1, <1>3, <1>5, <3>1, OrderAside
      <3>5. /\ lk'.tail = (b + ((Held + n) + 1)) % Slots /\ lk'.flags = lk.flags
            /\ lk' \in [tail : 0..Slots - 1, flags : [0..Slots - 1 -> {LOCKED, UNLOCKED}]]
            /\ nd' \in [Threads -> 0..Slots - 1] /\ nd'[t] = (b + (Held + n)) % Slots
            /\ loc' = [u \in Threads |-> loc'[u]] /\ \A u \in Threads : loc'[u] = NULL
        <4>1. Held + n < Slots /\ \A i \in 1..n : order[i] # t
          BY <1>0, <3>3
        <4> QED
          BY <1>10, <2>2, <4>1
      <3>6. nd'[t] = b
        <4>1. b + (Held + n) = b
          BY <3>3
        <4>2. b % Slots = b
          BY <1>0
        <4> QED
          BY <3>5, <4>1, <4>2
      <3>7. ArrayAt(b)'
        <4>1. (Held + n) + 1 = Held' + Len(order')
          BY <3>2, <3>3, <3>4
        <4>2. \A u \in Threads : Hold(u)' => nd'[u] = b
          BY <3>2, <3>3, <3>6, HeldIs
        <4>3. (\A u \in Threads : pc'[u] # "handover") <=> \A u \in Threads : pc[u] # "handover"
          BY <3>2
        <4> QED
          BY <1>6, <3>3, <3>4, <3>5, <4>1, <4>2, <4>3 DEF ArrayAt
      <3> QED
        BY <3>2, <3>3, <3>4, <3>5, <3>7 DEF ArrayInv
    <2> QED
      BY <1>16, <2>1, <2>2 DEF Array!TryCas
  <1>17. CASE Array!CloseSlot(t)
    <2>1. Step(t, "unlock", "handover") /\ lk' = [lk EXCEPT !.flags[nd[t]] = LOCKED] /\ nd' = nd /\ loc' = loc
      BY <1>7, <1>17, ArrayCalls DEF Array!CloseSlot, Array!SetFlag
    <2>2. /\ pc[t] = "unlock" /\ pc'[t] = "handover" /\ \A u \in Threads \ {t} : pc'[u] = pc[u]
          /\ \A u \in Threads : Hold(u)' <=> Hold(u)
          /\ Hold(t) /\ Allowed(t) /\ OneHolder' /\ Held' = Held
      BY <1>1, <1>3, <1>4, <2>1, QueueMoves
    <2>3. order' = order /\ OrderInv' /\ InTurn(t)
      BY <1>1, <1>3, <1>5, <2>1, OrderAside
    <2>4. nd[t] = b
      BY <1>6, <2>2 DEF ArrayAt
    <2>5. /\ lk' \in [tail : 0..Slots - 1, flags : [0..Slots - 1 -> {LOCKED, UNLOCKED}]]
          /\ lk'.tail = lk.tail /\ lk'.flags[b] = LOCKED
          /\ \A i \in 0..Slots - 1 : i # b => lk'.flags[i] = lk.flags[i]
      BY <1>8, <2>1, <2>4
    <2>6. ArrayAt(b)'
      <3>1. \A i \in 0..Slots - 1 : lk'.flags[i] # UNLOCKED
        BY <1>6, <1>7, <2>5 DEF ArrayAt
      <3>2. (\A u \in Threads : Hold(u)' => nd'[u] = b) /\ lk'.tail = (b + (Held' + Len(order'))) % Slots
        BY <1>6, <2>1, <2>2, <2>3, <2>5 DEF ArrayAt
      <3> QED
        BY <1>6, <2>1, <2>2, <2>3, <3>1, <3>2 DEF ArrayAt
    <2>7. \A u \in Threads : pc'[u] \in {"try", "trycas"} => pc[u] = pc'[u]
      BY <2>2
    <2> QED
      BY <1>8, <2>1, <2>2, <2>3, <2>5, <2>6, <2>7 DEF ArrayInv
  <1>18. CASE Array!OpenNext(t)
    <2> DEFINE c == (b + 1) % Slots
    <2>1. /\ Step(t, "handover", After(t)) /\ nd' = nd /\ loc' = loc
          /\ lk' = [lk EXCEPT !.flags[(nd[t] + 1) % Slots] = UNLOCKED]
      BY <1>7, <1>18, ArrayCalls DEF Array!OpenNext, Array!SetFlag
    <2>2. /\ pc[t] = "handover" /\ pc'[t] = After(t) /\ \A u \in Threads \ {t} : pc'[u] = pc[u]
          /\ \A u \in Threads \ {t} : Hold(u)' <=> Hold(u)
          /\ Hold(t) /\ ~Hold(t)' /\ Allowed(t) /\ OneHolder' /\ Held = 1 /\ Held' = 0
      BY <1>1, <1>3, <1>4, <2>1, QueueMoves
    <2>3. After(t) \in RestPcs /\ After(t) # "lock" /\ After(t) \notin {"posix", "handover", "try", "trycas"}
      BY DEF After, RestPcs
    <2>4. order' = order /\ OrderInv' /\ InTurn(t)
      BY <1>1, <1>3, <1>5, <2>1, <2>3, OrderAside
    <2>5. nd[t] = b
      BY <1>6, <2>2 DEF ArrayAt
    <2>6. c \in 0..Slots - 1
      BY <1>0
    <2>7. /\ lk' \in [tail : 0..Slots - 1, flags : [0..Slots - 1 -> {LOCKED, UNLOCKED}]]
          /\ lk'.tail = lk.tail /\ lk'.flags[c] = UNLOCKED
          /\ \A i \in 0..Slots - 1 : i # c => lk'.flags[i] = lk.flags[i]
      BY <1>8, <2>1, <2>5, <2>6
    <2>8. \A k \in 0..Slots - 1 : (b + (1 + k)) % Slots = (c + k) % Slots
      BY <1>0, ModFrom
    <2>9. ArrayAt(c)'
      <3>1. \A u \in Threads : ~Hold(u)'
        BY <2>2 DEF Held
      <3>2. \A u \in Threads : pc'[u] # "handover"
        BY <1>3, <3>1 DEF Hold
      <3>3. \A i \in 0..Slots - 1 : lk'.flags[i] = UNLOCKED <=> i = c
        BY <1>6, <2>2, <2>7 DEF ArrayAt
      <3>4. lk'.tail = (c + (Held' + Len(order'))) % Slots
        <4>1. n \in 0..Slots - 1 /\ Held + n = 1 + n /\ Held' + Len(order') = n
          BY <1>0, <1>1, <2>2, <2>4
        <4> QED
          BY <1>6, <2>7, <2>8, <4>1 DEF ArrayAt
      <3>5. \A i \in 1..Len(order') : nd'[order'[i]] = (c + (Held' + i - 1)) % Slots
        <4> TAKE i \in 1..Len(order')
        <4>1. i - 1 \in 0..Slots - 1 /\ Held + i - 1 = 1 + (i - 1) /\ Held' + i - 1 = i - 1 /\ i \in 1..n
          BY <1>0, <1>1, <2>2, <2>4
        <4>2. nd[order[i]] = (b + (Held + i - 1)) % Slots
          BY <1>6, <4>1 DEF ArrayAt
        <4> QED
          BY <2>1, <2>4, <2>8, <4>1, <4>2
      <3> QED
        BY <3>1, <3>2, <3>3, <3>4, <3>5 DEF ArrayAt
    <2>10. \A u \in Threads : pc'[u] \in {"try", "trycas"} => pc[u] = pc'[u]
      BY <2>2, <2>3
    <2>11. \A u \in Threads : pc'[u] = "trycas" => loc[u] = NULL
      BY <2>2, <2>10 DEF ArrayInv
    <2> QED
      BY <1>8, <2>1, <2>2, <2>4, <2>6, <2>7, <2>9, <2>10, <2>11 DEF ArrayInv
  <1> QED
    BY <1>2, <1>9, <1>11, <1>12, <1>14, <1>15, <1>16, <1>17, <1>18

LEMMA ArrayInitial ==
  ASSUME order = <<>>, Array!Init, ~Recycled
  PROVE  ArrayInv
  <1>0. UNLOCKED = 1 /\ LOCKED = 0 /\ Array!UNLOCKED = 1 /\ Array!LOCKED = 0 /\ Slots \in Nat \ {0}
    BY FlatLocksAssumption DEF UNLOCKED, LOCKED, Array!UNLOCKED, Array!LOCKED
  <1>1. /\ pc = [t \in Threads |-> "idle"] /\ nd = [t \in Threads |-> 0] /\ loc = [t \in Threads |-> NULL]
        /\ \E flags \in [0 .. Slots - 1 -> {LOCKED}] :
             lk = [tail |-> 0, flags |-> [flags EXCEPT ![0] = UNLOCKED]]
    BY <1>0 DEF Array!Init, Array!ApiInit, Array!alockepfl_mutex_create
  <1>2. /\ lk \in [tail : 0..Slots - 1, flags : [0..Slots - 1 -> {LOCKED, UNLOCKED}]]
        /\ lk.tail = 0 /\ \A i \in 0..Slots - 1 : lk.flags[i] = UNLOCKED <=> i = 0
    BY <1>0, <1>1
  <1>3. \A t \in Threads : ~Hold(t) /\ ~Enqueued(t) /\ pc[t] \notin {"handover", "try", "trycas"}
    BY <1>1 DEF Hold, HeldPcs, UnlockPcs, Enqueued, LockPc, WrapperPcs
  <1>4. Held = 0
    BY <1>3 DEF Held
  <1>5. OneHolder /\ OrderInv
    BY <1>3 DEF OneHolder, OrderInv, Distinct, At1
  <1>6. ArrayAt(0)
    BY <1>0, <1>2, <1>3, <1>4 DEF ArrayAt
  <1>7. nd \in [Threads -> 0..Slots - 1] /\ loc = [t \in Threads |-> loc[t]] /\ 0 \in 0..Slots - 1
    BY <1>0, <1>1
  <1> QED
    BY <1>2, <1>3, <1>5, <1>6, <1>7 DEF ArrayInv
LEMMA PtlCalls ==
  ASSUME NEW t \in Threads
  PROVE  /\ Ptl!CallLock(t) => CallLock(t)
         /\ Ptl!PosixLock(t) => PosixLock(t)
         /\ Ptl!PosixTryLock(t) => PosixTryLock(t)
         /\ Ptl!PosixUnlock(t) => PosixUnlock(t)
         /\ Ptl!CondTimedwait(t) => CondTimedwait(t)
         /\ Ptl!CondSignal(t) => CondSignal(t)
         /\ Ptl!CondBroadcast(t) => CondBroadcast(t)
         /\ \A p, q : Ptl!Step(t, p, q) => Step(t, p, q)
         /\ \A p, q : Ptl!Read(t, p, q) => Step(t, p, q) /\ lk' = lk /\ nd' = nd /\ loc' = loc
         /\ Ptl!After(t) = After(t)
  <1>1. Ptl!CallLock(t) => CallLock(t)
    BY DEF Ptl!CallLock, CallLock, Ptl!Read, Read, Ptl!Step, Step, Ptl!mem, mem
  <1>2. Ptl!PosixLock(t) => PosixLock(t)
    BY DEF Ptl!PosixLock, PosixLock, Ptl!mem, mem
  <1>3. Ptl!PosixTryLock(t) => PosixTryLock(t)
    BY DEF Ptl!PosixTryLock, PosixTryLock, Ptl!mem, mem
  <1>4. Ptl!PosixUnlock(t) => PosixUnlock(t)
    BY DEF Ptl!PosixUnlock, PosixUnlock, Ptl!mem, mem
  <1>5. \A u : Ptl!RealWake(u) <=> RealWake(u)
    BY DEF Ptl!RealWake, RealWake, Ptl!Read, Read, Ptl!Step, Step, Ptl!mem, mem
  <1>6. Ptl!CondTimedwait(t) => CondTimedwait(t)
    BY <1>5, Zenon DEF Ptl!CondTimedwait, CondTimedwait, Ptl!CallWait, CallWait, Ptl!RealWait, RealWait,
                Ptl!RealReturn, RealReturn, Ptl!WaitPosixUnlock, WaitPosixUnlock, Ptl!mem, mem
  <1>7. Ptl!CondSignal(t) => CondSignal(t)
    BY <1>5 DEF Ptl!CondSignal, CondSignal
  <1>8. Ptl!CondBroadcast(t) => CondBroadcast(t)
    BY DEF Ptl!CondBroadcast, CondBroadcast, Ptl!mem, mem
  <1>9. \A p, q : Ptl!Step(t, p, q) => Step(t, p, q)
    BY DEF Ptl!Step, Step
  <1>10. \A p, q : Ptl!Read(t, p, q) => Step(t, p, q) /\ lk' = lk /\ nd' = nd /\ loc' = loc
    BY DEF Ptl!Read, Ptl!Step, Step, Ptl!mem
  <1>11. Ptl!After(t) = After(t)
    BY DEF Ptl!After, After
  <1> QED
    BY <1>1, <1>2, <1>3, <1>4, <1>6, <1>7, <1>8, <1>9, <1>10, <1>11


LEMMA PtlCalls2 ==
  ASSUME NEW t \in Threads
  PROVE  /\ Ptl!CallWait(t) => CallWait(t)
         /\ Ptl!RealWait(t) => RealWait(t)
         /\ Ptl!RealWake(t) => RealWake(t)
         /\ Ptl!RealReturn(t) => RealReturn(t)
         /\ Ptl!WaitPosixUnlock(t) => WaitPosixUnlock(t)
  BY DEF Ptl!CallWait, CallWait, Ptl!RealWait, RealWait, Ptl!RealWake, RealWake, Ptl!Read, Read,
         Ptl!Step, Step, Ptl!RealReturn, RealReturn, Ptl!WaitPosixUnlock, WaitPosixUnlock, Ptl!mem, mem

-----------------------------------------------------------------------------
(* partitioned.c, with tickets that do not leave the positive integers.      *)

\* A call in progress that still takes a ticket.
Needs(t) ==
  \/ pc[t] \in {"lock", "try", "trylock"}
  \/ t \in inWait /\ pc[t] \notin {"spin", "posix"}

Needing == {t \in Threads : Needs(t)}

PtlWaits(t) == pc[t] \in {"spin", "trywait"}

\* g is the ticket that may go or has the lock; the tickets behind it that have
\* been handed out are those of the threads that wait, trylocks among them.
PtlAt(g) ==
  /\ lk.grants[g % 2] = g /\ lk.grants[(g + 1) % 2] <= g
  /\ \A t \in Threads : Hold(t) => lk.owner_ticket = g
  /\ g + Held <= lk.request
  /\ \A t \in Threads : PtlWaits(t) => loc[t] \in (g + Held)..(lk.request - 1)
  /\ \A t, u \in Threads : PtlWaits(t) /\ PtlWaits(u) /\ loc[t] = loc[u] => t = u
  /\ \A k \in (g + Held)..(lk.request - 1) : \E t \in Threads : PtlWaits(t) /\ loc[t] = k
  /\ \A i, j \in 1..Len(order) : i < j => loc[order[i]] < loc[order[j]]

PtlBudget ==
  /\ lk.request + Cardinality(Needing) <= TicketCap
  /\ \A t \in Threads : pc[t] \in {"condwait", "waiting", "woken", "unwait"} => t \in inWait

PtlInv ==
  /\ OneHolder /\ OrderInv /\ PtlBudget
  /\ loc = [t \in Threads |-> loc[t]]
  /\ lk \in [request : Nat, owner_ticket : Nat, grants : [{0, 1} -> Nat]]
  /\ \A t \in Threads : Enqueued(t) => pc[t] = "spin"
  /\ \E g \in Nat : PtlAt(g)

LEMMA NeedingFinite ==
  /\ IsFiniteSet(Needing) /\ Cardinality(Needing) \in Nat
  /\ IsFiniteSet(Needing') /\ Cardinality(Needing') \in Nat
  <1>1. IsFiniteSet(Threads) /\ Needing \subseteq Threads /\ Needing' \subseteq Threads
    BY FlatLocksAssumption DEF Needing
  <1> QED
    BY <1>1, FS_Subset, FS_CardinalityType

LEMMA BudgetKept ==
  ASSUME PtlBudget, lk.request \in Nat, TicketCap \in Nat, lk'.request = lk.request, NEW t \in Threads,
         \A u \in Threads \ {t} : Needs(u)' => Needs(u),
         Needs(t)' => Needs(t) \/ Ptl!Room
  PROVE  lk'.request + Cardinality(Needing') <= TicketCap
  <1>1. CASE Needing' \subseteq Needing
    <2>1. Cardinality(Needing') <= Cardinality(Needing)
      BY <1>1, NeedingFinite, FS_Subset
    <2> QED
      BY <2>1, NeedingFinite DEF PtlBudget
  <1>2. CASE ~(Needing' \subseteq Needing)
    <2> DEFINE B == {u \in Threads : pc[u] \in {"lock", "try", "trylock"} \/ u \in inWait}
    <2>1. Ptl!Room /\ Needing' \subseteq Needing \cup {t}
      BY <1>2 DEF Needing
    <2>2. lk.request + Cardinality(B) < TicketCap /\ IsFiniteSet(B) /\ Cardinality(B) \in Nat
      <3>1. lk.request + Cardinality(B) < TicketCap
        <4>1. Ptl!Cardinality(B) = Cardinality(B)
          BY DEF Ptl!Cardinality, Cardinality
        <4>2. lk.request + Ptl!Cardinality(B) < TicketCap
          BY <2>1, Zenon DEF Ptl!Room
        <4> HIDE DEF B
        <4> QED
          BY <4>1, <4>2
      <3>2. IsFiniteSet(Threads) /\ B \subseteq Threads
        BY FlatLocksAssumption
      <3>3. IsFiniteSet(B) /\ Cardinality(B) \in Nat
        BY <3>2, FS_Subset, FS_CardinalityType
      <3> QED
        BY <3>1, <3>3
    <2>3. Needing \subseteq B
      BY DEF Needing, Needs
    <2> HIDE DEF B
    <2>4. Cardinality(Needing) <= Cardinality(B)
      BY <2>2, <2>3, FS_Subset
    <2>5. IsFiniteSet(Needing \cup {t}) /\ Cardinality(Needing \cup {t}) <= Cardinality(Needing) + 1
          /\ Cardinality(Needing \cup {t}) \in Nat
      <3>1. /\ IsFiniteSet(Needing \cup {t})
            /\ Cardinality(Needing \cup {t})
                 = IF t \in Needing THEN Cardinality(Needing) ELSE Cardinality(Needing) + 1
        BY NeedingFinite, FS_AddElement
      <3> QED
        BY <3>1, NeedingFinite
    <2>6. Cardinality(Needing') <= Cardinality(Needing \cup {t})
      BY <2>1, <2>5, FS_Subset
    <2> QED
      BY <2>2, <2>4, <2>5, <2>6, NeedingFinite
  <1> QED
    BY <1>1, <1>2

LEMMA BudgetSpent ==
  ASSUME PtlBudget, lk.request \in Nat, TicketCap \in Nat, NEW t \in Threads, Needs(t), ~Needs(t)',
         \A u \in Threads \ {t} : Needs(u)' => Needs(u)
  PROVE  /\ lk.request + 1 <= TicketCap
         /\ lk'.request = lk.request + 1 => lk'.request + Cardinality(Needing') <= TicketCap
  <1>1. t \in Needing /\ Needing' \subseteq Needing \ {t}
    BY DEF Needing
  <1>2. IsFiniteSet(Needing \ {t}) /\ Cardinality(Needing \ {t}) = Cardinality(Needing) - 1
    BY <1>1, NeedingFinite, FS_RemoveElement
  <1>3. Cardinality(Needing') <= Cardinality(Needing \ {t})
    BY <1>1, <1>2, FS_Subset
  <1> QED
    BY <1>2, <1>3, NeedingFinite DEF PtlBudget

LEMMA PtlWrapped ==
  ASSUME ApiInv, PtlInv, NEW t \in Threads, lk' = lk,
         \/ (Ptl!Room /\ CallLock(t)) \/ PosixLock(t) \/ PosixTryLock(t) \/ PosixUnlock(t)
         \/ (Ptl!Room /\ CallWait(t)) \/ RealWait(t) \/ RealWake(t) \/ RealReturn(t) \/ WaitPosixUnlock(t)
  PROVE  PtlBudget'
  <1>1. PtlBudget /\ lk.request \in Nat /\ TicketCap \in Nat /\ lk'.request = lk.request
    BY FlatLocksAssumption DEF PtlInv
  <1>2. PICK q : pc' = [pc EXCEPT ![t] = q]
    BY DEF CallLock, PosixLock, PosixTryLock, PosixUnlock, CallWait, RealWait, RealWake, RealReturn,
           WaitPosixUnlock, Read, Step
  <1>3. pc'[t] = q /\ \A u \in Threads \ {t} : pc'[u] = pc[u]
    BY <1>2, AtPc DEF ApiInv
  <1>4. \A u \in Threads \ {t} : u \in inWait' <=> u \in inWait
    BY DEF CallLock, PosixLock, PosixTryLock, PosixUnlock, CallWait, RealWait, RealWake, RealReturn,
           WaitPosixUnlock, Read, Step
  <1>5. \A u \in Threads \ {t} : Needs(u)' <=> Needs(u)
    BY <1>3, <1>4 DEF Needs
  <1>6. /\ Needs(t)' => Needs(t) \/ Ptl!Room
        /\ pc'[t] \in {"condwait", "waiting", "woken", "unwait"} => t \in inWait'
    <2>1. t \in inWait => pc[t] \notin {"idle", "cs", "tryposix"}
      BY DEF ApiInv
    <2>2. pc[t] \in {"condwait", "waiting", "woken", "unwait"} => t \in inWait
      BY <1>1 DEF PtlBudget
    <2>3. CASE Ptl!Room /\ CallLock(t)
      BY <1>3, <2>1, <2>3, AtPc DEF CallLock, Read, Step, Needs, ApiInv
    <2>4. CASE PosixLock(t) \/ PosixTryLock(t) \/ PosixUnlock(t)
      BY <1>3, <2>1, <2>4, AtPc DEF PosixLock, PosixTryLock, PosixUnlock, Needs, ApiInv
    <2>5. CASE Ptl!Room /\ CallWait(t)
      BY <1>3, <2>5, AtPc DEF CallWait, Needs, ApiInv
    <2>6. CASE RealWait(t) \/ RealWake(t) \/ RealReturn(t) \/ WaitPosixUnlock(t)
      BY <1>3, <2>2, <2>6, AtPc DEF RealWait, RealWake, RealReturn, WaitPosixUnlock, Read, Step, Needs, ApiInv
    <2> QED
      BY <2>3, <2>4, <2>5, <2>6
  <1>7. lk'.request + Cardinality(Needing') <= TicketCap
    BY <1>1, <1>5, <1>6, BudgetKept
  <1>8. \A u \in Threads : pc'[u] \in {"condwait", "waiting", "woken", "unwait"} => u \in inWait'
    BY <1>1, <1>3, <1>4, <1>6 DEF PtlBudget
  <1> QED
    BY <1>7, <1>8 DEF PtlBudget

LEMMA PtlStep ==
  ASSUME ApiInv, PtlInv, algo = "partitioned", TicketCap < SignBit, NEW t \in Threads, Calls(t), Ordered(t)
  PROVE  PtlInv' /\ InTurn(t) /\ (Allowed(t) \/ Wrapped(t))
  <1> DEFINE n == Len(order)
  <1>0. algo \in FifoAlgos /\ TicketCap \in Nat
    BY FlatLocksAssumption DEF FifoAlgos
  <1>1. /\ n \in Nat /\ Held \in {0, 1} /\ OneHolder /\ OrderInv /\ PtlBudget /\ order \in Seq(Threads)
        /\ loc = [u \in Threads |-> loc[u]]
        /\ lk \in [request : Nat, owner_ticket : Nat, grants : [{0, 1} -> Nat]]
        /\ \A u \in Threads : Enqueued(u) => pc[u] = "spin"
    BY QueueRoom DEF PtlInv, OrderInv
  <1>2. \/ Wrapped(t) /\ PtlBudget'
        \/ Ptl!TakeTicket(t, "lock", "spin") \/ Ptl!TakeTicket(t, "trylock", "trywait")
        \/ Ptl!AwaitGrant(t, "spin", "posix") \/ Ptl!AwaitGrant(t, "trywait", "tryposix")
        \/ Ptl!TryRead(t) \/ Ptl!TryCompare(t) \/ Ptl!GrantNext(t)
    <2>1. Ptl!partitioned(t)
      BY DEF Calls, McsAlgos, ClhAlgos
    <2>2. \/ (Ptl!Room /\ CallLock(t)) \/ PosixLock(t) \/ PosixTryLock(t) \/ PosixUnlock(t)
          \/ (Ptl!Room /\ CallWait(t)) \/ RealWait(t) \/ RealWake(t) \/ RealReturn(t) \/ WaitPosixUnlock(t)
          \/ Ptl!TakeTicket(t, "lock", "spin") \/ Ptl!TakeTicket(t, "trylock", "trywait")
          \/ Ptl!AwaitGrant(t, "spin", "posix") \/ Ptl!AwaitGrant(t, "trywait", "tryposix")
          \/ Ptl!TryRead(t) \/ Ptl!TryCompare(t) \/ Ptl!GrantNext(t)
      BY <2>1, PtlCalls, PtlCalls2, Zenon
      DEF Ptl!partitioned, Ptl!partitioned_mutex_lock, Ptl!partitioned_mutex_trylock,
          Ptl!partitioned_mutex_unlock, Ptl!partitioned_cond_timedwait
    <2>3. ASSUME \/ (Ptl!Room /\ CallLock(t)) \/ PosixLock(t) \/ PosixTryLock(t) \/ PosixUnlock(t)
                 \/ (Ptl!Room /\ CallWait(t)) \/ RealWait(t) \/ RealWake(t) \/ RealReturn(t) \/ WaitPosixUnlock(t)
          PROVE  Wrapped(t) /\ PtlBudget'
      <3>1. Wrapped(t)
        BY <2>3, Zenon DEF Wrapped, CondTimedwait
      <3>2. lk' = lk
        BY <3>1, <1>1, WrappedKeeps
      <3> QED
        BY <2>3, <3>1, <3>2, PtlWrapped
    <2> QED
      BY <2>2, <2>3, Zenon
  <1>3. /\ {"posix", "tryposix", "unlock"} \subseteq HeldPcs /\ "unlock" \in UnlockPcs
        /\ \A p \in {"idle", "try", "trylock", "trywait", "lock", "spin", After(t)} : p \notin HeldPcs
        /\ {"try", "trylock", "trywait"} \subseteq TryPcs
    BY LockPcs DEF HeldPcs, UnlockPcs, TryPcs, After
  <1>4. /\ Legal(t, "lock", "spin") /\ Legal(t, "spin", "posix") /\ Legal(t, "idle", "try")
        /\ Legal(t, "try", "trylock") /\ Legal(t, "try", "idle") /\ Legal(t, "trylock", "trywait")
        /\ Legal(t, "trywait", "tryposix") /\ Legal(t, "unlock", After(t))
    BY <1>3, LockPcs DEF Legal
  <1>5. \A p : p \in TryPcs \cup {"idle", "tryposix", "lock"} \cup UnlockPcs \cup RestPcs => ~(LockPc(p) /\ p # "lock")
    BY DEF LockPc, WrapperPcs, RestPcs
  <1>6. PICK g \in Nat : PtlAt(g)
    BY DEF PtlInv
  <1>7. /\ lk.request \in Nat /\ lk.owner_ticket \in Nat /\ lk.grants[0] \in Nat /\ lk.grants[1] \in Nat
        /\ lk.request <= TicketCap /\ Ptl!PTL_SLOTS = 2
    <2>1. lk.request \in Nat /\ lk.owner_ticket \in Nat /\ lk.grants[0] \in Nat /\ lk.grants[1] \in Nat
      BY <1>1
    <2>2. Cardinality(Needing) \in Nat
      BY NeedingFinite
    <2>3. lk.request + Cardinality(Needing) <= TicketCap
      BY <1>1 DEF PtlBudget
    <2>4. lk.request <= TicketCap
      BY <1>0, <2>1, <2>2, <2>3
    <2> QED
      BY <2>1, <2>4 DEF Ptl!PTL_SLOTS
  <1>8. \A u \in inWait : pc[u] \notin TryPcs \cup {"idle", "cs", "tryposix"}
    BY DEF ApiInv
  <1>9. CASE Wrapped(t) /\ PtlBudget'
    <2>1. /\ lk' = lk /\ nd' = nd /\ loc' = loc /\ OneHolder'
          /\ \A u \in Threads : Around(u) /\ (Hold(u)' <=> Hold(u))
      BY <1>1, <1>9, WrappedKeeps
    <2>2. order' = order /\ OrderInv' /\ InTurn(t)
      BY <1>1, <1>9, OrderWrapped
    <2>3. Held' = Held
      BY <2>1 DEF Held
    <2>4. \A u \in Threads : \A p \in {"spin", "trywait"} : pc'[u] = p <=> pc[u] = p
      BY <2>1 DEF Around, RestPcs
    <2>5. \A u \in Threads : Enqueued(u)' => pc'[u] = "spin"
      <3> TAKE u \in Threads
      <3>1. CASE pc'[u] = pc[u]
        BY <1>1, <3>1 DEF Enqueued
      <3>2. CASE pc'[u] # pc[u]
        <4>1. pc'[u] \in {"cs", "unlock", "lock", "waiting", "woken", "unwait"}
          BY <2>1, <3>2 DEF Around
        <4>2. ~Enqueued(u)'
          BY <4>1 DEF Enqueued, LockPc, WrapperPcs, UnlockPcs
        <4> QED
          BY <4>2
      <3> QED
        BY <3>1, <3>2
    <2>6. \A u \in Threads : PtlWaits(u)' <=> PtlWaits(u)
      BY <2>4 DEF PtlWaits
    <2>7. PtlAt(g)'
      BY <1>6, <2>1, <2>2, <2>3, <2>6 DEF PtlAt
    <2> QED
      BY <1>1, <1>9, <2>1, <2>2, <2>5, <2>7 DEF PtlInv
  \* What a step of an algorithm does to the rest.
  <1>10. ASSUME NEW p, NEW q, Step(t, p, q), Legal(t, p, q), q # "condwait" \/ t \in inWait,
                Needs(t)' => Needs(t) \/ Ptl!Room, q \in {"lock", "spin"} \/ ~LockPc(q)
         PROVE  /\ \A u \in Threads : Enqueued(u)' => pc'[u] = "spin"
                /\ lk'.request = lk.request => PtlBudget'
                /\ Needs(t) /\ ~Needs(t)' =>
                     /\ lk.request + 1 <= TicketCap
                     /\ lk'.request = lk.request + 1 => PtlBudget'
                /\ \A u \in Threads \ {t} : PtlWaits(u)' <=> PtlWaits(u)
                /\ PtlWaits(t) <=> p \in {"spin", "trywait"}
                /\ PtlWaits(t)' <=> q \in {"spin", "trywait"}
    <2>1. /\ pc[t] = p /\ pc'[t] = q /\ \A u \in Threads \ {t} : pc'[u] = pc[u]
      BY <1>10, StepMoves
    <2>2. inWait' = inWait
      BY <1>10 DEF Step
    <2>3. \A u \in Threads : Enqueued(u)' => pc'[u] = "spin"
      BY <1>1, <1>10, <2>1 DEF Enqueued
    <2>4. \A u \in Threads \ {t} : Needs(u)' <=> Needs(u)
      BY <2>1, <2>2 DEF Needs
    <2>5. \A u \in Threads : pc'[u] \in {"condwait", "waiting", "woken", "unwait"} => u \in inWait'
      <3>1. ~LockPc(q) \/ q \in {"lock", "spin"}
        BY <1>10
      <3>2. pc'[t] \in {"waiting", "woken", "unwait"} => FALSE
        BY <1>10, <2>1 DEF Legal, LockPc, WrapperPcs, UnlockPcs, TryPcs, ReleasedPcs, After
      <3> QED
        BY <1>1, <1>10, <2>1, <2>2, <3>2 DEF PtlBudget
    <2>6. lk'.request = lk.request => PtlBudget'
      BY <1>0, <1>1, <1>7, <1>10, <2>4, <2>5, BudgetKept DEF PtlBudget
    <2>7. ASSUME Needs(t), ~Needs(t)'
          PROVE  /\ lk.request + 1 <= TicketCap
                 /\ lk'.request = lk.request + 1 => PtlBudget'
      BY <1>0, <1>1, <1>7, <2>4, <2>5, <2>7, BudgetSpent DEF PtlBudget
    <2>8. /\ \A u \in Threads \ {t} : PtlWaits(u)' <=> PtlWaits(u)
          /\ PtlWaits(t) <=> p \in {"spin", "trywait"}
          /\ PtlWaits(t)' <=> q \in {"spin", "trywait"}
      BY <2>1 DEF PtlWaits
    <2> QED
      BY <2>3, <2>6, <2>7, <2>8
  \* A ticket is taken.
  <1>11. ASSUME NEW p, NEW q, Ptl!TakeTicket(t, p, q),
                (p = "lock" /\ q = "spin") \/ (p = "trylock" /\ q = "trywait")
         PROVE  PtlInv' /\ InTurn(t) /\ Allowed(t)
    <2>1. /\ Step(t, p, q) /\ loc' = [loc EXCEPT ![t] = lk.request]
          /\ lk' = [lk EXCEPT !.request = Ptl!Unsigned(lk.request + 1)]
      BY <1>11, PtlCalls DEF Ptl!TakeTicket
    <2>2. /\ pc[t] = p /\ pc'[t] = q /\ \A u \in Threads \ {t} : pc'[u] = pc[u]
          /\ \A u \in Threads \ {t} : Enqueued(u)' <=> Enqueued(u)
          /\ \A u \in Threads : Hold(u)' <=> Hold(u)
          /\ ~Hold(t) /\ Allowed(t) /\ OneHolder' /\ Held' = Held
      BY <1>1, <1>3, <1>4, <1>11, <2>1, QueueMoves
    <2>3. Needs(t) /\ ~Needs(t)'
      <3>1. inWait' = inWait
        BY <2>1 DEF Step
      <3>2. p = "trylock" => t \notin inWait
        BY <1>3, <1>8, <2>2
      <3> QED
        BY <1>11, <2>2, <3>1, <3>2 DEF Needs
    <2>4. /\ \A u \in Threads : Enqueued(u)' => pc'[u] = "spin"
          /\ lk.request + 1 <= TicketCap /\ (lk'.request = lk.request + 1 => PtlBudget')
          /\ \A u \in Threads \ {t} : PtlWaits(u)' <=> PtlWaits(u)
          /\ ~PtlWaits(t) /\ PtlWaits(t)'
      <3>1. q \in {"lock", "spin"} \/ ~LockPc(q)
        BY <1>3, <1>11 DEF LockPc
      <3>2. Legal(t, p, q) /\ q # "condwait"
        BY <1>4, <1>11
      <3> QED
        BY <1>10, <1>11, <2>1, <2>3, <3>1, <3>2
    <2>5. Ptl!Unsigned(lk.request + 1) = lk.request + 1
      <3>1. PICK M \in Nat : M = 2 * SignBit /\ lk.request + 1 < M
        BY <1>0, <1>7, <2>4, FlatLocksAssumption
      <3>2. (lk.request + 1) % M = lk.request + 1
        BY <1>7, <3>1
      <3> QED
        BY <3>1, <3>2 DEF Ptl!Unsigned
    <2>6. /\ lk' \in [request : Nat, owner_ticket : Nat, grants : [{0, 1} -> Nat]]
          /\ lk'.request = lk.request + 1 /\ lk'.grants = lk.grants /\ lk'.owner_ticket = lk.owner_ticket
      BY <1>1, <1>7, <2>1, <2>5
    <2>7. /\ loc' = [u \in Threads |-> loc'[u]] /\ loc'[t] = lk.request
          /\ \A u \in Threads \ {t} : loc'[u] = loc[u]
      BY <1>1, <2>1
    <2>8. /\ OrderInv' /\ InTurn(t)
          /\ \A i, j \in 1..Len(order') : i < j => loc'[order'[i]] < loc'[order'[j]]
      <3>0. \A i \in 1..n : order[i] \in Threads /\ Enqueued(order[i])
        BY <1>1, SeqLength DEF OrderInv, At1
      <3>1. \A i \in 1..n : order[i] \in Threads \ {t} /\ PtlWaits(order[i])
        BY <1>1, <1>11, <2>2, <2>4, <3>0 DEF PtlWaits
      <3>2. \A i, j \in 1..n : i < j => loc'[order[i]] < loc'[order[j]]
        BY <1>6, <2>7, <3>1 DEF PtlAt
      <3>3. CASE p = "lock"
        <4>1. Enqueued(t)' /\ ~Enqueued(t)
          BY <1>11, <2>2, <3>3, LockPcs DEF Enqueued
        <4>2. /\ Len(order') = n + 1 /\ OrderInv' /\ InTurn(t) /\ order'[n + 1] = t
              /\ \A i \in 1..n : order'[i] = order[i]
          BY <1>0, <1>1, <2>2, <3>3, <4>1, OrderJoin
        <4>3. \A i \in 1..n : loc'[order[i]] < lk.request
          BY <1>1, <1>6, <1>7, <2>7, <3>1 DEF PtlAt
        <4>4. ASSUME NEW i \in 1..Len(order'), NEW j \in 1..Len(order'), i < j
              PROVE  loc'[order'[i]] < loc'[order'[j]]
          <5>1. CASE j \in 1..n
            <6>1. i \in 1..n
              BY <1>1, <4>4, <5>1
            <6> QED
              BY <3>2, <4>2, <4>4, <5>1, <6>1
          <5>2. CASE j = n + 1
            <6>1. i \in 1..n
              BY <1>1, <4>2, <4>4, <5>2
            <6> QED
              BY <2>7, <4>2, <4>3, <5>2, <6>1
          <5> QED
            BY <1>1, <4>2, <5>1, <5>2
        <4> QED
          BY <4>2, <4>4
      <3>4. CASE p = "trylock"
        <4>1. order' = order /\ OrderInv' /\ InTurn(t)
          BY <1>1, <1>3, <1>5, <1>11, <2>1, <3>4, OrderAside
        <4> QED
          BY <3>2, <4>1
      <3> QED
        BY <1>11, <3>3, <3>4
    <2>9. PtlAt(g)'
      <3>1. /\ lk'.grants[g % 2] = g /\ lk'.grants[(g + 1) % 2] <= g
            /\ \A u \in Threads : Hold(u)' => lk'.owner_ticket = g
            /\ g + Held' <= lk'.request
        BY <1>1, <1>6, <1>7, <2>2, <2>6 DEF PtlAt
      <3>2. \A u \in Threads : PtlWaits(u)' => loc'[u] \in (g + Held')..(lk'.request - 1)
        BY <1>1, <1>6, <1>7, <2>2, <2>4, <2>6, <2>7 DEF PtlAt
      <3>3. \A u, v \in Threads : PtlWaits(u)' /\ PtlWaits(v)' /\ loc'[u] = loc'[v] => u = v
        <4>1. \A u \in Threads \ {t} : PtlWaits(u) => loc[u] # lk.request
          BY <1>1, <1>6, <1>7 DEF PtlAt
        <4> QED
          BY <1>6, <2>4, <2>7, <4>1 DEF PtlAt
      <3>4. ASSUME NEW k \in (g + Held')..(lk'.request - 1)
            PROVE  \E u \in Threads : PtlWaits(u)' /\ loc'[u] = k
        <4>1. CASE k = lk.request
          BY <2>4, <2>7, <4>1
        <4>2. CASE k # lk.request
          <5>1. k \in (g + Held)..(lk.request - 1)
            BY <1>1, <1>7, <2>2, <2>6, <4>2
          <5>2. PICK u \in Threads : PtlWaits(u) /\ loc[u] = k
            BY <1>6, <5>1 DEF PtlAt
          <5> QED
            BY <2>4, <2>7, <5>2
        <4> QED
          BY <4>1, <4>2
      <3> QED
        BY <2>8, <3>1, <3>2, <3>3, <3>4 DEF PtlAt
    <2> QED
      BY <2>2, <2>4, <2>6, <2>7, <2>8, <2>9 DEF PtlInv
  \* It comes up.
  <1>12. ASSUME NEW p, NEW q, Ptl!AwaitGrant(t, p, q),
                (p = "spin" /\ q = "posix") \/ (p = "trywait" /\ q = "tryposix")
         PROVE  PtlInv' /\ InTurn(t) /\ Allowed(t)
    <2>1. /\ Step(t, p, q) /\ loc' = [loc EXCEPT ![t] = NULL] /\ lk.grants[loc[t] % 2] = loc[t]
          /\ lk' = [lk EXCEPT !.owner_ticket = loc[t]]
      BY <1>7, <1>12, PtlCalls DEF Ptl!AwaitGrant
    <2>2. /\ pc[t] = p /\ pc'[t] = q /\ \A u \in Threads \ {t} : pc'[u] = pc[u]
          /\ \A u \in Threads \ {t} : Enqueued(u)' <=> Enqueued(u)
          /\ \A u \in Threads \ {t} : Hold(u)' <=> Hold(u)
          /\ Allowed(t) /\ Held' = 1 /\ (Held = 0 => OneHolder')
      BY <1>1, <1>3, <1>4, <1>12, <2>1, QueueMoves
    <2>3. PtlWaits(t)
      BY <1>12, <2>2 DEF PtlWaits
    <2>4. loc[t] = g /\ Held = 0 /\ loc[t] \in Nat /\ g < lk.request
      <3>1. loc[t] \in (g + Held)..(lk.request - 1)
        BY <1>6, <2>3 DEF PtlAt
      <3>2. PICK x \in Nat : x = loc[t] /\ x >= g + Held /\ x < lk.request
        BY <1>1, <1>7, <3>1
      <3>3. CASE x % 2 = g % 2
        BY <1>1, <1>6, <2>1, <3>2, <3>3 DEF PtlAt
      <3>4. CASE x % 2 # g % 2
        <4>1. x % 2 = (g + 1) % 2
          BY <3>2, <3>4
        <4>2. x <= g
          BY <1>6, <2>1, <3>2, <4>1 DEF PtlAt
        <4>3. x = g
          BY <1>1, <3>2, <4>2
        <4> QED
          BY <3>4, <4>3
      <3> QED
        BY <3>3, <3>4
    <2>5. /\ \A u \in Threads : Enqueued(u)' => pc'[u] = "spin"
          /\ (lk'.request = lk.request => PtlBudget')
          /\ \A u \in Threads \ {t} : PtlWaits(u)' <=> PtlWaits(u)
          /\ ~PtlWaits(t)'
      <3>1. q \in {"lock", "spin"} \/ ~LockPc(q)
        BY <1>12 DEF LockPc, WrapperPcs
      <3>2. Legal(t, p, q) /\ q # "condwait" /\ q \notin {"spin", "trywait"}
        BY <1>4, <1>12
      <3>3. ~Needs(t)'
        <4>1. inWait' = inWait
          BY <2>1 DEF Step
        <4>2. p = "trywait" => t \notin inWait
          BY <1>3, <1>8, <2>2
        <4> QED
          BY <1>12, <2>2, <4>1, <4>2 DEF Needs
      <3> QED
        BY <1>10, <1>12, <2>1, <3>1, <3>2, <3>3
    <2>6. /\ lk' \in [request : Nat, owner_ticket : Nat, grants : [{0, 1} -> Nat]]
          /\ lk'.request = lk.request /\ lk'.grants = lk.grants /\ lk'.owner_ticket = g
      BY <1>1, <2>1, <2>4
    <2>7. /\ loc' = [u \in Threads |-> loc'[u]]
          /\ \A u \in Threads \ {t} : loc'[u] = loc[u]
      BY <1>1, <2>1
    <2>8. /\ OrderInv' /\ InTurn(t)
          /\ \A i, j \in 1..Len(order') : i < j => loc'[order'[i]] < loc'[order'[j]]
      <3>0. \A i \in 1..n : order[i] \in Threads /\ Enqueued(order[i])
        BY <1>1, SeqLength DEF OrderInv, At1
      <3>1. \A i \in 1..n : order[i] \in Threads /\ PtlWaits(order[i])
        BY <1>1, <3>0 DEF PtlWaits
      <3>2. \A i, j \in 1..n : i < j => loc[order[i]] < loc[order[j]]
        BY <1>6 DEF PtlAt
      <3>3. CASE p = "spin"
        <4>1. Enqueued(t)
          BY <2>2, <3>3, LockPcs DEF Enqueued
        <4>2. PICK i \in 1..n : order[i] = t
          BY <1>1, <4>1 DEF OrderInv, At1
        <4>3. i = 1
          <5>1. CASE i # 1
            <6>1. 1 \in 1..n /\ 1 < i
              BY <1>1, <5>1
            <6>2. loc[order[1]] < g
              BY <2>4, <3>2, <4>2, <6>1
            <6>3. loc[order[1]] \in (g + Held)..(lk.request - 1)
              BY <1>6, <3>1, <6>1 DEF PtlAt
            <6> QED
              BY <1>1, <1>7, <6>2, <6>3
          <5> QED
            BY <5>1
        <4>4. /\ n \in Nat \ {0} /\ t = order[1] /\ Len(order') = n - 1 /\ OrderInv' /\ InTurn(t)
              /\ \A j \in 1..Len(order') : order'[j] = order[j + 1] /\ j + 1 \in 1..n
          BY <1>0, <1>1, <1>12, <2>2, <3>3, <4>1, <4>2, <4>3, OrderGrant
        <4>5. \A j \in 1..Len(order') : order'[j] \in Threads \ {t}
          <5> TAKE j \in 1..Len(order')
          <5>1. order[j + 1] # order[1] /\ j + 1 \in 1..n
            <6>1. j + 1 # 1 /\ j + 1 \in 1..n /\ 1 \in 1..n
              BY <4>4
            <6> QED
              BY <1>1, <6>1 DEF OrderInv, Distinct
          <5> QED
            BY <3>1, <4>4, <5>1
        <4>6. ASSUME NEW j \in 1..Len(order'), NEW k \in 1..Len(order'), j < k
              PROVE  loc'[order'[j]] < loc'[order'[k]]
          <5>1. loc'[order'[j]] = loc[order[j + 1]] /\ loc'[order'[k]] = loc[order[k + 1]]
            BY <2>7, <4>4, <4>5
          <5>2. j + 1 < k + 1 /\ j + 1 \in 1..n /\ k + 1 \in 1..n
            BY <4>4, <4>6
          <5>3. loc[order[j + 1]] < loc[order[k + 1]]
            BY <3>2, <5>2
          <5> QED
            BY <5>1, <5>3
        <4> QED
          BY <4>4, <4>6
      <3>4. CASE p = "trywait"
        <4>1. /\ order' = order /\ OrderInv' /\ InTurn(t)
              /\ \A i \in 1..n : order[i] \in Threads \ {t}
          BY <1>1, <1>3, <1>5, <1>12, <2>1, <3>4, OrderAside
        <4> QED
          BY <2>7, <3>2, <4>1
      <3> QED
        BY <1>12, <3>3, <3>4
    <2>9. PtlAt(g)'
      <3>1. /\ lk'.grants[g % 2] = g /\ lk'.grants[(g + 1) % 2] <= g
            /\ \A u \in Threads : Hold(u)' => lk'.owner_ticket = g
            /\ g + Held' <= lk'.request
        BY <1>1, <1>6, <1>7, <2>2, <2>4, <2>6 DEF PtlAt
      <3>2. \A u \in Threads : PtlWaits(u)' => loc'[u] \in (g + Held')..(lk'.request - 1)
        <4> TAKE u \in Threads
        <4> HAVE PtlWaits(u)'
        <4>1. u # t /\ PtlWaits(u) /\ loc'[u] = loc[u]
          BY <2>5, <2>7
        <4>2. loc[u] \in (g + Held)..(lk.request - 1) /\ loc[u] # g
          BY <1>6, <2>3, <2>4, <4>1 DEF PtlAt
        <4> QED
          BY <1>1, <1>7, <2>2, <2>4, <2>6, <4>1, <4>2
      <3>3. \A u, v \in Threads : PtlWaits(u)' /\ PtlWaits(v)' /\ loc'[u] = loc'[v] => u = v
        BY <1>6, <2>5, <2>7 DEF PtlAt
      <3>4. ASSUME NEW k \in (g + Held')..(lk'.request - 1)
            PROVE  \E u \in Threads : PtlWaits(u)' /\ loc'[u] = k
        <4>1. k \in (g + Held)..(lk.request - 1) /\ k # g
          BY <1>1, <1>7, <2>2, <2>4, <2>6
        <4>2. PICK u \in Threads : PtlWaits(u) /\ loc[u] = k
          BY <1>6, <4>1 DEF PtlAt
        <4> QED
          BY <2>4, <2>5, <2>7, <4>1, <4>2
      <3> QED
        BY <2>8, <3>1, <3>2, <3>3, <3>4 DEF PtlAt
    <2> QED
      BY <2>2, <2>4, <2>5, <2>6, <2>7, <2>8, <2>9 DEF PtlInv
  \* The first steps of a trylock.
  <1>13. ASSUME NEW p \in {"idle", "try"}, NEW q \in {"idle", "try", "trylock"},
                Step(t, p, q), Legal(t, p, q), lk' = lk, NEW x, loc' = [loc EXCEPT ![t] = x],
                p = "idle" => Ptl!Room
         PROVE  PtlInv' /\ InTurn(t) /\ Allowed(t)
    <2>1. /\ pc[t] = p /\ pc'[t] = q /\ \A u \in Threads \ {t} : pc'[u] = pc[u]
          /\ \A u \in Threads : Hold(u)' <=> Hold(u)
          /\ Allowed(t) /\ OneHolder' /\ Held' = Held
      BY <1>1, <1>3, <1>13, QueueMoves
    <2>2. /\ order' = order /\ OrderInv' /\ InTurn(t)
          /\ \A i \in 1..n : order[i] \in Threads \ {t}
      BY <1>1, <1>3, <1>5, <1>13, OrderAside
    <2>3. /\ loc' = [u \in Threads |-> loc'[u]]
          /\ \A u \in Threads \ {t} : loc'[u] = loc[u]
      BY <1>1, <1>13
    <2>4. /\ \A u \in Threads : Enqueued(u)' => pc'[u] = "spin"
          /\ PtlBudget'
          /\ \A u \in Threads \ {t} : PtlWaits(u)' <=> PtlWaits(u)
          /\ ~PtlWaits(t) /\ ~PtlWaits(t)'
      <3>1. ~LockPc(q) /\ q # "condwait" /\ {p, q} \cap {"spin", "trywait"} = {}
        BY <1>3, <1>13 DEF LockPc, WrapperPcs
      <3>2. Needs(t)' => Needs(t) \/ Ptl!Room
        BY <1>13, <2>1 DEF Needs
      <3> QED
        BY <1>10, <1>13, <3>1, <3>2
    <2>5. PtlAt(g)'
      <3>1. \A u \in Threads : PtlWaits(u)' => PtlWaits(u) /\ u # t /\ loc'[u] = loc[u]
        BY <2>3, <2>4
      <3>2. \A u \in Threads : PtlWaits(u) => PtlWaits(u)' /\ loc'[u] = loc[u]
        BY <2>3, <2>4
      <3> QED
        BY <1>6, <1>13, <2>1, <2>2, <2>3, <3>1, <3>2 DEF PtlAt
    <2> QED
      BY <1>1, <1>13, <2>1, <2>2, <2>3, <2>4, <2>5 DEF PtlInv
  <1>14. CASE Ptl!TryRead(t)
    <2>1. Ptl!Room /\ Step(t, "idle", "try") /\ loc' = [loc EXCEPT ![t] = lk.request] /\ lk' = lk
      BY <1>14, PtlCalls DEF Ptl!TryRead
    <2> QED
      BY <1>4, <1>13, <2>1
  <1>15. CASE Ptl!TryCompare(t)
    <2>1. /\ Step(t, "try", "trylock") \/ Step(t, "try", "idle")
          /\ lk' = lk /\ loc' = [loc EXCEPT ![t] = NULL]
      BY <1>15, PtlCalls DEF Ptl!TryCompare
    <2> QED
      BY <1>4, <1>13, <2>1
  <1>16. CASE Ptl!GrantNext(t)
    <2>1. /\ Step(t, "unlock", After(t)) /\ loc' = loc
          /\ LET new == Ptl!Signed(Ptl!Unsigned(lk.owner_ticket + 1))
             IN  lk' = Ptl!StoreGrant(lk, Ptl!Rem(new, 2), Ptl!Unsigned(new))
      BY <1>7, <1>16, PtlCalls DEF Ptl!GrantNext
    <2>2. /\ pc[t] = "unlock" /\ pc'[t] = After(t) /\ \A u \in Threads \ {t} : pc'[u] = pc[u]
          /\ \A u \in Threads \ {t} : Hold(u)' <=> Hold(u)
          /\ Hold(t) /\ ~Hold(t)' /\ Allowed(t) /\ OneHolder' /\ Held = 1 /\ Held' = 0
      BY <1>1, <1>3, <1>4, <2>1, QueueMoves
    <2>3. After(t) \in RestPcs /\ After(t) # "lock" /\ After(t) \notin {"posix", "spin", "trywait"}
      BY DEF After, RestPcs
    <2>4. order' = order /\ OrderInv' /\ InTurn(t)
      BY <1>1, <1>3, <1>5, <2>1, <2>3, OrderAside
    <2>5. lk.owner_ticket = g /\ g + 1 <= lk.request
      BY <1>6, <2>2 DEF PtlAt
    <2>6. lk' = [lk EXCEPT !.grants[(g + 1) % 2] = g + 1]
      <3>1. PICK M \in Nat, H \in Nat : M = 2 * SignBit /\ H = SignBit /\ M = 2 * H /\ TicketCap < H
        BY <1>0, FlatLocksAssumption
      <3>2. g + 1 < H /\ g + 1 < M /\ (g + 1) % M = g + 1
        BY <1>0, <1>7, <2>5, <3>1
      <3>3. Ptl!Unsigned(g + 1) = g + 1
        BY <3>1, <3>2 DEF Ptl!Unsigned
      <3>4. Ptl!Signed(g + 1) = g + 1
        BY <3>1, <3>2 DEF Ptl!Signed
      <3>5. Ptl!Rem(g + 1, 2) = (g + 1) % 2 /\ (g + 1) % 2 >= 0
        BY DEF Ptl!Rem
      <3>6. lk' = Ptl!StoreGrant(lk, (g + 1) % 2, g + 1)
        BY <2>1, <2>5, <3>3, <3>4, <3>5
      <3> QED
        BY <3>5, <3>6 DEF Ptl!StoreGrant
    <2>7. (g + 1) % 2 \in {0, 1} /\ g % 2 \in {0, 1} /\ (g + 1) % 2 # g % 2 /\ (g + 2) % 2 = g % 2
      OBVIOUS
    <2>8. /\ lk' \in [request : Nat, owner_ticket : Nat, grants : [{0, 1} -> Nat]]
          /\ lk'.request = lk.request /\ lk'.grants[(g + 1) % 2] = g + 1
          /\ lk'.grants[g % 2] = lk.grants[g % 2]
      <3>1. PICK c \in {0, 1}, d \in {0, 1} : c = (g + 1) % 2 /\ d = g % 2 /\ c # d
        BY <2>7
      <3>2. lk' = [lk EXCEPT !.grants[c] = g + 1] /\ g + 1 \in Nat
        BY <2>6, <3>1
      <3>3. /\ lk' \in [request : Nat, owner_ticket : Nat, grants : [{0, 1} -> Nat]]
            /\ lk'.request = lk.request /\ lk'.grants[c] = g + 1 /\ lk'.grants[d] = lk.grants[d]
        BY <1>1, <3>1, <3>2
      <3> QED
        BY <3>1, <3>3
    <2>9. /\ \A u \in Threads : Enqueued(u)' => pc'[u] = "spin"
          /\ PtlBudget'
          /\ \A u \in Threads : PtlWaits(u)' <=> PtlWaits(u)
      <3>1. ~LockPc(After(t)) /\ (After(t) # "condwait" \/ t \in inWait)
        BY DEF LockPc, WrapperPcs, After
      <3>2. Needs(t)' => Needs(t)
        <4>1. inWait' = inWait
          BY <2>1 DEF Step
        <4> QED
          BY <2>2, <4>1 DEF Needs, After
      <3>3. "unlock" \notin {"spin", "trywait"}
        OBVIOUS
      <3> QED
        BY <1>4, <1>10, <2>1, <2>3, <2>8, <3>1, <3>2, <3>3
    <2>10. PtlAt(g + 1)'
      <3>1. \A u \in Threads : ~Hold(u)'
        BY <2>2 DEF Held
      <3>2. lk'.grants[(g + 1) % 2] = g + 1 /\ lk'.grants[((g + 1) + 1) % 2] <= g + 1
        <4>1. (g + 1) + 1 = g + 2
          OBVIOUS
        <4>2. lk'.grants[g % 2] = g
          BY <1>6, <2>8 DEF PtlAt
        <4> QED
          BY <2>7, <2>8, <4>1, <4>2
      <3>3. (g + 1) + Held' = g + Held
        BY <2>2
      <3>4. (g + 1) + Held' <= lk'.request
        BY <2>2, <2>5, <2>8
      <3> QED
        BY <1>6, <2>1, <2>4, <2>8, <2>9, <3>1, <3>2, <3>3, <3>4 DEF PtlAt
    <2>11. g + 1 \in Nat
      OBVIOUS
    <2> QED
      BY <1>1, <2>1, <2>2, <2>4, <2>8, <2>9, <2>10, <2>11 DEF PtlInv
  <1> QED
    BY <1>2, <1>9, <1>11, <1>12, <1>14, <1>15, <1>16

LEMMA PtlInitial ==
  ASSUME order = <<>>, Ptl!Init
  PROVE  PtlInv
  <1>1. /\ pc = [t \in Threads |-> "idle"] /\ loc = [t \in Threads |-> NULL] /\ inWait = {}
        /\ lk = [request |-> 0, owner_ticket |-> 0, grants |-> [i \in 0 .. 1 |-> 0]]
    BY DEF Ptl!Init, Ptl!ApiInit, Ptl!partitioned_mutex_create, Ptl!PTL_SLOTS
  <1>2. 0 .. 1 = {0, 1}
    OBVIOUS
  <1>3. /\ lk \in [request : Nat, owner_ticket : Nat, grants : [{0, 1} -> Nat]]
        /\ lk.request = 0 /\ lk.grants[0] = 0 /\ lk.grants[1] = 0
    BY <1>1, <1>2
  <1>4. \A t \in Threads : ~Hold(t) /\ ~Enqueued(t) /\ ~PtlWaits(t) /\ ~Needs(t) /\ pc[t] = "idle"
    BY <1>1 DEF Hold, HeldPcs, UnlockPcs, Enqueued, LockPc, WrapperPcs, PtlWaits, Needs
  <1>5. Held = 0 /\ OneHolder /\ OrderInv
    BY <1>4 DEF Held, OneHolder, OrderInv, Distinct, At1
  <1>6. PtlBudget
    <2>1. Needing = {}
      BY <1>4 DEF Needing
    <2>2. Cardinality(Needing) = 0 /\ TicketCap \in Nat
      BY <2>1, FS_EmptySet, FlatLocksAssumption
    <2> QED
      BY <1>3, <1>4, <2>2 DEF PtlBudget
  <1>7. PtlAt(0)
    <2>1. 0 % 2 = 0 /\ (0 + 1) % 2 = 1 /\ (0 + Held)..(lk.request - 1) = {}
      BY <1>3, <1>5
    <2> QED
      BY <1>3, <1>4, <1>5, <2>1 DEF PtlAt
  <1>8. loc = [t \in Threads |-> loc[t]]
    BY <1>1
  <1> QED
    BY <1>3, <1>4, <1>5, <1>6, <1>7, <1>8 DEF PtlInv

-----------------------------------------------------------------------------
(***************************************************************************)
(* The queue locks.  s is the queue: the holder, if there is one, and then *)
(* the threads that wait, but for those in X, which Malthusian has taken   *)
(* out of it.                                                              *)
(***************************************************************************)

Before(s, u, v) == \E i \in 1..Len(s) : i + 1 \in 1..Len(s) /\ s[i] = u /\ s[i + 1] = v

FirstOf(s, u) == Len(s) # 0 /\ s[1] = u

LastOf(s, u) == Len(s) # 0 /\ s[Len(s)] = u

LineInv(s, X) ==
  /\ s \in Seq(Threads) /\ Distinct(s)
  /\ \A t \in Threads : At1(s, t) <=> (Enqueued(t) \/ Hold(t)) /\ t \notin X
  /\ \A t \in Threads : Hold(t) => FirstOf(s, t)
  /\ algo \in FifoAlgos => order = IF Held = 1 THEN Tail(s) ELSE s

LEMMA LineFacts ==
  ASSUME NEW s \in Seq(Threads), Distinct(s)
  PROVE  /\ \A u, v : Before(s, u, v) =>
              /\ u \in Threads /\ v \in Threads /\ At1(s, u) /\ At1(s, v) /\ u # v
              /\ ~LastOf(s, u) /\ ~FirstOf(s, v)
         /\ \A u, v, w : Before(s, u, v) /\ Before(s, u, w) => v = w
         /\ \A u, v, w : Before(s, u, w) /\ Before(s, v, w) => u = v
         /\ \A u : At1(s, u) => LastOf(s, u) \/ \E v \in Threads : Before(s, u, v)
         /\ \A u : At1(s, u) => FirstOf(s, u) \/ \E v \in Threads : Before(s, v, u)
         /\ \A u : FirstOf(s, u) \/ LastOf(s, u) => u \in Threads /\ At1(s, u)
         /\ \A u : FirstOf(s, u) /\ LastOf(s, u) => Len(s) = 1
         /\ Len(s) # 0 <=> \E u \in Threads : FirstOf(s, u)
         /\ Len(s) # 0 <=> \E u \in Threads : LastOf(s, u)
  <1>1. Len(s) \in Nat /\ \A i \in 1..Len(s) : s[i] \in Threads
    BY SeqLength
  <1>2. \A i, j \in 1..Len(s) : s[i] = s[j] => i = j
    BY DEF Distinct
  <1>3. Len(s) # 0 => 1 \in 1..Len(s) /\ Len(s) \in 1..Len(s)
    BY <1>1
  <1>4. ASSUME NEW u, NEW v, Before(s, u, v)
        PROVE  /\ u \in Threads /\ v \in Threads /\ At1(s, u) /\ At1(s, v) /\ u # v
               /\ ~LastOf(s, u) /\ ~FirstOf(s, v)
    <2>1. PICK i \in 1..Len(s) : i + 1 \in 1..Len(s) /\ s[i] = u /\ s[i + 1] = v
      BY <1>4 DEF Before
    <2>2. i # i + 1 /\ i # Len(s) /\ i + 1 # 1
      BY <1>1, <2>1
    <2> QED
      BY <1>1, <1>2, <1>3, <2>1, <2>2 DEF At1, FirstOf, LastOf
  <1>5. ASSUME NEW u, NEW v, NEW w, Before(s, u, v), Before(s, u, w)
        PROVE  v = w
    <2>1. PICK i \in 1..Len(s) : i + 1 \in 1..Len(s) /\ s[i] = u /\ s[i + 1] = v
      BY <1>5 DEF Before
    <2>2. PICK j \in 1..Len(s) : j + 1 \in 1..Len(s) /\ s[j] = u /\ s[j + 1] = w
      BY <1>5 DEF Before
    <2> QED
      BY <1>2, <2>1, <2>2
  <1>6. ASSUME NEW u, NEW v, NEW w, Before(s, u, w), Before(s, v, w)
        PROVE  u = v
    <2>1. PICK i \in 1..Len(s) : i + 1 \in 1..Len(s) /\ s[i] = u /\ s[i + 1] = w
      BY <1>6 DEF Before
    <2>2. PICK j \in 1..Len(s) : j + 1 \in 1..Len(s) /\ s[j] = v /\ s[j + 1] = w
      BY <1>6 DEF Before
    <2>3. i + 1 = j + 1
      BY <1>2, <2>1, <2>2
    <2>4. i = j
      BY <2>3
    <2> QED
      BY <2>1, <2>2, <2>4
  <1>7. ASSUME NEW u, At1(s, u)
        PROVE  LastOf(s, u) \/ \E v \in Threads : Before(s, u, v)
    <2>1. PICK i \in 1..Len(s) : s[i] = u
      BY <1>7 DEF At1
    <2>2. CASE i = Len(s)
      BY <1>1, <2>1, <2>2 DEF LastOf
    <2>3. CASE i # Len(s)
      <3>1. i + 1 \in 1..Len(s) /\ s[i + 1] \in Threads
        BY <1>1, <2>3
      <3>2. Before(s, u, s[i + 1])
        BY <2>1, <3>1 DEF Before
      <3> QED
        BY <3>1, <3>2
    <2> QED
      BY <2>2, <2>3
  <1>11. ASSUME NEW u, At1(s, u)
         PROVE  FirstOf(s, u) \/ \E v \in Threads : Before(s, v, u)
    <2>1. PICK i \in 1..Len(s) : s[i] = u
      BY <1>11 DEF At1
    <2>2. CASE i = 1
      BY <1>1, <2>1, <2>2 DEF FirstOf
    <2>3. CASE i # 1
      <3>1. i - 1 \in 1..Len(s) /\ (i - 1) + 1 = i
        BY <1>1, <2>3
      <3>2. PICK j \in 1..Len(s) : j + 1 = i
        BY <3>1
      <3>3. Before(s, s[j], u) /\ s[j] \in Threads
        BY <1>1, <2>1, <3>2 DEF Before
      <3> QED
        BY <3>3
    <2> QED
      BY <2>2, <2>3
  <1>8. ASSUME NEW u, FirstOf(s, u) \/ LastOf(s, u)
        PROVE  u \in Threads /\ At1(s, u)
    BY <1>1, <1>3, <1>8 DEF FirstOf, LastOf, At1
  <1>9. \A u : FirstOf(s, u) /\ LastOf(s, u) => Len(s) = 1
    BY <1>2, <1>3 DEF FirstOf, LastOf
  <1>10. /\ Len(s) # 0 <=> \E u \in Threads : FirstOf(s, u)
         /\ Len(s) # 0 <=> \E u \in Threads : LastOf(s, u)
    BY <1>1, <1>3 DEF FirstOf, LastOf
  <1> QED
    BY <1>4, <1>5, <1>6, <1>7, <1>8, <1>9, <1>10, <1>11

LEMMA LineAppend ==
  ASSUME NEW s \in Seq(Threads), Distinct(s), NEW t \in Threads, ~At1(s, t)
  PROVE  /\ Append(s, t) \in Seq(Threads) /\ Distinct(Append(s, t)) /\ Len(Append(s, t)) # 0
         /\ \A u : At1(Append(s, t), u) <=> At1(s, u) \/ u = t
         /\ \A u, v : Before(Append(s, t), u, v) <=> Before(s, u, v) \/ (LastOf(s, u) /\ v = t)
         /\ \A u : LastOf(Append(s, t), u) <=> u = t
         /\ \A u : FirstOf(Append(s, t), u) <=> IF Len(s) = 0 THEN u = t ELSE FirstOf(s, u)
  <1> DEFINE r == Append(s, t)
  <1>1. /\ r \in Seq(Threads) /\ Distinct(r) /\ Len(r) = Len(s) + 1 /\ Len(s) \in Nat
        /\ \A i \in 1..Len(s) : r[i] = s[i]
        /\ r[Len(s) + 1] = t
        /\ \A u : At1(r, u) <=> At1(s, u) \/ u = t
    BY AppendIs, SeqLength
  <1> HIDE DEF r
  <1>2. ASSUME NEW u, NEW v, Before(r, u, v)
        PROVE  Before(s, u, v) \/ (LastOf(s, u) /\ v = t)
    <2>1. PICK i \in 1..Len(r) : i + 1 \in 1..Len(r) /\ r[i] = u /\ r[i + 1] = v
      BY <1>2 DEF Before
    <2>2. i \in 1..Len(s) /\ (i + 1 \in 1..Len(s) \/ i = Len(s)) /\ Len(s) # 0
      BY <1>1, <2>1
    <2> QED
      BY <1>1, <2>1, <2>2 DEF Before, LastOf
  <1>3. ASSUME NEW u, NEW v, Before(s, u, v)
        PROVE  Before(r, u, v)
    <2>1. PICK i \in 1..Len(s) : i + 1 \in 1..Len(s) /\ s[i] = u /\ s[i + 1] = v
      BY <1>3 DEF Before
    <2>2. i \in 1..Len(r) /\ i + 1 \in 1..Len(r) /\ r[i] = u /\ r[i + 1] = v
      BY <1>1, <2>1
    <2> QED
      BY <2>2 DEF Before
  <1>4. ASSUME NEW u, LastOf(s, u)
        PROVE  Before(r, u, t)
    <2>1. Len(s) \in 1..Len(r) /\ Len(s) + 1 \in 1..Len(r) /\ r[Len(s)] = u
      BY <1>1, <1>4 DEF LastOf
    <2> QED
      BY <1>1, <2>1 DEF Before
  <1>5. \A u : LastOf(r, u) <=> u = t
    BY <1>1 DEF LastOf
  <1>6. \A u : FirstOf(r, u) <=> IF Len(s) = 0 THEN u = t ELSE FirstOf(s, u)
    BY <1>1 DEF FirstOf
  <1>7. Len(r) # 0
    BY <1>1
  <1> QED
    BY <1>1, <1>2, <1>3, <1>4, <1>5, <1>6, <1>7 DEF r

LEMMA LineTail ==
  ASSUME NEW s \in Seq(Threads), Distinct(s), NEW t, FirstOf(s, t)
  PROVE  /\ Tail(s) \in Seq(Threads) /\ Distinct(Tail(s)) /\ Len(Tail(s)) = Len(s) - 1
         /\ \A u : At1(Tail(s), u) <=> At1(s, u) /\ u # t
         /\ \A u, v : Before(Tail(s), u, v) <=> Before(s, u, v) /\ u # t
         /\ \A u : LastOf(Tail(s), u) <=> LastOf(s, u) /\ u # t
         /\ \A u : FirstOf(Tail(s), u) <=> Before(s, t, u)
  <1> DEFINE r == Tail(s)
  <1>0. Len(s) \in Nat \ {0} /\ s[1] = t /\ (\A i \in 1..Len(s) : s[i] \in Threads) /\ 1 \in 1..Len(s)
    BY SeqLength DEF FirstOf
  <1>1. /\ r \in Seq(Threads) /\ Distinct(r) /\ Len(r) = Len(s) - 1
        /\ \A i \in 1..Len(r) : r[i] = s[i + 1] /\ i + 1 \in 1..Len(s)
        /\ \A u : At1(r, u) <=> At1(s, u) /\ u # t
    BY <1>0, RestIs
  <1> HIDE DEF r
  <1>2. ASSUME NEW u, NEW v, Before(r, u, v)
        PROVE  Before(s, u, v) /\ u # t
    <2>1. PICK i \in 1..Len(r) : i + 1 \in 1..Len(r) /\ r[i] = u /\ r[i + 1] = v
      BY <1>2 DEF Before
    <2>2. i + 1 \in 1..Len(s) /\ (i + 1) + 1 \in 1..Len(s) /\ s[i + 1] = u /\ s[(i + 1) + 1] = v /\ i + 1 # 1
      BY <1>1, <2>1
    <2>3. u # t
      BY <1>0, <2>2 DEF Distinct
    <2> QED
      BY <2>2, <2>3 DEF Before
  <1>3. ASSUME NEW u, NEW v, Before(s, u, v)
        PROVE  IF u = t THEN FirstOf(r, v) ELSE Before(r, u, v)
    <2>1. PICK i \in 1..Len(s) : i + 1 \in 1..Len(s) /\ s[i] = u /\ s[i + 1] = v
      BY <1>3 DEF Before
    <2>2. i \in 1..Len(r) /\ r[i] = v
      BY <1>0, <1>1, <2>1
    <2>3. CASE i = 1
      BY <1>0, <1>1, <2>1, <2>2, <2>3 DEF FirstOf
    <2>4. CASE i # 1
      <3>1. u # t
        BY <1>0, <2>1, <2>4 DEF Distinct
      <3>2. i - 1 \in 1..Len(r) /\ (i - 1) + 1 = i
        BY <1>0, <1>1, <2>2, <2>4
      <3>3. PICK j \in 1..Len(r) : j + 1 = i
        BY <3>2
      <3>4. r[j] = u
        BY <1>1, <2>1, <3>3
      <3> QED
        BY <2>2, <3>1, <3>3, <3>4 DEF Before
    <2> QED
      BY <2>3, <2>4
  <1>4. ASSUME NEW u, FirstOf(r, u)
        PROVE  Before(s, t, u)
    <2>1. 1 \in 1..Len(r) /\ r[1] = u
      BY <1>0, <1>1, <1>4 DEF FirstOf
    <2>2. 1 + 1 \in 1..Len(s) /\ s[1 + 1] = u
      BY <1>1, <2>1
    <2> QED
      BY <1>0, <2>2 DEF Before
  <1>5. ASSUME NEW u
        PROVE  LastOf(r, u) <=> LastOf(s, u) /\ u # t
    <2>1. CASE Len(s) = 1
      BY <1>0, <1>1, <2>1 DEF LastOf
    <2>2. CASE Len(s) # 1
      <3>1. Len(r) # 0 /\ Len(r) \in 1..Len(r) /\ Len(r) + 1 = Len(s) /\ Len(s) \in 1..Len(s)
        BY <1>0, <1>1, <2>2
      <3>2. r[Len(r)] = s[Len(s)]
        BY <1>1, <3>1
      <3>3. s[Len(s)] # t
        BY <1>0, <2>2, <3>1 DEF Distinct
      <3> QED
        BY <1>0, <3>1, <3>2, <3>3 DEF LastOf
    <2> QED
      BY <2>1, <2>2
  <1> QED
    BY <1>1, <1>2, <1>3, <1>4, <1>5 DEF r

LEMMA LineHolder ==
  ASSUME NEW s, NEW X, LineInv(s, X)
  PROVE  /\ OneHolder
         /\ \A t \in Threads : FirstOf(s, t) /\ ~Hold(t) => Held = 0
         /\ \A t \in Threads : Hold(t) => t \notin X /\ ~Enqueued(t)
  <1>1. OneHolder /\ \A t \in Threads : FirstOf(s, t) /\ ~Hold(t) => Held = 0
    BY HeldIs DEF LineInv, OneHolder, FirstOf
  <1>2. \A t \in Threads : Hold(t) => At1(s, t)
    BY LineFacts DEF LineInv
  <1>3. \A t \in Threads : Hold(t) => ~Enqueued(t)
    BY DEF Hold, Enqueued, HeldPcs, LockPc, WrapperPcs
  <1> QED
    BY <1>1, <1>2, <1>3 DEF LineInv

LEMMA EmptyLine ==
  ASSUME NEW X, \A u \in Threads : ~Hold(u) /\ (Enqueued(u) => u \in X), algo \in FifoAlgos => order = <<>>
  PROVE  LineInv(<<>>, X)
  <1>1. Held = 0
    BY HeldIs
  <1>2. <<>> \in Seq(Threads) /\ Distinct(<<>>) /\ \A t : ~At1(<<>>, t)
    BY DEF Distinct, At1
  <1> QED
    BY <1>1, <1>2 DEF LineInv

LEMMA SingleIs ==
  ASSUME NEW t \in Threads
  PROVE  /\ <<t>> \in Seq(Threads) /\ Distinct(<<t>>) /\ Len(<<t>>) = 1 /\ Tail(<<t>>) = <<>>
         /\ \A u : (At1(<<t>>, u) <=> u = t) /\ (FirstOf(<<t>>, u) <=> u = t) /\ (LastOf(<<t>>, u) <=> u = t)
         /\ \A u, v : ~Before(<<t>>, u, v)
  <1>1. /\ <<t>> \in Seq(Threads) /\ Len(<<t>>) = 1 /\ <<t>>[1] = t /\ Tail(<<t>>) = <<>>
    OBVIOUS
  <1> QED
    BY <1>1 DEF Distinct, At1, FirstOf, LastOf, Before

LEMMA TailAppend ==
  ASSUME NEW s \in Seq(Threads), Len(s) # 0, NEW t \in Threads
  PROVE  Tail(Append(s, t)) = Append(Tail(s), t)
  OBVIOUS

\* A thread joins the queue, ...
LEMMA LineJoin ==
  ASSUME NEW s, NEW X, LineInv(s, X), algo' = algo, NEW t \in Threads, t \notin X, Ordered(t),
         pc[t] = "lock", Enqueued(t)', ~Hold(t),
         \A u \in Threads \ {t} : (Enqueued(u)' <=> Enqueued(u)) /\ (Hold(u)' <=> Hold(u))
  PROVE  LineInv(Append(s, t), X)' /\ InTurn(t) /\ ~At1(s, t)
  <1>1. s \in Seq(Threads) /\ Distinct(s)
    BY DEF LineInv
  <1>2. ~Enqueued(t) /\ ~Hold(t)'
    BY DEF Enqueued, Hold, HeldPcs, LockPc, WrapperPcs
  <1>3. ~At1(s, t)
    BY <1>2 DEF LineInv
  <1>4. pc'[t] # "lock" /\ pc'[t] # "posix"
    BY DEF Enqueued, LockPc, WrapperPcs
  <1>5. InTurn(t)
    BY <1>4 DEF InTurn, Granted
  <1>6. Held' = Held
    BY <1>2 DEF Held
  <1>7. algo \in FifoAlgos => order' = Append(order, t)
    BY <1>4 DEF Ordered, Joined, Joins, Granted
  <1>8. ASSUME NEW u \in Threads, Hold(u)
        PROVE  FirstOf(s, u)
    BY <1>8 DEF LineInv
  <1>9. Held = 1 => Len(s) # 0
    BY <1>8, HeldIs DEF FirstOf
  <1>10. algo \in FifoAlgos => order' = IF Held' = 1 THEN Tail(Append(s, t)) ELSE Append(s, t)
    BY <1>1, <1>6, <1>7, <1>9, TailAppend DEF LineInv
  <1>11. /\ Append(s, t) \in Seq(Threads) /\ Distinct(Append(s, t))
         /\ \A u : At1(Append(s, t), u) <=> At1(s, u) \/ u = t
         /\ \A u : FirstOf(Append(s, t), u) <=> IF Len(s) = 0 THEN u = t ELSE FirstOf(s, u)
    BY <1>1, <1>3, LineAppend
  <1>12. \A u \in Threads : Hold(u)' => FirstOf(Append(s, t), u)
    BY <1>2, <1>8, <1>11 DEF FirstOf
  <1>13. \A u \in Threads : At1(Append(s, t), u) <=> (Enqueued(u)' \/ Hold(u)') /\ u \notin X
    BY <1>2, <1>11 DEF LineInv
  <1> QED
    BY <1>3, <1>5, <1>10, <1>11, <1>12, <1>13 DEF LineInv

\* ... or finds it empty and has the lock, ...
LEMMA LineEnter ==
  ASSUME NEW s, NEW X, LineInv(s, X), algo' = algo, NEW t \in Threads, t \notin X, Ordered(t),
         Len(s) = 0, ~Enqueued(t),
         (pc[t] = "lock" /\ pc'[t] = "posix") \/ (pc[t] # "lock" /\ pc'[t] = "tryposix"),
         \A u \in Threads \ {t} : (Enqueued(u)' <=> Enqueued(u)) /\ (Hold(u)' <=> Hold(u))
  PROVE  LineInv(<<t>>, X)' /\ InTurn(t) /\ Held = 0
  <1>1. s = <<>>
    BY DEF LineInv
  <1>2. \A u \in Threads : ~Hold(u) /\ (Enqueued(u) => u \in X)
    BY <1>1, LineHolder DEF LineInv, At1, FirstOf
  <1>3. Held = 0
    BY <1>2, HeldIs
  <1>4. Hold(t)' /\ ~Enqueued(t)'
    BY DEF Hold, Enqueued, HeldPcs, LockPc, WrapperPcs
  <1>5. Held' = 1
    BY <1>4 DEF Held
  <1>6. algo \in FifoAlgos => order' = <<>> /\ (Granted(t) => Joined(t) = <<t>>)
    BY <1>1, <1>3 DEF LineInv, Ordered, Joined, Joins, Granted
  <1>7. InTurn(t)
    BY <1>6 DEF InTurn, Granted
  <1>8. \A u \in Threads : At1(<<t>>, u) <=> (Enqueued(u)' \/ Hold(u)') /\ u \notin X
    BY <1>2, <1>4, SingleIs
  <1>9. \A u \in Threads : Hold(u)' => FirstOf(<<t>>, u)
    BY <1>2, <1>4, SingleIs
  <1> QED
    BY <1>3, <1>5, <1>6, <1>7, <1>8, <1>9, SingleIs DEF LineInv

\* ... or comes to the front and has it.
LEMMA LineGrant ==
  ASSUME NEW s, NEW X, LineInv(s, X), algo' = algo, NEW t \in Threads, Ordered(t),
         FirstOf(s, t), Enqueued(t), pc'[t] = "posix",
         \A u \in Threads \ {t} : (Enqueued(u)' <=> Enqueued(u)) /\ (Hold(u)' <=> Hold(u))
  PROVE  LineInv(s, X)' /\ InTurn(t) /\ Held = 0
  <1>1. s \in Seq(Threads) /\ Distinct(s)
    BY DEF LineInv
  <1>2. Hold(t)' /\ ~Enqueued(t)' /\ ~Hold(t) /\ pc[t] # "lock" /\ pc[t] # "posix"
    BY DEF Hold, Enqueued, HeldPcs, LockPc, WrapperPcs
  <1>3. Held = 0 /\ Held' = 1
    BY <1>2, LineHolder DEF Held
  <1>4. \A u \in Threads : ~Hold(u)
    BY <1>3, HeldIs
  <1>5. algo \in FifoAlgos => order = s /\ Joined(t) = s /\ order' = Tail(s)
    BY <1>2, <1>3 DEF LineInv, Ordered, Joined, Joins, Granted
  <1>6. Head(s) = t
    BY <1>1 DEF FirstOf
  <1>7. InTurn(t)
    BY <1>5, <1>6 DEF InTurn, Granted
  <1>8. \A u \in Threads : At1(s, u) <=> (Enqueued(u)' \/ Hold(u)') /\ u \notin X
    BY <1>2, <1>4 DEF LineInv
  <1>9. \A u \in Threads : Hold(u)' => FirstOf(s, u)
    BY <1>2, <1>4
  <1> QED
    BY <1>1, <1>3, <1>5, <1>7, <1>8, <1>9 DEF LineInv

\* The holder leaves.
LEMMA LineLeave ==
  ASSUME NEW s, NEW X, LineInv(s, X), algo' = algo, NEW t \in Threads, Ordered(t),
         Hold(t), ~Hold(t)', ~Enqueued(t)', pc'[t] # "posix",
         \A u \in Threads \ {t} : (Enqueued(u)' <=> Enqueued(u)) /\ (Hold(u)' <=> Hold(u))
  PROVE  LineInv(Tail(s), X)' /\ InTurn(t) /\ FirstOf(s, t)
  <1>1. s \in Seq(Threads) /\ Distinct(s) /\ FirstOf(s, t) /\ OneHolder
    BY LineHolder DEF LineInv
  <1>2. \A u \in Threads \ {t} : ~Hold(u)
    BY <1>1 DEF OneHolder
  <1>3. Held = 1 /\ Held' = 0
    BY <1>2 DEF Held
  <1>4. pc[t] # "lock"
    BY DEF Hold, HeldPcs, UnlockPcs
  <1>5. InTurn(t) /\ (algo \in FifoAlgos => order' = Tail(s))
    BY <1>3, <1>4 DEF LineInv, Ordered, Joined, Joins, Granted, InTurn
  <1>6. /\ Tail(s) \in Seq(Threads) /\ Distinct(Tail(s))
        /\ \A u : At1(Tail(s), u) <=> At1(s, u) /\ u # t
    BY <1>1, LineTail
  <1>7. \A u \in Threads : At1(Tail(s), u) <=> (Enqueued(u)' \/ Hold(u)') /\ u \notin X
    BY <1>6 DEF LineInv
  <1> QED
    BY <1>1, <1>2, <1>3, <1>5, <1>6, <1>7 DEF LineInv

LEMMA LineStays ==
  ASSUME NEW s, NEW X, LineInv(s, X), algo' = algo, NEW t \in Threads, Ordered(t),
         \A u \in Threads : (Enqueued(u)' <=> Enqueued(u)) /\ (Hold(u)' <=> Hold(u)),
         pc[t] = "lock" => pc'[t] = "lock", pc'[t] # "posix" \/ pc[t] = "posix"
  PROVE  LineInv(s, X)' /\ InTurn(t)
  <1>1. Held' = Held
    BY DEF Held
  <1>2. order' = order /\ ~Granted(t)
    BY DEF Ordered, Joined, Joins, Granted
  <1> QED
    BY <1>1, <1>2 DEF LineInv, InTurn

LEMMA LineWrapped ==
  ASSUME NEW s, NEW X, LineInv(s, X), ApiInv, algo' = algo, NEW t \in Threads, Ordered(t), Wrapped(t)
  PROVE  /\ LineInv(s, X)' /\ InTurn(t)
         /\ lk' = lk /\ nd' = nd /\ loc' = loc
         /\ \A u \in Threads : Around(u) /\ (Enqueued(u)' <=> Enqueued(u)) /\ (Hold(u)' <=> Hold(u))
         /\ \A u \in Threads : Enqueued(u) => pc'[u] = pc[u]
  <1>1. /\ lk' = lk /\ nd' = nd /\ loc' = loc /\ OneHolder
        /\ \A u \in Threads : Around(u) /\ (Hold(u)' <=> Hold(u))
    BY LineHolder, WrappedKeeps
  <1>2. \A p \in {"posix", "tryposix", "cs", "unlock", "lock"} \cup RestPcs : ~(LockPc(p) /\ p # "lock")
    BY DEF LockPc, WrapperPcs, UnlockPcs, RestPcs
  <1>3. \A u \in Threads : (Enqueued(u)' <=> Enqueued(u)) /\ (Enqueued(u) => pc'[u] = pc[u])
    BY <1>1, <1>2 DEF Around, Enqueued, RestPcs
  <1>4. (pc'[t] # "posix" \/ pc[t] = "posix") /\ (pc[t] = "lock" => pc'[t] = "lock")
    BY <1>1 DEF Around, RestPcs
  <1> QED
    BY <1>1, <1>3, <1>4, LineStays

-----------------------------------------------------------------------------
(***************************************************************************)
(* The locks whose queue is linked through the next fields of the nodes:   *)
(* MCS and Malthusian.  The link to a thread is missing until it has made  *)
(* it, or, for the one that a Malthusian unlock grafts, the holder has.    *)
(***************************************************************************)
GraftPcs == {"graft", "graftlink", "graftwait"}

Linked(u, v) ==
  IF pc[v] \in {"mark", "link"} THEN loc[v] = u /\ nd[u].next = NULL
  ELSE IF pc[u] = "graftlink" THEN loc[u] = v /\ nd[u].next = NULL
  ELSE nd[u].next = v

ChainType ==
  /\ loc = [t \in Threads |-> loc[t]]
  /\ nd \in [Threads -> [next : Threads \cup {NULL}, spin : {LOCKED, UNLOCKED}]]

\* What the holder is about to put right behind itself.
GraftInv(s, X) ==
  \A t \in Threads :
    /\ pc[t] \in {"graft", "graftwait"} => loc[t] \in X /\ nd[loc[t]].next = NULL
    /\ pc[t] = "graftlink" => Before(s, t, loc[t]) /\ pc[loc[t]] \notin {"mark", "link"}

\* Only the front finds its word UNLOCKED, and waits for nothing else.
ChainInv(s, X) ==
  /\ LineInv(s, X) /\ ChainType
  /\ \A t \in Threads : Enqueued(t) => pc[t] \in {"mark", "link", "sleep", "asleep", "respin"}
  /\ X \subseteq Threads /\ \A t \in X : Enqueued(t) /\ pc[t] \notin {"mark", "link"}
  /\ Len(s) = 0 => lk.tail = NULL
  /\ \A u \in Threads : LastOf(s, u) => lk.tail = u /\ nd[u].next = NULL
  /\ \A u, v \in Threads : Before(s, u, v) => Linked(u, v)
  /\ \A v \in Threads : Enqueued(v) /\ pc[v] # "mark" => (nd[v].spin = UNLOCKED <=> FirstOf(s, v))
  /\ \A v \in Threads : FirstOf(s, v) => pc[v] \notin {"mark", "link"}
  /\ \A t \in Threads : pc[t] \in {"handover", "cull"} => nd[t].next # NULL
  /\ GraftInv(s, X)

\* What a step of such a lock does, whatever the waiting policy.
Arrives(t) ==
  \E p \in {"mark", "link"}, spin \in {LOCKED, UNLOCKED} :
    /\ Step(t, "lock", IF lk.tail = NULL THEN "posix" ELSE p) /\ (p = "link" => spin = LOCKED)
    /\ nd' = [nd EXCEPT ![t] = [next |-> NULL, spin |-> spin]]
    /\ lk'.tail = t /\ loc' = [loc EXCEPT ![t] = lk.tail]

TriesTail(t) ==
  \E spin \in {LOCKED, UNLOCKED} :
    /\ Step(t, "idle", IF lk.tail = NULL THEN "tryposix" ELSE "idle")
    /\ nd' = [nd EXCEPT ![t] = [next |-> NULL, spin |-> spin]]
    /\ lk'.tail = IF lk.tail = NULL THEN t ELSE lk.tail
    /\ loc' = loc

Marks(t) ==
  /\ Step(t, "mark", "link") /\ nd' = [nd EXCEPT ![t].spin = LOCKED]
  /\ lk'.tail = lk.tail /\ loc' = loc

Links(t) ==
  /\ Step(t, "link", "sleep") /\ nd' = [nd EXCEPT ![loc[t]].next = t]
  /\ lk'.tail = lk.tail /\ loc' = [loc EXCEPT ![t] = NULL]

Sleeps(t) ==
  /\ \E p, q \in {"sleep", "asleep"} : Step(t, p, q)
  /\ lk' = lk /\ nd' = nd /\ loc' = loc

Enters(t) ==
  /\ nd[t].spin = UNLOCKED /\ \E p \in {"sleep", "respin"} : Step(t, p, "posix")
  /\ lk' = lk /\ nd' = nd /\ loc' = loc

Turns(t) ==
  /\ \E p, q \in UnlockPcs \ GraftPcs : Step(t, p, q) /\ (q \in {"handover", "cull"} => nd[t].next # NULL)
  /\ lk' = lk /\ nd' = nd /\ loc' = loc

Empties(t) ==
  /\ lk.tail = t /\ Step(t, "castail", After(t))
  /\ lk'.tail = NULL /\ nd' = nd /\ loc' = loc

Wakes(t) ==
  /\ \E q \in {"futexwake", After(t)} : Step(t, "handover", q)
  /\ nd' = [nd EXCEPT ![nd[t].next].spin = UNLOCKED]
  /\ lk' = lk /\ \E x : loc' = [loc EXCEPT ![t] = x]

FutexWakes(t) ==
  /\ pc[t] = "futexwake" /\ UNCHANGED <<posix_lock, inWait>>
  /\ \/ pc' = [pc EXCEPT ![t] = After(t)]
     \/ \E u \in Threads : pc[u] = "asleep" /\ pc' = [pc EXCEPT ![t] = After(t), ![u] = "respin"]
  /\ lk' = lk /\ nd' = nd /\ loc' = [loc EXCEPT ![t] = NULL]

ChainMove(t) ==
  \/ Arrives(t) \/ TriesTail(t) \/ Marks(t) \/ Links(t) \/ Sleeps(t) \/ Enters(t)
  \/ Turns(t) \/ Empties(t) \/ Wakes(t) \/ FutexWakes(t)

LEMMA GraftKept ==
  ASSUME NEW s \in Seq(Threads), Distinct(s), NEW X, X \subseteq Threads, GraftInv(s, X), NEW r,
         NEW t \in Threads, pc[t] \notin GraftPcs, pc'[t] \notin GraftPcs,
         \A u \in Threads \ {t} : /\ loc'[u] = loc[u]
                                 /\ (pc'[u] = pc[u] \/ (pc[u] = "asleep" /\ pc'[u] = "respin")),
         pc'[t] \in {"mark", "link"} => pc[t] \in {"mark", "link"} \/ ~At1(s, t),
         \A u \in X : nd'[u].next = nd[u].next,
         \A u, v : Before(s, u, v) /\ u # t => Before(r, u, v)
  PROVE  GraftInv(r, X)'
  <1> SUFFICES ASSUME NEW u \in Threads
               PROVE  /\ pc'[u] \in {"graft", "graftwait"} => loc'[u] \in X /\ nd'[loc'[u]].next = NULL
                      /\ pc'[u] = "graftlink" =>
                           Before(r, u, loc'[u]) /\ pc'[loc'[u]] \notin {"mark", "link"}
    BY DEF GraftInv
  <1>1. CASE u = t
    BY <1>1 DEF GraftPcs
  <1>2. CASE u # t
    <2>1. loc'[u] = loc[u] /\ (pc'[u] \in GraftPcs => pc'[u] = pc[u])
      BY <1>2 DEF GraftPcs
    <2>2. ASSUME pc'[u] \in {"graft", "graftwait"}
          PROVE  loc'[u] \in X /\ nd'[loc'[u]].next = NULL
      BY <2>1, <2>2 DEF GraftInv, GraftPcs
    <2>3. ASSUME pc'[u] = "graftlink"
          PROVE  Before(r, u, loc'[u]) /\ pc'[loc'[u]] \notin {"mark", "link"}
      <3>1. Before(s, u, loc[u]) /\ pc[loc[u]] \notin {"mark", "link"}
        BY <2>1, <2>3 DEF GraftInv, GraftPcs
      <3>2. loc[u] \in Threads /\ At1(s, loc[u])
        BY <3>1, LineFacts
      <3>3. pc'[loc[u]] \notin {"mark", "link"}
        BY <3>1, <3>2
      <3> QED
        BY <1>2, <2>1, <3>1, <3>3
    <2> QED
      BY <2>2, <2>3
  <1> QED
    BY <1>1, <1>2

LEMMA LockTwo == LOCKED # UNLOCKED
  BY DEF LOCKED, UNLOCKED

LEMMA ChainPcs ==
  /\ \A p \in {"mark", "link", "sleep", "asleep", "respin"} : LockPc(p) /\ p \notin HeldPcs /\ p # "lock"
  /\ UnlockPcs \subseteq HeldPcs /\ {"posix", "tryposix"} \subseteq HeldPcs
  /\ {"castail", "handover", "awaitnext", "unlock"} \subseteq UnlockPcs \ GraftPcs
  /\ \A t : \A p \in {"idle", "lock", "futexwake", After(t)} : p \notin HeldPcs /\ ~(LockPc(p) /\ p # "lock")
  /\ \A p \in HeldPcs : ~LockPc(p)
  /\ \A t : \A p \in {"idle", "lock", "mark", "link", "sleep", "asleep", "respin", "posix", "tryposix",
                    "futexwake", After(t)} : p \notin GraftPcs
  /\ "futexwake" \in ReleasedPcs
  BY DEF LockPc, HeldPcs, UnlockPcs, WrapperPcs, ReleasedPcs, TryPcs, After, GraftPcs

\* What a move of one thread does to the others.
LEMMA ChainMoves ==
  ASSUME ApiInv, NEW s, NEW X, LineInv(s, X), NEW t \in Threads, NEW p, NEW q, Step(t, p, q), Legal(t, p, q)
  PROVE  /\ pc[t] = p /\ pc'[t] = q /\ \A u \in Threads \ {t} : pc'[u] = pc[u]
         /\ \A u \in Threads \ {t} : (Enqueued(u)' <=> Enqueued(u)) /\ (Hold(u)' <=> Hold(u))
         /\ Allowed(t)
         /\ (Hold(t) <=> p \in HeldPcs) /\ (Hold(t)' <=> q \in HeldPcs)
         /\ (Enqueued(t) <=> LockPc(p) /\ p # "lock") /\ (Enqueued(t)' <=> LockPc(q) /\ q # "lock")
  <1>1. /\ pc[t] = p /\ pc'[t] = q /\ \A u \in Threads \ {t} : pc'[u] = pc[u]
        /\ \A u \in Threads \ {t} : Hold(u)' <=> Hold(u)
        /\ (Hold(t) <=> p \in HeldPcs) /\ (Hold(t)' <=> q \in HeldPcs)
        /\ Allowed(t)
    BY StepMoves
  <1> QED
    BY <1>1 DEF Enqueued

LEMMA ChainArrives ==
  ASSUME ApiInv, NEW s, NEW X, ChainInv(s, X), algo' = algo, NEW t \in Threads, Ordered(t), Arrives(t)
  PROVE  (\E r : ChainInv(r, X)') /\ InTurn(t) /\ Allowed(t)
  <1>1. /\ LineInv(s, X) /\ s \in Seq(Threads) /\ Distinct(s) /\ NULL \notin Threads
        /\ loc = [u \in Threads |-> loc[u]]
        /\ nd \in [Threads -> [next : Threads \cup {NULL}, spin : {LOCKED, UNLOCKED}]]
        /\ X \subseteq Threads /\ GraftInv(s, X)
    BY LockApiAssumption DEF ChainInv, LineInv, ChainType
  <1>2. PICK p \in {"mark", "link"}, spin \in {LOCKED, UNLOCKED} :
          /\ Step(t, "lock", IF lk.tail = NULL THEN "posix" ELSE p) /\ (p = "link" => spin = LOCKED)
          /\ nd' = [nd EXCEPT ![t] = [next |-> NULL, spin |-> spin]]
          /\ lk'.tail = t /\ loc' = [loc EXCEPT ![t] = lk.tail]
    BY DEF Arrives
  <1>3. /\ nd' \in [Threads -> [next : Threads \cup {NULL}, spin : {LOCKED, UNLOCKED}]]
        /\ nd'[t].next = NULL /\ nd'[t].spin = spin /\ \A u \in Threads \ {t} : nd'[u] = nd[u]
        /\ loc' = [u \in Threads |-> loc'[u]] /\ loc'[t] = lk.tail
        /\ \A u \in Threads \ {t} : loc'[u] = loc[u]
    BY <1>1, <1>2
  <1>4. Legal(t, "lock", "posix") /\ Legal(t, "lock", p)
    BY ChainPcs, LockPcs DEF Legal
  <1>5. pc[t] = "lock"
    BY <1>2 DEF Step
  <1>6. t \notin X /\ ~Enqueued(t) /\ ~Hold(t)
    BY <1>5, ChainPcs DEF ChainInv, Enqueued, Hold
  <1>7. ~At1(s, t)
    BY <1>6 DEF ChainInv, LineInv
  <1>8. lk.tail = NULL <=> Len(s) = 0
    BY <1>1, LineFacts DEF ChainInv
  <1>9. CASE lk.tail = NULL
    <2>1. Step(t, "lock", "posix")
      BY <1>2, <1>9
    <2>2. /\ pc'[t] = "posix" /\ \A u \in Threads \ {t} : pc'[u] = pc[u]
          /\ \A u \in Threads \ {t} : (Enqueued(u)' <=> Enqueued(u)) /\ (Hold(u)' <=> Hold(u))
          /\ Allowed(t) /\ ~Enqueued(t)'
      BY <1>1, <1>4, <2>1, ChainMoves, ChainPcs
    <2>3. LineInv(<<t>>, X)' /\ InTurn(t)
      BY <1>1, <1>5, <1>6, <1>8, <1>9, <2>2, LineEnter
    <2>4. /\ \A u : (FirstOf(<<t>>, u) <=> u = t) /\ (LastOf(<<t>>, u) <=> u = t)
          /\ \A u, v : ~Before(<<t>>, u, v)
          /\ Len(<<t>>) = 1
      BY SingleIs
    <2>5. \A u \in Threads : ~FirstOf(s, u)
      BY <1>8, <1>9 DEF FirstOf
    <2>6. GraftInv(<<t>>, X)'
      <3>1. \A u, v : ~Before(s, u, v)
        BY <1>8, <1>9 DEF Before
      <3> QED
        <4>1. pc[t] \notin GraftPcs /\ pc'[t] \notin GraftPcs /\ pc'[t] \notin {"mark", "link"}
          BY <1>5, <2>2 DEF GraftPcs
        <4>2. \A u \in X : nd'[u].next = nd[u].next
          BY <1>1, <1>3, <1>6
        <4>3. /\ \A u \in Threads \ {t} : loc'[u] = loc[u] /\ pc'[u] = pc[u]
              /\ \A u, v : Before(s, u, v) /\ u # t => Before(<<t>>, u, v)
          BY <1>3, <2>2, <3>1
        <4>4. s \in Seq(Threads) /\ Distinct(s) /\ X \subseteq Threads /\ GraftInv(s, X)
          BY <1>1
        <4> QED
          BY <4>1, <4>2, <4>3, <4>4, GraftKept
    <2>7. ChainInv(<<t>>, X)'
      <3>1. \A v \in Threads : Enqueued(v)' => v # t /\ Enqueued(v) /\ nd'[v] = nd[v] /\ pc'[v] = pc[v]
        BY <1>3, <2>2
      <3>2. \A v \in Threads : Enqueued(v)' /\ pc'[v] # "mark" => (nd'[v].spin = UNLOCKED <=> FirstOf(<<t>>, v))
        BY <2>4, <2>5, <3>1 DEF ChainInv
      <3>3. \A v \in X : Enqueued(v)' /\ pc'[v] \notin {"mark", "link"}
        BY <1>1, <1>6, <2>2 DEF ChainInv
      <3>4. \A v \in Threads : Enqueued(v)' => pc'[v] \in {"mark", "link", "sleep", "asleep", "respin"}
        BY <3>1 DEF ChainInv
      <3>5. \A v \in Threads : pc'[v] \in {"handover", "cull"} => nd'[v].next # NULL
        BY <1>3, <2>2 DEF ChainInv
      <3> QED
        BY <1>1, <1>2, <1>3, <2>2, <2>3, <2>4, <2>6, <3>2, <3>3, <3>4, <3>5 DEF ChainInv, ChainType
    <2> QED
      BY <2>2, <2>3, <2>7
  <1>10. CASE lk.tail # NULL
    <2>1. Step(t, "lock", p)
      BY <1>2, <1>10
    <2>2. /\ pc'[t] = p /\ \A u \in Threads \ {t} : pc'[u] = pc[u]
          /\ \A u \in Threads \ {t} : (Enqueued(u)' <=> Enqueued(u)) /\ (Hold(u)' <=> Hold(u))
          /\ Allowed(t) /\ Enqueued(t)'
      BY <1>1, <1>4, <2>1, ChainMoves, ChainPcs
    <2>3. LineInv(Append(s, t), X)' /\ InTurn(t)
      BY <1>1, <1>5, <1>6, <2>2, LineJoin
    <2>4. /\ Len(Append(s, t)) # 0
          /\ \A u, v : Before(Append(s, t), u, v) <=> Before(s, u, v) \/ (LastOf(s, u) /\ v = t)
          /\ \A u : LastOf(Append(s, t), u) <=> u = t
          /\ \A u : FirstOf(Append(s, t), u) <=> IF Len(s) = 0 THEN u = t ELSE FirstOf(s, u)
      BY <1>1, <1>7, LineAppend
    <2>5. \A u : FirstOf(Append(s, t), u) <=> FirstOf(s, u)
      BY <1>8, <1>10, <2>4
    <2>6. ~FirstOf(s, t) /\ \A u, v : Before(s, u, v) => u # t /\ v # t
      BY <1>1, <1>7, LineFacts
    <2>7. ASSUME NEW u \in Threads, NEW v \in Threads, Before(Append(s, t), u, v)
          PROVE  Linked(u, v)'
      <3>1. CASE Before(s, u, v)
        BY <1>3, <2>2, <2>6, <3>1 DEF Linked, ChainInv
      <3>2. CASE LastOf(s, u) /\ v = t
        <4>1. lk.tail = u /\ nd[u].next = NULL /\ u # t
          BY <1>1, <1>7, <3>2, LineFacts DEF ChainInv
        <4> QED
          BY <1>3, <2>2, <3>2, <4>1 DEF Linked
      <3> QED
        BY <2>4, <2>7, <3>1, <3>2
    <2>8. \A v \in Threads : Enqueued(v)' /\ pc'[v] # "mark" => (nd'[v].spin = UNLOCKED <=> FirstOf(s, v))
      BY <1>2, <1>3, <2>2, <2>6, LockTwo DEF ChainInv
    <2>9. \A v \in Threads : FirstOf(s, v) => pc'[v] \notin {"mark", "link"}
      BY <2>2, <2>6 DEF ChainInv
    <2>10. \A v \in X : Enqueued(v)' /\ pc'[v] \notin {"mark", "link"}
      BY <1>6, <2>2 DEF ChainInv
    <2>11. /\ \A v \in Threads : Enqueued(v)' => pc'[v] \in {"mark", "link", "sleep", "asleep", "respin"}
           /\ \A v \in Threads : pc'[v] \in {"handover", "cull"} => nd'[v].next # NULL
      BY <1>3, <2>2 DEF ChainInv
    <2>13. GraftInv(Append(s, t), X)'
      <3>1. pc'[t] \notin GraftPcs /\ pc[t] \notin GraftPcs
        BY <1>5, <2>2, ChainPcs
      <3> QED
        BY <1>1, <1>3, <1>6, <1>7, <2>2, <2>4, <3>1, GraftKept
    <2>12. ChainInv(Append(s, t), X)'
      BY <1>1, <1>2, <1>3, <2>3, <2>4, <2>5, <2>7, <2>8, <2>9, <2>10, <2>11, <2>13 DEF ChainInv, ChainType
    <2> QED
      BY <2>2, <2>3, <2>12
  <1> QED
    BY <1>9, <1>10

LEMMA ChainTries ==
  ASSUME ApiInv, NEW s, NEW X, ChainInv(s, X), algo' = algo, NEW t \in Threads, Ordered(t), TriesTail(t)
  PROVE  (\E r : ChainInv(r, X)') /\ InTurn(t) /\ Allowed(t)
  <1>1. /\ LineInv(s, X) /\ s \in Seq(Threads) /\ Distinct(s) /\ NULL \notin Threads
        /\ loc = [u \in Threads |-> loc[u]]
        /\ nd \in [Threads -> [next : Threads \cup {NULL}, spin : {LOCKED, UNLOCKED}]]
        /\ X \subseteq Threads /\ GraftInv(s, X)
    BY LockApiAssumption DEF ChainInv, LineInv, ChainType
  <1>2. PICK spin \in {LOCKED, UNLOCKED} :
          /\ Step(t, "idle", IF lk.tail = NULL THEN "tryposix" ELSE "idle")
          /\ nd' = [nd EXCEPT ![t] = [next |-> NULL, spin |-> spin]]
          /\ lk'.tail = IF lk.tail = NULL THEN t ELSE lk.tail
          /\ loc' = loc
    BY DEF TriesTail
  <1>3. /\ nd' \in [Threads -> [next : Threads \cup {NULL}, spin : {LOCKED, UNLOCKED}]]
        /\ nd'[t].next = NULL /\ \A u \in Threads \ {t} : nd'[u] = nd[u]
    BY <1>1, <1>2
  <1>4. Legal(t, "idle", "tryposix") /\ Legal(t, "idle", "idle")
    BY DEF Legal
  <1>5. pc[t] = "idle"
    BY <1>2 DEF Step
  <1>6. t \notin X /\ ~Enqueued(t) /\ ~Hold(t)
    BY <1>5, ChainPcs DEF ChainInv, Enqueued, Hold
  <1>7. ~At1(s, t)
    BY <1>6 DEF ChainInv, LineInv
  <1>8. lk.tail = NULL <=> Len(s) = 0
    BY <1>1, LineFacts DEF ChainInv
  <1>9. CASE lk.tail = NULL
    <2>1. Step(t, "idle", "tryposix")
      BY <1>2, <1>9
    <2>2. /\ pc'[t] = "tryposix" /\ \A u \in Threads \ {t} : pc'[u] = pc[u]
          /\ \A u \in Threads \ {t} : (Enqueued(u)' <=> Enqueued(u)) /\ (Hold(u)' <=> Hold(u))
          /\ Allowed(t) /\ ~Enqueued(t)'
      BY <1>1, <1>4, <2>1, ChainMoves, ChainPcs
    <2>3. LineInv(<<t>>, X)' /\ InTurn(t)
      BY <1>1, <1>5, <1>6, <1>8, <1>9, <2>2, LineEnter
    <2>4. /\ \A u : (FirstOf(<<t>>, u) <=> u = t) /\ (LastOf(<<t>>, u) <=> u = t)
          /\ \A u, v : ~Before(<<t>>, u, v)
          /\ Len(<<t>>) = 1
      BY SingleIs
    <2>5. \A u \in Threads : ~FirstOf(s, u)
      BY <1>8, <1>9 DEF FirstOf
    <2>6. loc' = [u \in Threads |-> loc'[u]] /\ lk'.tail = t
      BY <1>1, <1>2, <1>9
    <2>7. GraftInv(<<t>>, X)'
      <3>1. \A u, v : ~Before(s, u, v)
        BY <1>8, <1>9 DEF Before
      <3> QED
        <4>1. pc[t] \notin GraftPcs /\ pc'[t] \notin GraftPcs /\ pc'[t] \notin {"mark", "link"}
          BY <1>5, <2>2 DEF GraftPcs
        <4>2. \A u \in X : nd'[u].next = nd[u].next
          BY <1>1, <1>3, <1>6
        <4> QED
          BY <1>1, <1>2, <2>2, <3>1, <4>1, <4>2, GraftKept
    <2>8. ChainInv(<<t>>, X)'
      <3>1. \A v \in Threads : Enqueued(v)' => v # t /\ Enqueued(v) /\ nd'[v] = nd[v] /\ pc'[v] = pc[v]
        BY <1>3, <2>2
      <3>2. \A v \in Threads : Enqueued(v)' /\ pc'[v] # "mark" => (nd'[v].spin = UNLOCKED <=> FirstOf(<<t>>, v))
        BY <2>4, <2>5, <3>1 DEF ChainInv
      <3>3. \A v \in X : Enqueued(v)' /\ pc'[v] \notin {"mark", "link"}
        BY <1>1, <1>6, <2>2 DEF ChainInv
      <3>4. \A v \in Threads : Enqueued(v)' => pc'[v] \in {"mark", "link", "sleep", "asleep", "respin"}
        BY <3>1 DEF ChainInv
      <3>5. \A v \in Threads : pc'[v] \in {"handover", "cull"} => nd'[v].next # NULL
        BY <1>3, <2>2 DEF ChainInv
      <3> QED
        BY <1>1, <1>3, <2>2, <2>3, <2>4, <2>6, <2>7, <3>2, <3>3, <3>4, <3>5 DEF ChainInv, ChainType
    <2> QED
      BY <2>2, <2>3, <2>8
  <1>10. CASE lk.tail # NULL
    <2>1. Step(t, "idle", "idle")
      BY <1>2, <1>10
    <2>2. /\ \A u \in Threads : pc'[u] = pc[u]
          /\ \A u \in Threads : (Enqueued(u)' <=> Enqueued(u)) /\ (Hold(u)' <=> Hold(u))
          /\ Allowed(t) /\ ~Enqueued(t)'
      BY <1>1, <1>4, <1>6, <2>1, ChainMoves, ChainPcs
    <2>3. LineInv(s, X)' /\ InTurn(t)
      BY <1>1, <1>5, <2>2, LineStays
    <2>4. /\ \A u, v : Before(s, u, v) => u # t /\ v # t
          /\ \A u : LastOf(s, u) => u # t
      BY <1>1, <1>7, LineFacts
    <2>5. \A u, v \in Threads : Before(s, u, v) => Linked(u, v)'
      BY <1>2, <1>3, <2>2, <2>4 DEF Linked, ChainInv
    <2>6. loc' = [u \in Threads |-> loc'[u]] /\ lk'.tail = lk.tail
      BY <1>1, <1>2, <1>10
    <2>7. \A u \in Threads : Enqueued(u)' \/ pc'[u] \in {"handover", "cull"} => nd'[u] = nd[u]
      BY <1>3, <1>5, <1>6, <2>2
    <2>8. GraftInv(s, X)'
      <3>1. pc[t] \notin GraftPcs /\ pc'[t] \notin GraftPcs /\ pc'[t] \notin {"mark", "link"}
        BY <1>5, <2>2 DEF GraftPcs
      <3>2. \A u \in X : nd'[u].next = nd[u].next
        BY <1>1, <1>3, <1>6
      <3> QED
        BY <1>1, <1>2, <2>2, <3>1, <3>2, GraftKept
    <2>9. ChainInv(s, X)'
      <3>1. ChainType'
        BY <1>3, <2>6 DEF ChainType
      <3>2. /\ \A v \in Threads : Enqueued(v)' => pc'[v] \in {"mark", "link", "sleep", "asleep", "respin"}
            /\ \A v \in X : Enqueued(v)' /\ pc'[v] \notin {"mark", "link"}
            /\ \A v \in Threads : FirstOf(s, v) => pc'[v] \notin {"mark", "link"}
        BY <1>1, <2>2 DEF ChainInv
      <3>3. \A u \in Threads : LastOf(s, u) => lk'.tail = u /\ nd'[u].next = NULL
        BY <1>3, <2>4, <2>6 DEF ChainInv
      <3>4. \A v \in Threads : Enqueued(v)' /\ pc'[v] # "mark" => (nd'[v].spin = UNLOCKED <=> FirstOf(s, v))
        BY <2>2, <2>7 DEF ChainInv
      <3>5. \A v \in Threads : pc'[v] \in {"handover", "cull"} => nd'[v].next # NULL
        BY <2>2, <2>7 DEF ChainInv
      <3>6. Len(s) = 0 => lk'.tail = NULL
        BY <2>6 DEF ChainInv
      <3> QED
        BY <1>1, <2>3, <2>5, <2>8, <3>1, <3>2, <3>3, <3>4, <3>5, <3>6 DEF ChainInv
    <2> QED
      BY <2>2, <2>3, <2>9
  <1> QED
    BY <1>9, <1>10

\* Steps of a thread in the queue.
LEMMA ChainQueued ==
  ASSUME ApiInv, NEW s, NEW X, ChainInv(s, X), algo' = algo, NEW t \in Threads, Ordered(t),
         Marks(t) \/ Links(t) \/ Sleeps(t)
  PROVE  ChainInv(s, X)' /\ InTurn(t) /\ Allowed(t)
  <1>1. /\ LineInv(s, X) /\ s \in Seq(Threads) /\ Distinct(s) /\ NULL \notin Threads
        /\ loc = [u \in Threads |-> loc[u]]
        /\ nd \in [Threads -> [next : Threads \cup {NULL}, spin : {LOCKED, UNLOCKED}]]
        /\ X \subseteq Threads /\ GraftInv(s, X)
    BY LockApiAssumption DEF ChainInv, LineInv, ChainType
  <1>2. ASSUME NEW p \in {"mark", "link", "sleep", "asleep"}, NEW q \in {"mark", "link", "sleep", "asleep"},
               Step(t, p, q)
        PROVE  /\ pc[t] = p /\ pc'[t] = q /\ \A u \in Threads \ {t} : pc'[u] = pc[u]
               /\ \A u \in Threads : (Enqueued(u)' <=> Enqueued(u)) /\ (Hold(u)' <=> Hold(u))
               /\ Enqueued(t) /\ ~Hold(t) /\ LineInv(s, X)' /\ InTurn(t) /\ Allowed(t)
               /\ pc[t] \notin GraftPcs /\ pc'[t] \notin GraftPcs
    <2>1. Legal(t, p, q) /\ q # "posix" /\ p # "lock" /\ p \notin HeldPcs /\ q \notin HeldPcs
          /\ LockPc(p) /\ LockPc(q) /\ q # "lock"
      BY ChainPcs DEF Legal
    <2>2. /\ pc[t] = p /\ pc'[t] = q /\ \A u \in Threads \ {t} : pc'[u] = pc[u]
          /\ \A u \in Threads : (Enqueued(u)' <=> Enqueued(u)) /\ (Hold(u)' <=> Hold(u))
          /\ Enqueued(t) /\ ~Hold(t) /\ Allowed(t)
      BY <1>1, <1>2, <2>1, ChainMoves
    <2>3. LineInv(s, X)' /\ InTurn(t)
      BY <1>1, <2>1, <2>2, LineStays
    <2> QED
      BY <2>2, <2>3, ChainPcs
  <1>3. CASE Marks(t)
    <2>1. Step(t, "mark", "link") /\ lk'.tail = lk.tail /\ loc' = loc /\ nd' = [nd EXCEPT ![t].spin = LOCKED]
      BY <1>3 DEF Marks
    <2>2. /\ pc[t] = "mark" /\ pc'[t] = "link" /\ \A u \in Threads \ {t} : pc'[u] = pc[u]
          /\ \A u \in Threads : (Enqueued(u)' <=> Enqueued(u)) /\ (Hold(u)' <=> Hold(u))
          /\ LineInv(s, X)' /\ InTurn(t) /\ Allowed(t)
          /\ pc[t] \notin GraftPcs /\ pc'[t] \notin GraftPcs
      BY <1>2, <2>1
    <2>3. /\ nd' \in [Threads -> [next : Threads \cup {NULL}, spin : {LOCKED, UNLOCKED}]]
          /\ nd'[t].spin = LOCKED /\ (\A u \in Threads : nd'[u].next = nd[u].next)
          /\ \A u \in Threads \ {t} : nd'[u] = nd[u]
      BY <1>1, <2>1
    <2>4. ~FirstOf(s, t) /\ t \notin X
      BY <2>2 DEF ChainInv
    <2>5. \A u, v \in Threads : Before(s, u, v) => Linked(u, v)'
      BY <2>1, <2>2, <2>3 DEF Linked, ChainInv
    <2>6. \A v \in Threads : Enqueued(v)' /\ pc'[v] # "mark" => (nd'[v].spin = UNLOCKED <=> FirstOf(s, v))
      BY <2>2, <2>3, <2>4, LockTwo DEF ChainInv
    <2>7. \A v \in Threads : FirstOf(s, v) => pc'[v] \notin {"mark", "link"}
      BY <2>2, <2>4 DEF ChainInv
    <2>8. /\ \A u \in Threads : Enqueued(u)' => pc'[u] \in {"mark", "link", "sleep", "asleep", "respin"}
          /\ \A u \in X : Enqueued(u)' /\ pc'[u] \notin {"mark", "link"}
          /\ \A u \in Threads : pc'[u] \in {"handover", "cull"} => nd'[u].next # NULL
      BY <1>1, <2>2, <2>3, <2>4 DEF ChainInv
    <2>9. loc' = [u \in Threads |-> loc'[u]]
      BY <1>1, <2>1
    <2>10. GraftInv(s, X)'
      BY <1>1, <2>1, <2>2, <2>3, GraftKept
    <2> QED
      BY <1>1, <2>1, <2>2, <2>3, <2>5, <2>6, <2>7, <2>8, <2>9, <2>10 DEF ChainInv, ChainType
  <1>4. CASE Links(t)
    <2>1. /\ Step(t, "link", "sleep") /\ lk'.tail = lk.tail /\ loc' = [loc EXCEPT ![t] = NULL]
          /\ nd' = [nd EXCEPT ![loc[t]].next = t]
      BY <1>4 DEF Links
    <2>2. /\ pc[t] = "link" /\ pc'[t] = "sleep" /\ \A u \in Threads \ {t} : pc'[u] = pc[u]
          /\ \A u \in Threads : (Enqueued(u)' <=> Enqueued(u)) /\ (Hold(u)' <=> Hold(u))
          /\ Enqueued(t) /\ LineInv(s, X)' /\ InTurn(t) /\ Allowed(t)
          /\ pc[t] \notin GraftPcs /\ pc'[t] \notin GraftPcs
      BY <1>2, <2>1
    <2>3. ~FirstOf(s, t) /\ t \notin X
      BY <2>2 DEF ChainInv
    <2>4. At1(s, t)
      BY <2>2, <2>3 DEF ChainInv, LineInv
    <2>5. PICK w \in Threads : Before(s, w, t)
      BY <1>1, <2>3, <2>4, LineFacts
    <2>6. loc[t] = w /\ w # t /\ ~LastOf(s, w)
      BY <1>1, <2>2, <2>5, LineFacts DEF ChainInv, Linked
    <2>7. /\ nd' \in [Threads -> [next : Threads \cup {NULL}, spin : {LOCKED, UNLOCKED}]]
          /\ nd'[w].next = t /\ (\A u \in Threads : nd'[u].spin = nd[u].spin)
          /\ \A u \in Threads \ {w} : nd'[u] = nd[u]
      BY <1>1, <2>1, <2>6
    <2>8. loc' = [u \in Threads |-> loc'[u]] /\ \A u \in Threads \ {t} : loc'[u] = loc[u]
      BY <1>1, <2>1
    <2>9. ASSUME NEW u \in Threads, NEW v \in Threads, Before(s, u, v)
          PROVE  Linked(u, v)'
      <3>1. CASE v = t
        <4>1. u = w /\ pc'[t] \notin {"mark", "link"}
          BY <1>1, <2>2, <2>5, <2>9, <3>1, LineFacts
        <4>2. pc[w] # "graftlink"
          <5>1. SUFFICES ASSUME pc[w] = "graftlink"
                         PROVE  FALSE
            OBVIOUS
          <5>2. Before(s, w, loc[w]) /\ pc[loc[w]] \notin {"mark", "link"}
            BY <1>1, <5>1 DEF GraftInv
          <5>3. loc[w] = t
            BY <1>1, <2>5, <5>2, LineFacts
          <5> QED
            BY <2>2, <5>2, <5>3
        <4> QED
          BY <2>2, <2>6, <2>7, <3>1, <4>1, <4>2 DEF Linked
      <3>2. CASE v # t
        <4>1. u # w
          BY <1>1, <2>5, <2>9, <3>2, LineFacts
        <4>2. Linked(u, v)
          BY <2>9 DEF ChainInv
        <4>3. pc'[u] = "graftlink" <=> pc[u] = "graftlink"
          BY <2>2
        <4>4. pc[u] = "graftlink" => u # t
          BY <2>2
        <4> QED
          BY <2>2, <2>7, <2>8, <3>2, <4>1, <4>2, <4>3, <4>4 DEF Linked
      <3> QED
        BY <3>1, <3>2
    <2>10. /\ \A u \in Threads : Enqueued(u)' => pc'[u] \in {"mark", "link", "sleep", "asleep", "respin"}
           /\ \A u \in X : Enqueued(u)' /\ pc'[u] \notin {"mark", "link"}
           /\ \A u \in Threads : FirstOf(s, u) => pc'[u] \notin {"mark", "link"}
      BY <1>1, <2>2, <2>3 DEF ChainInv
    <2>11. \A u \in Threads : pc'[u] \in {"handover", "cull"} => nd'[u].next # NULL
      <3>1. \A u \in Threads : nd[u].next # NULL => nd'[u].next # NULL
        BY <1>1, <2>7
      <3> QED
        BY <2>2, <3>1 DEF ChainInv
    <2>15. GraftInv(s, X)'
      <3>1. w \notin X
        BY <1>1, <2>5, LineFacts DEF LineInv
      <3>2. \A u \in X : nd'[u].next = nd[u].next
        BY <1>1, <2>7, <3>1
      <3>3. pc'[t] \notin {"mark", "link"}
        BY <2>2
      <3> QED
        BY <1>1, <2>2, <2>8, <3>2, <3>3, GraftKept
    <2>12. \A v \in Threads : Enqueued(v)' /\ pc'[v] # "mark" => (nd'[v].spin = UNLOCKED <=> FirstOf(s, v))
      BY <2>2, <2>3, <2>7 DEF ChainInv
    <2>13. \A u \in Threads : LastOf(s, u) => lk'.tail = u /\ nd'[u].next = NULL
      BY <2>1, <2>6, <2>7 DEF ChainInv
    <2>14. Len(s) = 0 => lk'.tail = NULL
      BY <2>1 DEF ChainInv
    <2> QED
      BY <1>1, <2>2, <2>7, <2>8, <2>9, <2>10, <2>11, <2>12, <2>13, <2>14, <2>15 DEF ChainInv, ChainType
  <1>5. CASE Sleeps(t)
    <2>1. PICK p \in {"sleep", "asleep"}, q \in {"sleep", "asleep"} : Step(t, p, q)
      BY <1>5 DEF Sleeps
    <2>2. lk' = lk /\ nd' = nd /\ loc' = loc
      BY <1>5 DEF Sleeps
    <2>3. /\ pc[t] = p /\ pc'[t] = q /\ \A u \in Threads \ {t} : pc'[u] = pc[u]
          /\ \A u \in Threads : (Enqueued(u)' <=> Enqueued(u)) /\ (Hold(u)' <=> Hold(u))
          /\ LineInv(s, X)' /\ InTurn(t) /\ Allowed(t)
          /\ pc[t] \notin GraftPcs /\ pc'[t] \notin GraftPcs
      BY <1>2, <2>1
    <2>4. \A u \in Threads : /\ pc'[u] \in {"mark", "link"} <=> pc[u] \in {"mark", "link"}
                             /\ pc'[u] = "mark" <=> pc[u] = "mark"
                             /\ pc'[u] = "graftlink" <=> pc[u] = "graftlink"
                             /\ pc'[u] \in {"handover", "cull"} <=> pc[u] \in {"handover", "cull"}
      BY <2>3
    <2>5. \A u, v \in Threads : Before(s, u, v) => Linked(u, v)'
      BY <2>2, <2>4 DEF Linked, ChainInv
    <2>6. \A u \in Threads : Enqueued(u)' => pc'[u] \in {"mark", "link", "sleep", "asleep", "respin"}
      BY <2>3 DEF ChainInv
    <2>7. GraftInv(s, X)'
      BY <1>1, <2>2, <2>3, GraftKept
    <2> QED
      BY <1>1, <2>2, <2>3, <2>4, <2>5, <2>6, <2>7 DEF ChainInv, ChainType
  <1> QED
    BY <1>3, <1>4, <1>5

\* What moves t from p to q keeps, when t is neither grafting nor queued behind.
LEMMA ChainRest ==
  ASSUME NEW s, NEW X, ChainInv(s, X), NEW t \in Threads, t \notin X,
         pc'[t] \notin {"mark", "link", "graft", "graftwait", "graftlink"}, pc[t] \notin GraftPcs,
         pc[t] \notin {"mark", "link"},
         \A u \in Threads \ {t} : pc'[u] = pc[u] /\ loc'[u] = loc[u] /\ (Enqueued(u)' <=> Enqueued(u)),
         \A u \in Threads : nd'[u].next = nd[u].next,
         ~Enqueued(t)',
         pc'[t] \in {"handover", "cull"} => nd[t].next # NULL,
         NEW r, \A u, v : Before(s, u, v) /\ u # t => Before(r, u, v)
  PROVE  /\ \A u, v \in Threads : Before(s, u, v) => Linked(u, v)'
         /\ \A u \in X : Enqueued(u)' /\ pc'[u] \notin {"mark", "link"}
         /\ \A u \in Threads : Enqueued(u)' => u # t /\ pc'[u] \in {"mark", "link", "sleep", "asleep", "respin"}
         /\ \A u \in Threads : pc'[u] \in {"handover", "cull"} => nd'[u].next # NULL
         /\ GraftInv(r, X)'
  <1>1. s \in Seq(Threads) /\ Distinct(s) /\ X \subseteq Threads /\ GraftInv(s, X)
    BY DEF ChainInv, LineInv
  <1>2. ASSUME NEW u \in Threads, NEW v \in Threads, Before(s, u, v)
        PROVE  Linked(u, v)'
    <2>1. Linked(u, v)
      BY <1>2 DEF ChainInv
    <2>2. pc'[v] \in {"mark", "link"} <=> pc[v] \in {"mark", "link"}
      OBVIOUS
    <2>3. pc'[v] \in {"mark", "link"} => loc'[v] = loc[v]
      OBVIOUS
    <2>4. pc'[u] = "graftlink" <=> pc[u] = "graftlink"
      BY DEF GraftPcs
    <2>5. pc'[u] = "graftlink" => loc'[u] = loc[u]
      OBVIOUS
    <2> QED
      BY <2>1, <2>2, <2>3, <2>4, <2>5 DEF Linked
  <1>3. /\ \A u \in X : Enqueued(u)' /\ pc'[u] \notin {"mark", "link"}
        /\ \A u \in Threads : Enqueued(u)' => u # t /\ pc'[u] \in {"mark", "link", "sleep", "asleep", "respin"}
    BY <1>1 DEF ChainInv
  <1>4. \A u \in Threads : pc'[u] \in {"handover", "cull"} => nd'[u].next # NULL
    BY DEF ChainInv
  <1>5. pc'[t] \notin GraftPcs /\ \A u \in X : nd'[u].next = nd[u].next
    BY <1>1 DEF GraftPcs
  <1>6. GraftInv(r, X)'
    BY <1>1, <1>5, GraftKept
  <1> QED
    BY <1>2, <1>3, <1>4, <1>6

\* The front sees that it is, ...
LEMMA ChainEnters ==
  ASSUME ApiInv, NEW s, NEW X, ChainInv(s, X), algo' = algo, NEW t \in Threads, Ordered(t), Enters(t)
  PROVE  ChainInv(s, X)' /\ InTurn(t) /\ Allowed(t)
  <1>1. /\ LineInv(s, X) /\ s \in Seq(Threads) /\ Distinct(s) /\ ChainType
    BY DEF ChainInv, LineInv
  <1>2. PICK p \in {"sleep", "respin"} : Step(t, p, "posix")
    BY DEF Enters
  <1>3. nd[t].spin = UNLOCKED /\ lk' = lk /\ nd' = nd /\ loc' = loc
    BY DEF Enters
  <1>4. Legal(t, p, "posix")
    BY ChainPcs DEF Legal
  <1>5. /\ pc[t] = p /\ pc'[t] = "posix" /\ \A u \in Threads \ {t} : pc'[u] = pc[u]
        /\ \A u \in Threads \ {t} : (Enqueued(u)' <=> Enqueued(u)) /\ (Hold(u)' <=> Hold(u))
        /\ Allowed(t) /\ Enqueued(t) /\ ~Enqueued(t)'
    BY <1>1, <1>2, <1>4, ChainMoves, ChainPcs
  <1>6. FirstOf(s, t)
    BY <1>3, <1>5 DEF ChainInv
  <1>7. t \notin X
    BY <1>1, <1>6, LineFacts DEF LineInv
  <1>8. LineInv(s, X)' /\ InTurn(t)
    BY <1>1, <1>5, <1>6, LineGrant
  <1>9. /\ \A u, v \in Threads : Before(s, u, v) => Linked(u, v)'
        /\ \A u \in X : Enqueued(u)' /\ pc'[u] \notin {"mark", "link"}
        /\ \A u \in Threads : Enqueued(u)' => u # t /\ pc'[u] \in {"mark", "link", "sleep", "asleep", "respin"}
        /\ \A u \in Threads : pc'[u] \in {"handover", "cull"} => nd'[u].next # NULL
        /\ GraftInv(s, X)'
    <2>1. pc[t] \notin GraftPcs /\ pc[t] \notin {"mark", "link"}
      BY <1>5 DEF GraftPcs
    <2> QED
      BY <1>3, <1>5, <1>7, <2>1, ChainRest
  <1>10. \A v \in Threads : Enqueued(v)' /\ pc'[v] # "mark" => (nd'[v].spin = UNLOCKED <=> FirstOf(s, v))
    BY <1>3, <1>5 DEF ChainInv
  <1>11. \A v \in Threads : FirstOf(s, v) => pc'[v] \notin {"mark", "link"}
    BY <1>5 DEF ChainInv
  <1> QED
    BY <1>1, <1>3, <1>5, <1>8, <1>9, <1>10, <1>11 DEF ChainInv, ChainType

\* ... the holder goes on, ...
LEMMA ChainTurns ==
  ASSUME ApiInv, NEW s, NEW X, ChainInv(s, X), algo' = algo, NEW t \in Threads, Ordered(t), Turns(t)
  PROVE  ChainInv(s, X)' /\ InTurn(t) /\ Allowed(t)
  <1>1. /\ LineInv(s, X) /\ s \in Seq(Threads) /\ Distinct(s) /\ ChainType
    BY DEF ChainInv, LineInv
  <1>2. PICK p \in UnlockPcs \ GraftPcs, q \in UnlockPcs \ GraftPcs :
          Step(t, p, q) /\ (q \in {"handover", "cull"} => nd[t].next # NULL)
    BY DEF Turns
  <1>3. lk' = lk /\ nd' = nd /\ loc' = loc
    BY DEF Turns
  <1>4. Legal(t, p, q)
    BY DEF Legal
  <1>5. p \in HeldPcs /\ q \in HeldPcs /\ ~LockPc(p) /\ ~LockPc(q)
    BY ChainPcs
  <1>6. /\ pc[t] = p /\ pc'[t] = q /\ \A u \in Threads \ {t} : pc'[u] = pc[u]
        /\ \A u \in Threads : (Enqueued(u)' <=> Enqueued(u)) /\ (Hold(u)' <=> Hold(u))
        /\ Allowed(t) /\ Hold(t) /\ ~Enqueued(t)'
    BY <1>1, <1>2, <1>4, <1>5, ChainMoves
  <1>7. FirstOf(s, t) /\ t \notin X
    BY <1>1, <1>6, LineHolder DEF LineInv
  <1>12. \A w \in {"mark", "link", "lock", "posix"} : w \notin UnlockPcs
    BY DEF UnlockPcs
  <1>8. LineInv(s, X)' /\ InTurn(t)
    BY <1>1, <1>6, <1>12, LineStays
  <1>9. /\ \A u, v \in Threads : Before(s, u, v) => Linked(u, v)'
        /\ \A u \in X : Enqueued(u)' /\ pc'[u] \notin {"mark", "link"}
        /\ \A u \in Threads : Enqueued(u)' => u # t /\ pc'[u] \in {"mark", "link", "sleep", "asleep", "respin"}
        /\ \A u \in Threads : pc'[u] \in {"handover", "cull"} => nd'[u].next # NULL
        /\ GraftInv(s, X)'
    <2>1. pc[t] \notin GraftPcs /\ pc[t] \notin {"mark", "link"}
      BY <1>6, <1>12
    <2>2. pc'[t] \notin {"mark", "link", "graft", "graftwait", "graftlink"}
      BY <1>6, <1>12 DEF GraftPcs
    <2> QED
      BY <1>2, <1>3, <1>6, <1>7, <2>1, <2>2, ChainRest
  <1>10. \A v \in Threads : Enqueued(v)' /\ pc'[v] # "mark" => (nd'[v].spin = UNLOCKED <=> FirstOf(s, v))
    BY <1>3, <1>6 DEF ChainInv
  <1>11. \A v \in Threads : FirstOf(s, v) => pc'[v] \notin {"mark", "link"}
    BY <1>6, <1>12 DEF ChainInv
  <1> QED
    BY <1>1, <1>3, <1>6, <1>8, <1>9, <1>10, <1>11 DEF ChainInv, ChainType

\* ... or leaves, and the queue is empty ...
LEMMA ChainEmpties ==
  ASSUME ApiInv, NEW s, NEW X, ChainInv(s, X), algo' = algo, NEW t \in Threads, Ordered(t), Empties(t)
  PROVE  (\E r : ChainInv(r, X)') /\ InTurn(t) /\ Allowed(t)
  <1>1. /\ LineInv(s, X) /\ s \in Seq(Threads) /\ Distinct(s) /\ ChainType
    BY DEF ChainInv, LineInv
  <1>2. lk.tail = t /\ Step(t, "castail", After(t)) /\ lk'.tail = NULL /\ nd' = nd /\ loc' = loc
    BY DEF Empties
  <1>3. Legal(t, "castail", After(t)) /\ After(t) # "posix"
    BY ChainPcs DEF Legal, After
  <1>4. /\ pc[t] = "castail" /\ pc'[t] = After(t) /\ \A u \in Threads \ {t} : pc'[u] = pc[u]
        /\ \A u \in Threads \ {t} : (Enqueued(u)' <=> Enqueued(u)) /\ (Hold(u)' <=> Hold(u))
        /\ Allowed(t) /\ Hold(t) /\ ~Hold(t)' /\ ~Enqueued(t)'
    BY <1>1, <1>2, <1>3, ChainMoves, ChainPcs
  <1>5. FirstOf(s, t) /\ t \notin X
    BY <1>1, <1>4, LineHolder DEF LineInv
  <1>6. LineInv(Tail(s), X)' /\ InTurn(t)
    BY <1>1, <1>3, <1>4, LineLeave
  <1>7. LastOf(s, t)
    BY <1>1, <1>2, <1>5, LineFacts DEF ChainInv
  <1>8. Len(s) = 1 /\ Len(Tail(s)) = Len(s) - 1
    BY <1>1, <1>5, <1>7, LineFacts, LineTail
  <1>9. /\ Len(Tail(s)) = 0 /\ \A u : ~FirstOf(Tail(s), u) /\ ~LastOf(Tail(s), u)
        /\ \A u, v : ~Before(Tail(s), u, v)
    BY <1>1, <1>8, <1>5, LineTail DEF FirstOf, LastOf, Before
  <1>10. /\ \A u \in X : Enqueued(u)' /\ pc'[u] \notin {"mark", "link"}
         /\ \A u \in Threads : Enqueued(u)' => u # t /\ pc'[u] \in {"mark", "link", "sleep", "asleep", "respin"}
         /\ \A u \in Threads : pc'[u] \in {"handover", "cull"} => nd'[u].next # NULL
         /\ GraftInv(Tail(s), X)'
    <2>1. /\ pc[t] \notin GraftPcs /\ pc[t] \notin {"mark", "link"}
          /\ pc'[t] \notin {"mark", "link", "graft", "graftwait", "graftlink", "handover", "cull"}
      BY <1>4 DEF GraftPcs, After
    <2>2. \A u, v : Before(s, u, v) /\ u # t => Before(Tail(s), u, v)
      BY <1>1, <1>5, LineTail
    <2> QED
      BY <1>2, <1>4, <1>5, <2>1, <2>2, ChainRest
  <1>11. \A v \in Threads : Enqueued(v)' /\ pc'[v] # "mark" => nd'[v].spin # UNLOCKED
    <2> SUFFICES ASSUME NEW v \in Threads, Enqueued(v)', pc'[v] # "mark"
                 PROVE  nd[v].spin # UNLOCKED
      BY <1>2
    <2>1. v # t /\ Enqueued(v) /\ pc[v] # "mark"
      BY <1>4
    <2>2. ~FirstOf(s, v)
      BY <1>5, <2>1 DEF FirstOf
    <2> QED
      BY <2>1, <2>2 DEF ChainInv
  <1>12. ChainInv(Tail(s), X)'
    BY <1>1, <1>2, <1>6, <1>9, <1>10, <1>11 DEF ChainInv, ChainType
  <1> QED
    BY <1>4, <1>6, <1>12

\* ... or passes the lock on.
LEMMA ChainWakes ==
  ASSUME ApiInv, NEW s, NEW X, ChainInv(s, X), algo' = algo, NEW t \in Threads, Ordered(t), Wakes(t)
  PROVE  (\E r : ChainInv(r, X)') /\ InTurn(t) /\ Allowed(t)
  <1>1. /\ LineInv(s, X) /\ s \in Seq(Threads) /\ Distinct(s) /\ ChainType
        /\ loc = [u \in Threads |-> loc[u]]
        /\ nd \in [Threads -> [next : Threads \cup {NULL}, spin : {LOCKED, UNLOCKED}]]
    BY DEF ChainInv, LineInv, ChainType
  <1>2. PICK q \in {"futexwake", After(t)} : Step(t, "handover", q)
    BY DEF Wakes
  <1>3. PICK x : loc' = [loc EXCEPT ![t] = x]
    BY DEF Wakes
  <1>4. nd' = [nd EXCEPT ![nd[t].next].spin = UNLOCKED] /\ lk' = lk
    BY DEF Wakes
  <1>5. Legal(t, "handover", q) /\ q # "posix" /\ q \notin HeldPcs /\ ~(LockPc(q) /\ q # "lock")
        /\ q \notin {"mark", "link", "graft", "graftwait", "graftlink", "handover", "cull"}
    BY ChainPcs DEF Legal, After
  <1>6. /\ pc[t] = "handover" /\ pc'[t] = q /\ \A u \in Threads \ {t} : pc'[u] = pc[u]
        /\ \A u \in Threads \ {t} : (Enqueued(u)' <=> Enqueued(u)) /\ (Hold(u)' <=> Hold(u))
        /\ Allowed(t) /\ Hold(t) /\ ~Hold(t)' /\ ~Enqueued(t)'
    BY <1>1, <1>2, <1>5, ChainMoves, ChainPcs
  <1>7. FirstOf(s, t) /\ t \notin X
    BY <1>1, <1>6, LineHolder DEF LineInv
  <1>8. LineInv(Tail(s), X)' /\ InTurn(t)
    BY <1>1, <1>5, <1>6, LineLeave
  <1>9. nd[t].next # NULL
    BY <1>6 DEF ChainInv
  <1>10. PICK w \in Threads : Before(s, t, w)
    BY <1>1, <1>7, <1>9, LineFacts DEF ChainInv
  <1>11. nd[t].next = w /\ pc[w] \notin {"mark", "link"} /\ w # t /\ ~LastOf(s, t)
    <2>1. Linked(t, w)
      BY <1>10 DEF ChainInv
    <2> QED
      BY <1>1, <1>6, <1>9, <1>10, <2>1, LineFacts DEF Linked
  <1>12. /\ nd' \in [Threads -> [next : Threads \cup {NULL}, spin : {LOCKED, UNLOCKED}]]
         /\ nd'[w].spin = UNLOCKED /\ (\A u \in Threads : nd'[u].next = nd[u].next)
         /\ \A u \in Threads \ {w} : nd'[u] = nd[u]
    BY <1>1, <1>4, <1>11
  <1>13. loc' = [u \in Threads |-> loc'[u]] /\ \A u \in Threads \ {t} : loc'[u] = loc[u]
    BY <1>1, <1>3
  <1>14. /\ \A u, v : Before(Tail(s), u, v) <=> Before(s, u, v) /\ u # t
         /\ \A u : LastOf(Tail(s), u) <=> LastOf(s, u) /\ u # t
         /\ \A u : FirstOf(Tail(s), u) <=> Before(s, t, u)
         /\ Tail(s) \in Seq(Threads)
    BY <1>1, <1>7, LineTail
  <1>15. \A u : FirstOf(Tail(s), u) <=> u = w
    BY <1>1, <1>10, <1>14, LineFacts
  <1>16. /\ \A u, v \in Threads : Before(s, u, v) => Linked(u, v)'
         /\ \A u \in X : Enqueued(u)' /\ pc'[u] \notin {"mark", "link"}
         /\ \A u \in Threads : Enqueued(u)' => u # t /\ pc'[u] \in {"mark", "link", "sleep", "asleep", "respin"}
         /\ \A u \in Threads : pc'[u] \in {"handover", "cull"} => nd'[u].next # NULL
         /\ GraftInv(Tail(s), X)'
    <2>1. pc[t] \notin GraftPcs /\ pc[t] \notin {"mark", "link"}
      BY <1>6 DEF GraftPcs
    <2> QED
      BY <1>5, <1>6, <1>7, <1>12, <1>13, <1>14, <2>1, ChainRest
  <1>17. ASSUME NEW v \in Threads, Enqueued(v)', pc'[v] # "mark"
         PROVE  nd'[v].spin = UNLOCKED <=> v = w
    <2>1. v # t /\ Enqueued(v) /\ pc[v] # "mark"
      BY <1>6, <1>17
    <2>2. ~FirstOf(s, v)
      BY <1>7, <2>1 DEF FirstOf
    <2>3. nd[v].spin # UNLOCKED
      BY <2>1, <2>2 DEF ChainInv
    <2> QED
      BY <1>12, <2>3
  <1>18. pc'[w] \notin {"mark", "link"}
    BY <1>6, <1>11
  <1>19. Len(Tail(s)) # 0
    BY <1>15 DEF FirstOf
  <1>20. \A u \in Threads : LastOf(Tail(s), u) => lk'.tail = u /\ nd'[u].next = NULL
    BY <1>4, <1>12, <1>14 DEF ChainInv
  <1>21. ChainInv(Tail(s), X)'
    BY <1>1, <1>8, <1>12, <1>13, <1>14, <1>15, <1>16, <1>17, <1>18, <1>19, <1>20 DEF ChainInv, ChainType
  <1> QED
    BY <1>6, <1>8, <1>21

\* The system call comes after the store, and disturbs nobody.
LEMMA FutexMoves ==
  ASSUME ApiInv, NEW s, NEW X, LineInv(s, X), algo' = algo, NEW t \in Threads, Ordered(t), FutexWakes(t)
  PROVE  /\ pc[t] = "futexwake" /\ pc'[t] = After(t) /\ Allowed(t)
         /\ \A u \in Threads \ {t} : pc'[u] = pc[u] \/ (pc[u] = "asleep" /\ pc'[u] = "respin")
         /\ \A u \in Threads : (Enqueued(u)' <=> Enqueued(u)) /\ (Hold(u)' <=> Hold(u))
         /\ ~Enqueued(t) /\ LineInv(s, X)' /\ InTurn(t)
  <1>1. s \in Seq(Threads) /\ Distinct(s)
    BY DEF LineInv
  <1>2. /\ pc[t] = "futexwake" /\ UNCHANGED <<posix_lock, inWait>>
        /\ \/ pc' = [pc EXCEPT ![t] = After(t)]
           \/ \E u \in Threads : pc[u] = "asleep" /\ pc' = [pc EXCEPT ![t] = After(t), ![u] = "respin"]
    BY DEF FutexWakes
  <1>3. Legal(t, "futexwake", After(t)) /\ After(t) # "posix" /\ After(t) # "lock"
    BY ChainPcs DEF Legal, After
  <1>4. /\ pc'[t] = After(t) /\ Allowed(t)
        /\ \A u \in Threads \ {t} : /\ (pc'[u] = pc[u] \/ (pc[u] = "asleep" /\ pc'[u] = "respin"))
                                    /\ (Hold(u)' <=> Hold(u))
    <2>1. CASE pc' = [pc EXCEPT ![t] = After(t)]
      <3>1. Step(t, "futexwake", After(t))
        BY <1>2, <2>1 DEF Step
      <3> QED
        BY <1>3, <3>1, StepMoves
    <2>2. CASE \E u \in Threads : pc[u] = "asleep" /\ pc' = [pc EXCEPT ![t] = After(t), ![u] = "respin"]
      <3>1. PICK u \in Threads : pc[u] = "asleep" /\ pc' = [pc EXCEPT ![t] = After(t), ![u] = "respin"]
        BY <2>2
      <3>2. u # t /\ LockPc("asleep") /\ LockPc("respin")
        BY <1>2, <3>1, LockPcs
      <3>3. /\ pc'[t] = After(t) /\ pc'[u] = "respin" /\ \A v \in Threads \ {t, u} : pc'[v] = pc[v]
            /\ PcType'
        BY <3>1, <3>2 DEF ApiInv, PcType
      <3>4. LockPc(pc[u]) /\ LockPc(pc'[u]) /\ Legal(t, pc[t], pc'[t])
        BY <1>2, <1>3, <3>1, <3>2, <3>3
      <3>5. Allowed(t)
        BY <1>2, <3>3, <3>4 DEF Allowed, Legal
      <3>6. \A v \in Threads \ {t} : Hold(v)' <=> Hold(v)
        <4>1. \A p : LockPc(p) => p \notin HeldPcs
          BY DEF LockPc, HeldPcs, WrapperPcs
        <4> QED
          BY <3>3, <3>4, <4>1 DEF Hold
      <3> QED
        BY <3>1, <3>3, <3>5, <3>6
    <2> QED
      BY <1>2, <2>1, <2>2
  <1>5. /\ \A u \in Threads : (Enqueued(u)' <=> Enqueued(u)) /\ (Hold(u)' <=> Hold(u))
        /\ ~Enqueued(t)
    <2>1. LockPc("asleep") /\ LockPc("respin")
      BY LockPcs
    <2>2. \A p \in {"futexwake", After(t)} : p \notin HeldPcs /\ ~(LockPc(p) /\ p # "lock")
      BY ChainPcs
    <2>3. ~Enqueued(t) /\ ~Enqueued(t)' /\ ~Hold(t) /\ ~Hold(t)'
      BY <1>2, <1>4, <2>2 DEF Enqueued, Hold
    <2>4. \A u \in Threads \ {t} : Enqueued(u)' <=> Enqueued(u)
      BY <1>4, <2>1 DEF Enqueued
    <2> QED
      BY <1>4, <2>3, <2>4
  <1>6. LineInv(s, X)' /\ InTurn(t)
    BY <1>1, <1>2, <1>3, <1>4, <1>5, LineStays
  <1> QED
    BY <1>2, <1>4, <1>5, <1>6

LEMMA ChainFutex ==
  ASSUME ApiInv, NEW s, NEW X, ChainInv(s, X), algo' = algo, NEW t \in Threads, Ordered(t), FutexWakes(t)
  PROVE  ChainInv(s, X)' /\ InTurn(t) /\ Allowed(t)
  <1>1. /\ LineInv(s, X) /\ s \in Seq(Threads) /\ Distinct(s) /\ X \subseteq Threads /\ GraftInv(s, X)
        /\ loc = [u \in Threads |-> loc[u]]
    BY DEF ChainInv, LineInv, ChainType
  <1>2. pc[t] = "futexwake" /\ lk' = lk /\ nd' = nd /\ loc' = [loc EXCEPT ![t] = NULL]
    BY DEF FutexWakes
  <1>4. /\ pc'[t] = After(t) /\ Allowed(t)
        /\ \A u \in Threads \ {t} : pc'[u] = pc[u] \/ (pc[u] = "asleep" /\ pc'[u] = "respin")
    BY <1>1, FutexMoves
  <1>5. /\ \A u \in Threads : (Enqueued(u)' <=> Enqueued(u)) /\ (Hold(u)' <=> Hold(u))
        /\ ~Enqueued(t) /\ LineInv(s, X)' /\ InTurn(t)
    BY <1>1, FutexMoves
  <1>7. pc'[t] \notin {"mark", "link", "graft", "graftwait", "graftlink", "handover", "cull"} /\ t \notin X
        /\ pc[t] \notin GraftPcs /\ pc'[t] \notin GraftPcs
    BY <1>2, <1>4, <1>5 DEF After, ChainInv, GraftPcs
  <1>8. \A u \in Threads : /\ pc'[u] \in {"mark", "link"} <=> pc[u] \in {"mark", "link"}
                           /\ pc'[u] = "mark" <=> pc[u] = "mark"
                           /\ pc'[u] = "graftlink" <=> pc[u] = "graftlink"
                           /\ pc'[u] \in {"handover", "cull"} <=> pc[u] \in {"handover", "cull"}
    BY <1>2, <1>4, <1>7
  <1>9. loc' = [u \in Threads |-> loc'[u]] /\ \A u \in Threads \ {t} : loc'[u] = loc[u]
    BY <1>1, <1>2
  <1>10. ASSUME NEW u \in Threads, NEW v \in Threads, Before(s, u, v)
         PROVE  Linked(u, v)'
    <2>1. Linked(u, v)
      BY <1>10 DEF ChainInv
    <2>2. pc'[v] \in {"mark", "link"} => v # t
      BY <1>7
    <2>3. pc'[u] = "graftlink" => u # t
      BY <1>7
    <2> QED
      BY <1>2, <1>8, <1>9, <2>1, <2>2, <2>3 DEF Linked
  <1>11. GraftInv(s, X)'
    BY <1>1, <1>2, <1>4, <1>7, <1>9, GraftKept
  <1>12. \A u \in Threads : Enqueued(u)' => pc'[u] \in {"mark", "link", "sleep", "asleep", "respin"}
    <2> SUFFICES ASSUME NEW u \in Threads, Enqueued(u)'
                 PROVE  pc'[u] \in {"mark", "link", "sleep", "asleep", "respin"}
      OBVIOUS
    <2>1. Enqueued(u) /\ u # t
      BY <1>5
    <2> QED
      BY <1>4, <2>1 DEF ChainInv
  <1>13. \A u \in X : Enqueued(u)' /\ pc'[u] \notin {"mark", "link"}
    BY <1>1, <1>5, <1>8 DEF ChainInv
  <1>14. /\ \A v \in Threads : Enqueued(v)' /\ pc'[v] # "mark" => (nd'[v].spin = UNLOCKED <=> FirstOf(s, v))
         /\ \A v \in Threads : FirstOf(s, v) => pc'[v] \notin {"mark", "link"}
         /\ \A u \in Threads : pc'[u] \in {"handover", "cull"} => nd'[u].next # NULL
    BY <1>2, <1>5, <1>8 DEF ChainInv
  <1> QED
    BY <1>1, <1>2, <1>4, <1>5, <1>9, <1>10, <1>11, <1>12, <1>13, <1>14 DEF ChainInv, ChainType

LEMMA ChainStep ==
  ASSUME ApiInv, NEW s, NEW X, ChainInv(s, X), algo' = algo, NEW t \in Threads, Ordered(t), ChainMove(t)
  PROVE  (\E r : ChainInv(r, X)') /\ InTurn(t) /\ Allowed(t)
  <1>1. CASE Arrives(t)
    BY <1>1, ChainArrives
  <1>2. CASE TriesTail(t)
    BY <1>2, ChainTries
  <1>3. CASE Marks(t) \/ Links(t) \/ Sleeps(t)
    BY <1>3, ChainQueued
  <1>4. CASE Enters(t)
    BY <1>4, ChainEnters
  <1>5. CASE Turns(t)
    BY <1>5, ChainTurns
  <1>6. CASE Empties(t)
    BY <1>6, ChainEmpties
  <1>7. CASE Wakes(t)
    BY <1>7, ChainWakes
  <1>8. CASE FutexWakes(t)
    BY <1>8, ChainFutex
  <1> QED
    BY <1>1, <1>2, <1>3, <1>4, <1>5, <1>6, <1>7, <1>8 DEF ChainMove

LEMMA ChainWrapped ==
  ASSUME ApiInv, NEW s, NEW X, ChainInv(s, X), algo' = algo, NEW t \in Threads, Ordered(t), Wrapped(t)
  PROVE  ChainInv(s, X)' /\ InTurn(t) /\ lk' = lk /\ nd' = nd /\ loc' = loc
         /\ \A u \in Threads : Around(u)
  <1>1. /\ LineInv(s, X) /\ s \in Seq(Threads) /\ Distinct(s) /\ X \subseteq Threads /\ GraftInv(s, X)
    BY DEF ChainInv, LineInv
  <1>2. /\ LineInv(s, X)' /\ InTurn(t)
        /\ lk' = lk /\ nd' = nd /\ loc' = loc
        /\ \A u \in Threads : Around(u) /\ (Enqueued(u)' <=> Enqueued(u)) /\ (Hold(u)' <=> Hold(u))
        /\ \A u \in Threads : Enqueued(u) => pc'[u] = pc[u]
    BY <1>1, LineWrapped
  <1>3. ASSUME NEW u \in Threads
        PROVE  /\ pc'[u] \in {"mark", "link"} <=> pc[u] \in {"mark", "link"}
               /\ pc'[u] = "mark" <=> pc[u] = "mark"
               /\ pc'[u] = "graft" <=> pc[u] = "graft"
               /\ pc'[u] = "graftwait" <=> pc[u] = "graftwait"
               /\ pc'[u] = "graftlink" <=> pc[u] = "graftlink"
               /\ pc'[u] \in {"handover", "cull"} <=> pc[u] \in {"handover", "cull"}
    BY <1>2 DEF Around, RestPcs
  <1>4. ASSUME NEW u \in Threads, NEW v \in Threads, Before(s, u, v)
        PROVE  Linked(u, v)'
    <2>1. Linked(u, v)
      BY <1>4 DEF ChainInv
    <2> QED
      BY <1>2, <1>3, <2>1 DEF Linked
  <1>5. GraftInv(s, X)'
    <2>1. \A u, v \in Threads : Before(s, u, v) => (pc'[v] \in {"mark", "link"} <=> pc[v] \in {"mark", "link"})
      BY <1>3
    <2>2. \A u, v : Before(s, u, v) => u \in Threads /\ v \in Threads
      BY <1>1, LineFacts
    <2> QED
      BY <1>1, <1>2, <1>3, <2>1, <2>2 DEF GraftInv
  <1>6. /\ \A u \in Threads : Enqueued(u)' => pc'[u] \in {"mark", "link", "sleep", "asleep", "respin"}
        /\ \A u \in X : Enqueued(u)' /\ pc'[u] \notin {"mark", "link"}
        /\ \A v \in Threads : Enqueued(v)' /\ pc'[v] # "mark" => (nd'[v].spin = UNLOCKED <=> FirstOf(s, v))
    BY <1>1, <1>2 DEF ChainInv
  <1>7. /\ \A v \in Threads : FirstOf(s, v) => pc'[v] \notin {"mark", "link"}
        /\ \A u \in Threads : pc'[u] \in {"handover", "cull"} => nd'[u].next # NULL
    BY <1>2, <1>3 DEF ChainInv
  <1> QED
    BY <1>1, <1>2, <1>4, <1>5, <1>6, <1>7 DEF ChainInv, ChainType

TailOnly == lk' = [lk EXCEPT !.tail = lk'.tail]

LEMMA McsSpinCalls ==
  ASSUME NEW t \in Threads
  PROVE  /\ McsSpin!CallLock(t) => CallLock(t)
         /\ McsSpin!PosixLock(t) => PosixLock(t)
         /\ McsSpin!PosixTryLock(t) => PosixTryLock(t)
         /\ McsSpin!PosixUnlock(t) => PosixUnlock(t)
         /\ McsSpin!CondTimedwait(t) => CondTimedwait(t)
         /\ McsSpin!CondSignal(t) => CondSignal(t)
         /\ McsSpin!CondBroadcast(t) => CondBroadcast(t)
         /\ \A p, q : McsSpin!Step(t, p, q) => Step(t, p, q)
         /\ \A p, q : McsSpin!Read(t, p, q) => Step(t, p, q) /\ lk' = lk /\ nd' = nd /\ loc' = loc
         /\ McsSpin!After(t) = After(t)
  <1>1. McsSpin!CallLock(t) => CallLock(t)
    BY DEF McsSpin!CallLock, CallLock, McsSpin!Read, Read, McsSpin!Step, Step, McsSpin!mem, mem
  <1>2. McsSpin!PosixLock(t) => PosixLock(t)
    BY DEF McsSpin!PosixLock, PosixLock, McsSpin!mem, mem
  <1>3. McsSpin!PosixTryLock(t) => PosixTryLock(t)
    BY DEF McsSpin!PosixTryLock, PosixTryLock, McsSpin!mem, mem
  <1>4. McsSpin!PosixUnlock(t) => PosixUnlock(t)
    BY DEF McsSpin!PosixUnlock, PosixUnlock, McsSpin!mem, mem
  <1>5. \A u : McsSpin!RealWake(u) <=> RealWake(u)
    BY DEF McsSpin!RealWake, RealWake, McsSpin!Read, Read, McsSpin!Step, Step, McsSpin!mem, mem
  <1>6. McsSpin!CondTimedwait(t) => CondTimedwait(t)
    BY <1>5, Zenon DEF McsSpin!CondTimedwait, CondTimedwait, McsSpin!CallWait, CallWait, McsSpin!RealWait, RealWait,
                McsSpin!RealReturn, RealReturn, McsSpin!WaitPosixUnlock, WaitPosixUnlock, McsSpin!mem, mem
  <1>7. McsSpin!CondSignal(t) => CondSignal(t)
    BY <1>5 DEF McsSpin!CondSignal, CondSignal
  <1>8. McsSpin!CondBroadcast(t) => CondBroadcast(t)
    BY DEF McsSpin!CondBroadcast, CondBroadcast, McsSpin!mem, mem
  <1>9. \A p, q : McsSpin!Step(t, p, q) => Step(t, p, q)
    BY DEF McsSpin!Step, Step
  <1>10. \A p, q : McsSpin!Read(t, p, q) => Step(t, p, q) /\ lk' = lk /\ nd' = nd /\ loc' = loc
    BY DEF McsSpin!Read, McsSpin!Step, Step, McsSpin!mem
  <1>11. McsSpin!After(t) = After(t)
    BY DEF McsSpin!After, After
  <1> QED
    BY <1>1, <1>2, <1>3, <1>4, <1>6, <1>7, <1>8, <1>9, <1>10, <1>11

LEMMA McsSpinMoves ==
  ASSUME NEW t \in Threads, ChainType, lk \in [tail : Threads \cup {NULL}]
  PROVE  /\ McsSpin!Enqueue(t) => Arrives(t) /\ TailOnly
         /\ McsSpin!TryEnqueue(t) => TriesTail(t) /\ TailOnly
         /\ McsSpin!Link(t) => Links(t) /\ TailOnly
         /\ McsSpin!waiting_policy_sleep(t, t, "posix") => (Sleeps(t) \/ Enters(t)) /\ TailOnly
         /\ McsSpin!CheckNext(t) => Turns(t) /\ TailOnly
         /\ McsSpin!CasTail(t) => (Turns(t) \/ Empties(t)) /\ TailOnly
         /\ McsSpin!AwaitNext(t) => Turns(t) /\ TailOnly
         /\ McsSpin!waiting_policy_wake(t, nd[t].next, McsSpin!Own, "handover", "futexwake", McsSpin!After(t))
              => (Wakes(t) \/ FutexWakes(t)) /\ TailOnly
         /\ McsSpin!WakeStore(t, nd[t].next, "handover", "futexwake", McsSpin!After(t)) => Wakes(t) /\ TailOnly
         /\ McsSpin!Spinning(t, t, "posix") => Enters(t) /\ TailOnly
  <1>1. /\ \A p, q : McsSpin!Step(t, p, q) => Step(t, p, q)
        /\ \A p, q : McsSpin!Read(t, p, q) => Step(t, p, q) /\ lk' = lk /\ nd' = nd /\ loc' = loc
        /\ McsSpin!After(t) = After(t)
    BY McsSpinCalls
  <1>2. McsSpin!LOCKED = LOCKED /\ McsSpin!UNLOCKED = UNLOCKED
    BY DEF McsSpin!LOCKED, LOCKED, McsSpin!UNLOCKED, UNLOCKED
  <1>3. {"unlock", "castail", "awaitnext", "handover"} \subseteq UnlockPcs \ GraftPcs
    BY ChainPcs
  <1>4. lk' = lk => TailOnly
    BY DEF TailOnly
  <1>5. McsSpin!Enqueue(t) => Arrives(t) /\ TailOnly
    BY <1>1, <1>2 DEF McsSpin!Enqueue, Arrives, TailOnly
  <1>6. McsSpin!TryEnqueue(t) => TriesTail(t) /\ TailOnly
    BY <1>1, <1>2 DEF McsSpin!TryEnqueue, TriesTail, TailOnly
  <1>7. McsSpin!Link(t) => Links(t) /\ TailOnly
    BY <1>1, <1>4 DEF McsSpin!Link, Links
  <1>8. McsSpin!Spinning(t, t, "posix") => Enters(t) /\ TailOnly
    BY <1>1, <1>2, <1>4 DEF McsSpin!Spinning, Enters
  <1>9. McsSpin!FutexWait(t, t) \/ McsSpin!Interrupt(t) => Sleeps(t) /\ TailOnly
    BY <1>1, <1>4 DEF McsSpin!FutexWait, McsSpin!Interrupt, Sleeps
  <1>10. McsSpin!Respin(t, t, "posix") => Enters(t) /\ TailOnly
    BY <1>1, <1>2, <1>4 DEF McsSpin!Respin, Enters
  <1>11. McsSpin!waiting_policy_sleep(t, t, "posix") => (Sleeps(t) \/ Enters(t)) /\ TailOnly
    BY <1>8, <1>9, <1>10 DEF McsSpin!waiting_policy_sleep
  <1>12. McsSpin!CheckNext(t) => Turns(t) /\ TailOnly
    <2> SUFFICES ASSUME McsSpin!CheckNext(t)
                 PROVE  Turns(t) /\ TailOnly
      OBVIOUS
    <2>1. Step(t, "unlock", IF nd[t].next = NULL THEN "castail" ELSE "handover")
          /\ lk' = lk /\ nd' = nd /\ loc' = loc
      BY <1>1 DEF McsSpin!CheckNext
    <2> QED
      BY <1>3, <1>4, <2>1 DEF Turns
  <1>13. McsSpin!CasTail(t) => (Turns(t) \/ Empties(t)) /\ TailOnly
    <2> SUFFICES ASSUME McsSpin!CasTail(t)
                 PROVE  (Turns(t) \/ Empties(t)) /\ TailOnly
      OBVIOUS
    <2>1. /\ Step(t, "castail", IF lk.tail = t THEN After(t) ELSE "awaitnext")
          /\ lk' = [lk EXCEPT !.tail = IF @ = t THEN NULL ELSE @]
          /\ nd' = nd /\ loc' = loc
      BY <1>1 DEF McsSpin!CasTail
    <2>2. CASE lk.tail = t
      BY <2>1, <2>2 DEF Empties, TailOnly
    <2>3. CASE lk.tail # t
      <3>1. lk' = lk /\ Step(t, "castail", "awaitnext")
        BY <2>1, <2>3
      <3> QED
        BY <1>3, <1>4, <2>1, <3>1 DEF Turns
    <2> QED
      BY <2>2, <2>3
  <1>14. McsSpin!AwaitNext(t) => Turns(t) /\ TailOnly
    BY <1>1, <1>3, <1>4 DEF McsSpin!AwaitNext, Turns
  <1>15. McsSpin!WakeStore(t, nd[t].next, "handover", "futexwake", McsSpin!After(t)) => Wakes(t) /\ TailOnly
    BY <1>1, <1>2, <1>4 DEF McsSpin!WakeStore, Wakes
  <1>16. McsSpin!FutexWake(t, McsSpin!Own, "futexwake", McsSpin!After(t)) => FutexWakes(t) /\ TailOnly
    BY <1>1, <1>4 DEF McsSpin!FutexWake, FutexWakes
  <1>17. McsSpin!waiting_policy_wake(t, nd[t].next, McsSpin!Own, "handover", "futexwake", McsSpin!After(t))
           => (Wakes(t) \/ FutexWakes(t)) /\ TailOnly
    BY <1>15, <1>16 DEF McsSpin!waiting_policy_wake
  <1> QED
    BY <1>5, <1>6, <1>7, <1>8, <1>11, <1>12, <1>13, <1>14, <1>15, <1>17

LEMMA McsParkCalls ==
  ASSUME NEW t \in Threads
  PROVE  /\ McsPark!CallLock(t) => CallLock(t)
         /\ McsPark!PosixLock(t) => PosixLock(t)
         /\ McsPark!PosixTryLock(t) => PosixTryLock(t)
         /\ McsPark!PosixUnlock(t) => PosixUnlock(t)
         /\ McsPark!CondTimedwait(t) => CondTimedwait(t)
         /\ McsPark!CondSignal(t) => CondSignal(t)
         /\ McsPark!CondBroadcast(t) => CondBroadcast(t)
         /\ \A p, q : McsPark!Step(t, p, q) => Step(t, p, q)
         /\ \A p, q : McsPark!Read(t, p, q) => Step(t, p, q) /\ lk' = lk /\ nd' = nd /\ loc' = loc
         /\ McsPark!After(t) = After(t)
  <1>1. McsPark!CallLock(t) => CallLock(t)
    BY DEF McsPark!CallLock, CallLock, McsPark!Read, Read, McsPark!Step, Step, McsPark!mem, mem
  <1>2. McsPark!PosixLock(t) => PosixLock(t)
    BY DEF McsPark!PosixLock, PosixLock, McsPark!mem, mem
  <1>3. McsPark!PosixTryLock(t) => PosixTryLock(t)
    BY DEF McsPark!PosixTryLock, PosixTryLock, McsPark!mem, mem
  <1>4. McsPark!PosixUnlock(t) => PosixUnlock(t)
    BY DEF McsPark!PosixUnlock, PosixUnlock, McsPark!mem, mem
  <1>5. \A u : McsPark!RealWake(u) <=> RealWake(u)
    BY DEF McsPark!RealWake, RealWake, McsPark!Read, Read, McsPark!Step, Step, McsPark!mem, mem
  <1>6. McsPark!CondTimedwait(t) => CondTimedwait(t)
    BY <1>5, Zenon DEF McsPark!CondTimedwait, CondTimedwait, McsPark!CallWait, CallWait, McsPark!RealWait, RealWait,
                McsPark!RealReturn, RealReturn, McsPark!WaitPosixUnlock, WaitPosixUnlock, McsPark!mem, mem
  <1>7. McsPark!CondSignal(t) => CondSignal(t)
    BY <1>5 DEF McsPark!CondSignal, CondSignal
  <1>8. McsPark!CondBroadcast(t) => CondBroadcast(t)
    BY DEF McsPark!CondBroadcast, CondBroadcast, McsPark!mem, mem
  <1>9. \A p, q : McsPark!Step(t, p, q) => Step(t, p, q)
    BY DEF McsPark!Step, Step
  <1>10. \A p, q : McsPark!Read(t, p, q) => Step(t, p, q) /\ lk' = lk /\ nd' = nd /\ loc' = loc
    BY DEF McsPark!Read, McsPark!Step, Step, McsPark!mem
  <1>11. McsPark!After(t) = After(t)
    BY DEF McsPark!After, After
  <1> QED
    BY <1>1, <1>2, <1>3, <1>4, <1>6, <1>7, <1>8, <1>9, <1>10, <1>11

LEMMA McsParkMoves ==
  ASSUME NEW t \in Threads, ChainType, lk \in [tail : Threads \cup {NULL}]
  PROVE  /\ McsPark!Enqueue(t) => Arrives(t) /\ TailOnly
         /\ McsPark!TryEnqueue(t) => TriesTail(t) /\ TailOnly
         /\ McsPark!Link(t) => Links(t) /\ TailOnly
         /\ McsPark!waiting_policy_sleep(t, t, "posix") => (Sleeps(t) \/ Enters(t)) /\ TailOnly
         /\ McsPark!CheckNext(t) => Turns(t) /\ TailOnly
         /\ McsPark!CasTail(t) => (Turns(t) \/ Empties(t)) /\ TailOnly
         /\ McsPark!AwaitNext(t) => Turns(t) /\ TailOnly
         /\ McsPark!waiting_policy_wake(t, nd[t].next, McsPark!Own, "handover", "futexwake", McsPark!After(t))
              => (Wakes(t) \/ FutexWakes(t)) /\ TailOnly
         /\ McsPark!WakeStore(t, nd[t].next, "handover", "futexwake", McsPark!After(t)) => Wakes(t) /\ TailOnly
         /\ McsPark!Spinning(t, t, "posix") => Enters(t) /\ TailOnly
  <1>1. /\ \A p, q : McsPark!Step(t, p, q) => Step(t, p, q)
        /\ \A p, q : McsPark!Read(t, p, q) => Step(t, p, q) /\ lk' = lk /\ nd' = nd /\ loc' = loc
        /\ McsPark!After(t) = After(t)
    BY McsParkCalls
  <1>2. McsPark!LOCKED = LOCKED /\ McsPark!UNLOCKED = UNLOCKED
    BY DEF McsPark!LOCKED, LOCKED, McsPark!UNLOCKED, UNLOCKED
  <1>3. {"unlock", "castail", "awaitnext", "handover"} \subseteq UnlockPcs \ GraftPcs
    BY ChainPcs
  <1>4. lk' = lk => TailOnly
    BY DEF TailOnly
  <1>5. McsPark!Enqueue(t) => Arrives(t) /\ TailOnly
    BY <1>1, <1>2 DEF McsPark!Enqueue, Arrives, TailOnly
  <1>6. McsPark!TryEnqueue(t) => TriesTail(t) /\ TailOnly
    BY <1>1, <1>2 DEF McsPark!TryEnqueue, TriesTail, TailOnly
  <1>7. McsPark!Link(t) => Links(t) /\ TailOnly
    BY <1>1, <1>4 DEF McsPark!Link, Links
  <1>8. McsPark!Spinning(t, t, "posix") => Enters(t) /\ TailOnly
    BY <1>1, <1>2, <1>4 DEF McsPark!Spinning, Enters
  <1>9. McsPark!FutexWait(t, t) \/ McsPark!Interrupt(t) => Sleeps(t) /\ TailOnly
    BY <1>1, <1>4 DEF McsPark!FutexWait, McsPark!Interrupt, Sleeps
  <1>10. McsPark!Respin(t, t, "posix") => Enters(t) /\ TailOnly
    BY <1>1, <1>2, <1>4 DEF McsPark!Respin, Enters
  <1>11. McsPark!waiting_policy_sleep(t, t, "posix") => (Sleeps(t) \/ Enters(t)) /\ TailOnly
    BY <1>8, <1>9, <1>10 DEF McsPark!waiting_policy_sleep
  <1>12. McsPark!CheckNext(t) => Turns(t) /\ TailOnly
    <2> SUFFICES ASSUME McsPark!CheckNext(t)
                 PROVE  Turns(t) /\ TailOnly
      OBVIOUS
    <2>1. Step(t, "unlock", IF nd[t].next = NULL THEN "castail" ELSE "handover")
          /\ lk' = lk /\ nd' = nd /\ loc' = loc
      BY <1>1 DEF McsPark!CheckNext
    <2> QED
      BY <1>3, <1>4, <2>1 DEF Turns
  <1>13. McsPark!CasTail(t) => (Turns(t) \/ Empties(t)) /\ TailOnly
    <2> SUFFICES ASSUME McsPark!CasTail(t)
                 PROVE  (Turns(t) \/ Empties(t)) /\ TailOnly
      OBVIOUS
    <2>1. /\ Step(t, "castail", IF lk.tail = t THEN After(t) ELSE "awaitnext")
          /\ lk' = [lk EXCEPT !.tail = IF @ = t THEN NULL ELSE @]
          /\ nd' = nd /\ loc' = loc
      BY <1>1 DEF McsPark!CasTail
    <2>2. CASE lk.tail = t
      BY <2>1, <2>2 DEF Empties, TailOnly
    <2>3. CASE lk.tail # t
      <3>1. lk' = lk /\ Step(t, "castail", "awaitnext")
        BY <2>1, <2>3
      <3> QED
        BY <1>3, <1>4, <2>1, <3>1 DEF Turns
    <2> QED
      BY <2>2, <2>3
  <1>14. McsPark!AwaitNext(t) => Turns(t) /\ TailOnly
    BY <1>1, <1>3, <1>4 DEF McsPark!AwaitNext, Turns
  <1>15. McsPark!WakeStore(t, nd[t].next, "handover", "futexwake", McsPark!After(t)) => Wakes(t) /\ TailOnly
    BY <1>1, <1>2, <1>4 DEF McsPark!WakeStore, Wakes
  <1>16. McsPark!FutexWake(t, McsPark!Own, "futexwake", McsPark!After(t)) => FutexWakes(t) /\ TailOnly
    BY <1>1, <1>4 DEF McsPark!FutexWake, FutexWakes
  <1>17. McsPark!waiting_policy_wake(t, nd[t].next, McsPark!Own, "handover", "futexwake", McsPark!After(t))
           => (Wakes(t) \/ FutexWakes(t)) /\ TailOnly
    BY <1>15, <1>16 DEF McsPark!waiting_policy_wake
  <1> QED
    BY <1>5, <1>6, <1>7, <1>8, <1>11, <1>12, <1>13, <1>14, <1>15, <1>17

LEMMA EpflMoves ==
  ASSUME NEW t \in Threads, ChainType, lk \in [tail : Threads \cup {NULL}]
  PROVE  /\ McsSpin!EpflEnqueue(t) => Arrives(t) /\ TailOnly
         /\ McsSpin!EpflTryEnqueue(t) => TriesTail(t) /\ TailOnly
         /\ McsSpin!EpflMark(t) => Marks(t) /\ TailOnly
  <1>1. \A p, q : McsSpin!Step(t, p, q) => Step(t, p, q)
    BY McsSpinCalls
  <1>2. McsSpin!LOCKED = LOCKED
    BY DEF McsSpin!LOCKED, LOCKED
  <1>3. nd \in [Threads -> [next : Threads \cup {NULL}, spin : {LOCKED, UNLOCKED}]]
    BY DEF ChainType
  <1>4. nd[t].spin \in {LOCKED, UNLOCKED}
        /\ [nd EXCEPT ![t].next = NULL] = [nd EXCEPT ![t] = [next |-> NULL, spin |-> nd[t].spin]]
    <2>1. nd[t] \in [next : Threads \cup {NULL}, spin : {LOCKED, UNLOCKED}]
      BY <1>3
    <2>2. [nd[t] EXCEPT !.next = NULL] = [next |-> NULL, spin |-> nd[t].spin]
      BY <2>1
    <2>3. [nd EXCEPT ![t].next = NULL] = [nd EXCEPT ![t] = [nd[t] EXCEPT !.next = NULL]]
      OBVIOUS
    <2> QED
      BY <2>1, <2>2, <2>3
  <1>5. McsSpin!EpflEnqueue(t) => Arrives(t) /\ TailOnly
    <2> SUFFICES ASSUME McsSpin!EpflEnqueue(t)
                 PROVE  Arrives(t) /\ TailOnly
      OBVIOUS
    <2>1. /\ Step(t, "lock", IF lk.tail = NULL THEN "posix" ELSE "mark")
          /\ nd' = [nd EXCEPT ![t] = [next |-> NULL, spin |-> nd[t].spin]]
          /\ lk' = [lk EXCEPT !.tail = t] /\ loc' = [loc EXCEPT ![t] = lk.tail]
      BY <1>1, <1>4 DEF McsSpin!EpflEnqueue
    <2>2. lk'.tail = t /\ TailOnly
      BY <2>1 DEF TailOnly
    <2>3. "mark" \in {"mark", "link"} /\ "mark" # "link"
      OBVIOUS
    <2> QED
      BY <1>4, <2>1, <2>2, <2>3 DEF Arrives
  <1>6. McsSpin!EpflTryEnqueue(t) => TriesTail(t) /\ TailOnly
    <2> SUFFICES ASSUME McsSpin!EpflTryEnqueue(t)
                 PROVE  TriesTail(t) /\ TailOnly
      OBVIOUS
    <2>1. /\ Step(t, "idle", IF lk.tail = NULL THEN "tryposix" ELSE "idle")
          /\ nd' = [nd EXCEPT ![t] = [next |-> NULL, spin |-> nd[t].spin]]
          /\ lk' = [lk EXCEPT !.tail = IF @ = NULL THEN t ELSE @] /\ loc' = loc
      BY <1>1, <1>4 DEF McsSpin!EpflTryEnqueue
    <2>2. TailOnly /\ lk'.tail = IF lk.tail = NULL THEN t ELSE lk.tail
      BY <2>1 DEF TailOnly
    <2> QED
      BY <1>4, <2>1, <2>2 DEF TriesTail
  <1>7. McsSpin!EpflMark(t) => Marks(t) /\ TailOnly
    BY <1>1, <1>2 DEF McsSpin!EpflMark, Marks, TailOnly
  <1> QED
    BY <1>5, <1>6, <1>7

\* mcs.c and mcsepfl.c.
McsInv ==
  /\ lk \in [tail : Threads \cup {NULL}]
  /\ \E s : ChainInv(s, {})

LEMMA McsStep ==
  ASSUME ApiInv, McsInv, algo \in McsAlgos, algo' = algo, NEW t \in Threads, Calls(t), Ordered(t)
  PROVE  McsInv' /\ InTurn(t) /\ (Allowed(t) \/ Wrapped(t))
  <1>1. lk \in [tail : Threads \cup {NULL}] /\ ChainType
    BY DEF McsInv, ChainInv
  <1>2. PICK s : ChainInv(s, {})
    BY DEF McsInv
  <1>3. Wrapped(t) \/ (ChainMove(t) /\ TailOnly)
    <2>1. \/ algo = "mcs_spin" /\ McsSpin!mcs(t)
          \/ algo = "mcs_park" /\ McsPark!mcs(t)
          \/ algo = "mcsepfl"  /\ McsSpin!mcsepfl(t)
      BY DEF Calls, McsAlgos
    <2>2. CASE McsSpin!mcs(t)
      <3>1. \/ McsSpin!CallLock(t) \/ McsSpin!PosixLock(t) \/ McsSpin!PosixTryLock(t)
            \/ McsSpin!PosixUnlock(t) \/ McsSpin!CondTimedwait(t) \/ McsSpin!CondSignal(t)
            \/ McsSpin!CondBroadcast(t)
            \/ McsSpin!Enqueue(t) \/ McsSpin!TryEnqueue(t) \/ McsSpin!Link(t)
            \/ McsSpin!waiting_policy_sleep(t, t, "posix") \/ McsSpin!CheckNext(t) \/ McsSpin!CasTail(t)
            \/ McsSpin!AwaitNext(t)
            \/ McsSpin!waiting_policy_wake(t, nd[t].next, McsSpin!Own, "handover", "futexwake", McsSpin!After(t))
        BY <2>2, Zenon DEF McsSpin!mcs, McsSpin!mcs_mutex_lock, McsSpin!mcs_mutex_trylock,
             McsSpin!mcs_mutex_unlock, McsSpin!mcs_cond_timedwait, McsSpin!mcs_cond_signal,
             McsSpin!mcs_cond_broadcast
      <3> QED
        BY <1>1, <3>1, McsSpinCalls, McsSpinMoves DEF Wrapped, ChainMove
    <2>3. CASE McsPark!mcs(t)
      <3>1. \/ McsPark!CallLock(t) \/ McsPark!PosixLock(t) \/ McsPark!PosixTryLock(t)
            \/ McsPark!PosixUnlock(t) \/ McsPark!CondTimedwait(t) \/ McsPark!CondSignal(t)
            \/ McsPark!CondBroadcast(t)
            \/ McsPark!Enqueue(t) \/ McsPark!TryEnqueue(t) \/ McsPark!Link(t)
            \/ McsPark!waiting_policy_sleep(t, t, "posix") \/ McsPark!CheckNext(t) \/ McsPark!CasTail(t)
            \/ McsPark!AwaitNext(t)
            \/ McsPark!waiting_policy_wake(t, nd[t].next, McsPark!Own, "handover", "futexwake", McsPark!After(t))
        BY <2>3, Zenon DEF McsPark!mcs, McsPark!mcs_mutex_lock, McsPark!mcs_mutex_trylock,
             McsPark!mcs_mutex_unlock, McsPark!mcs_cond_timedwait, McsPark!mcs_cond_signal,
             McsPark!mcs_cond_broadcast
      <3> QED
        BY <1>1, <3>1, McsParkCalls, McsParkMoves DEF Wrapped, ChainMove
    <2>4. CASE McsSpin!mcsepfl(t)
      <3>1. \/ McsSpin!CallLock(t) \/ McsSpin!PosixLock(t) \/ McsSpin!PosixTryLock(t)
            \/ McsSpin!PosixUnlock(t) \/ McsSpin!CondTimedwait(t) \/ McsSpin!CondSignal(t)
            \/ McsSpin!CondBroadcast(t)
            \/ McsSpin!EpflEnqueue(t) \/ McsSpin!EpflTryEnqueue(t) \/ McsSpin!EpflMark(t)
            \/ McsSpin!Link(t) \/ McsSpin!Spinning(t, t, "posix") \/ McsSpin!CheckNext(t)
            \/ McsSpin!CasTail(t) \/ McsSpin!AwaitNext(t)
            \/ McsSpin!WakeStore(t, nd[t].next, "handover", "futexwake", McsSpin!After(t))
        BY <2>4, Zenon DEF McsSpin!mcsepfl, McsSpin!mcsepfl_mutex_lock, McsSpin!mcsepfl_mutex_trylock,
             McsSpin!mcsepfl_mutex_unlock, McsSpin!mcsepfl_cond_timedwait, McsSpin!mcsepfl_cond_signal,
             McsSpin!mcsepfl_cond_broadcast
      <3> QED
        BY <1>1, <3>1, McsSpinCalls, McsSpinMoves, EpflMoves DEF Wrapped, ChainMove
    <2> QED
      BY <2>1, <2>2, <2>3, <2>4
  <1>4. CASE Wrapped(t)
    BY <1>1, <1>2, <1>4, ChainWrapped DEF McsInv
  <1>5. CASE ChainMove(t) /\ TailOnly
    <2>1. (\E r : ChainInv(r, {})') /\ InTurn(t) /\ Allowed(t)
      BY <1>2, <1>5, ChainStep
    <2>2. PICK r : ChainInv(r, {})'
      BY <2>1
    <2>3. lk'.tail \in Threads \cup {NULL}
      <3>1. CASE Len(r) = 0
        BY <2>2, <3>1 DEF ChainInv
      <3>2. CASE Len(r) # 0
        <4>1. r \in Seq(Threads) /\ Distinct(r)
          BY <2>2 DEF ChainInv, LineInv
        <4> QED
          BY <2>2, <3>2, <4>1, LineFacts DEF ChainInv
      <3> QED
        BY <3>1, <3>2
    <2>4. lk' \in [tail : Threads \cup {NULL}]
      BY <1>1, <1>5, <2>3 DEF TailOnly
    <2> QED
      BY <2>1, <2>2, <2>4 DEF McsInv
  <1> QED
    BY <1>3, <1>4, <1>5

LEMMA ChainInitial ==
  ASSUME pc = [t \in Threads |-> "idle"], order = <<>>, lk.tail = NULL,
         nd = [t \in Threads |-> [next |-> NULL, spin |-> LOCKED]], loc = [t \in Threads |-> NULL]
  PROVE  ChainInv(<<>>, {})
  <1>1. \A u \in Threads : ~Hold(u) /\ ~Enqueued(u)
    BY DEF Hold, Enqueued, HeldPcs, UnlockPcs, LockPc, WrapperPcs
  <1>2. LineInv(<<>>, {})
    BY <1>1, EmptyLine
  <1>3. Len(<<>>) = 0 /\ \A u, v : ~FirstOf(<<>>, u) /\ ~LastOf(<<>>, u) /\ ~Before(<<>>, u, v)
    BY DEF FirstOf, LastOf, Before
  <1>4. ChainType
    BY DEF ChainType
  <1>5. GraftInv(<<>>, {})
    BY DEF GraftInv
  <1> QED
    BY <1>1, <1>2, <1>3, <1>4, <1>5 DEF ChainInv

LEMMA McsInitial ==
  ASSUME McsSpin!Init, order = <<>>
  PROVE  McsInv
  <1>1. /\ pc = [t \in Threads |-> "idle"] /\ lk = [tail |-> NULL]
        /\ nd = [t \in Threads |-> [next |-> NULL, spin |-> LOCKED]] /\ loc = [t \in Threads |-> NULL]
    BY DEF McsSpin!Init, McsSpin!ApiInit, McsSpin!mcs_mutex_create, McsSpin!LOCKED, LOCKED
  <1>2. ChainInv(<<>>, {})
    BY <1>1, ChainInitial
  <1> QED
    BY <1>1, <1>2 DEF McsInv

-----------------------------------------------------------------------------
(* clh.c and clhepfl.c: every thread waits for the node in front of its own.  *)
(* x is the node that belongs to no thread: the holder's, or the last one     *)
(* released.                                                                  *)

ClhNodes == Threads \cup {NULL}

Node(u) == IF Hold(u) THEN lk.head ELSE lk.current[u]

ClhType ==
  /\ lk \in [head : ClhNodes, tail : ClhNodes, current : [Threads -> ClhNodes]]
  /\ nd \in [ClhNodes -> [spin : {LOCKED, UNLOCKED}]]
  /\ loc = [t \in Threads |-> loc[t]]

ClhOwn(x) ==
  /\ x \in ClhNodes
  /\ \A t \in Threads : lk.current[t] # x
  /\ \A t, u \in Threads : lk.current[t] = lk.current[u] => t = u
  /\ \A n \in ClhNodes : n = x \/ \E t \in Threads : lk.current[t] = n

ClhInv(s, x) ==
  /\ LineInv(s, {}) /\ ClhType /\ ClhOwn(x)
  /\ \A t \in Threads : Enqueued(t) => pc[t] \in {"sleep", "asleep", "respin", "enter"}
  /\ \A t \in Threads : Enqueued(t) => nd[lk.current[t]].spin = LOCKED
  /\ \A t \in Threads : Hold(t) => lk.head = x /\ nd[x].spin = LOCKED
  /\ Len(s) = 0 => lk.tail = x /\ nd[x].spin = UNLOCKED
  /\ \A t \in Threads : FirstOf(s, t) /\ ~Hold(t) => loc[t] = x /\ nd[x].spin = UNLOCKED
  /\ \A u, v \in Threads : Before(s, u, v) => loc[v] = Node(u)
  /\ \A u \in Threads : LastOf(s, u) => lk.tail = Node(u)
  /\ \A t \in Threads : pc[t] = "enter" => FirstOf(s, t)

\* What a step of such a lock does, whatever the waiting policy.
ClhArrives(t) ==
  /\ Step(t, "lock", "sleep") /\ nd' = [nd EXCEPT ![lk.current[t]].spin = LOCKED]
  /\ lk' = [lk EXCEPT !.tail = lk.current[t]] /\ loc' = [loc EXCEPT ![t] = lk.tail]

ClhSees(t) ==
  /\ nd[loc[t]].spin = UNLOCKED /\ \E p \in {"sleep", "respin"} : Step(t, p, "enter")
  /\ lk' = lk /\ nd' = nd /\ loc' = loc

ClhTakes(t) ==
  /\ Step(t, "enter", "posix") /\ nd' = nd
  /\ lk' = [lk EXCEPT !.head = lk.current[t], !.current[t] = loc[t]]
  /\ loc' = [loc EXCEPT ![t] = NULL]

ClhTurns(t) == Step(t, "unlock", "handover") /\ lk' = lk /\ nd' = nd /\ loc' = loc

ClhWakes(t) ==
  /\ \E q \in {"futexwake", After(t)} : Step(t, "handover", q)
  /\ nd' = [nd EXCEPT ![lk.head].spin = UNLOCKED] /\ lk' = lk
  /\ \E y : loc' = [loc EXCEPT ![t] = y]

ClhMove(t) ==
  \/ ClhArrives(t) \/ Sleeps(t) \/ ClhSees(t) \/ ClhTakes(t) \/ ClhTurns(t) \/ ClhWakes(t)
  \/ FutexWakes(t)

\* Where nobody joins or leaves and no node changes.
LEMMA ClhSame ==
  ASSUME NEW s, NEW x, ClhInv(s, x), LineInv(s, {})', lk' = lk, nd' = nd, loc' = [t \in Threads |-> loc'[t]],
         \A u \in Threads : (Enqueued(u)' <=> Enqueued(u)) /\ (Hold(u)' <=> Hold(u)),
         \A u \in Threads : Enqueued(u) => pc'[u] \in {"sleep", "asleep", "respin", "enter"} /\ loc'[u] = loc[u],
         \A u \in Threads : pc'[u] = "enter" => FirstOf(s, u)
  PROVE  ClhInv(s, x)'
  <1>1. s \in Seq(Threads) /\ Distinct(s) /\ \A u \in Threads : At1(s, u) <=> Enqueued(u) \/ Hold(u)
    BY DEF ClhInv, LineInv
  <1>2. \A u \in Threads : Hold(u) => FirstOf(s, u)
    BY DEF ClhInv, LineInv
  <1>3. \A u \in Threads : Node(u)' = Node(u)
    BY DEF Node
  <1>4. \A u, v \in Threads : Before(s, u, v) => loc'[v] = Node(u)
    <2> SUFFICES ASSUME NEW u \in Threads, NEW v \in Threads, Before(s, u, v)
                 PROVE  loc'[v] = Node(u)
      OBVIOUS
    <2>1. Enqueued(v)
      BY <1>1, <1>2, LineFacts
    <2> QED
      BY <2>1 DEF ClhInv
  <1>5. \A t \in Threads : FirstOf(s, t) /\ ~Hold(t) => loc'[t] = x /\ nd[x].spin = UNLOCKED
    <2> SUFFICES ASSUME NEW t \in Threads, FirstOf(s, t), ~Hold(t)
                 PROVE  loc'[t] = x /\ nd[x].spin = UNLOCKED
      OBVIOUS
    <2>1. Enqueued(t)
      BY <1>1, LineFacts
    <2> QED
      BY <2>1 DEF ClhInv
  <1>6. ClhType' /\ ClhOwn(x)'
    BY DEF ClhInv, ClhType, ClhOwn
  <1>7. \A u \in Threads : LastOf(s, u) => lk'.tail = Node(u)'
    BY <1>3 DEF ClhInv
  <1>8. /\ \A t \in Threads : Enqueued(t)' => nd'[lk'.current[t]].spin = LOCKED
        /\ \A t \in Threads : Hold(t)' => lk'.head = x /\ nd'[x].spin = LOCKED
        /\ Len(s) = 0 => lk'.tail = x /\ nd'[x].spin = UNLOCKED
    BY DEF ClhInv
  <1> QED
    BY <1>3, <1>4, <1>5, <1>6, <1>7, <1>8 DEF ClhInv

LEMMA ClhPcs ==
  /\ \A p \in {"sleep", "asleep", "respin", "enter"} : LockPc(p) /\ p \notin HeldPcs /\ p # "lock"
  /\ {"unlock", "handover"} \subseteq UnlockPcs /\ {"unlock", "handover"} \subseteq HeldPcs
  /\ ~LockPc("unlock") /\ ~LockPc("handover") /\ ~LockPc("posix") /\ "posix" \in HeldPcs
  /\ LockPc("lock") /\ "lock" \notin HeldPcs
  BY DEF LockPc, HeldPcs, UnlockPcs, WrapperPcs, ReleasedPcs, TryPcs

LEMMA ClhStep ==
  ASSUME ApiInv, NEW s, NEW x, ClhInv(s, x), algo' = algo, NEW t \in Threads, Ordered(t), ClhMove(t)
  PROVE  (\E r, y : ClhInv(r, y)') /\ InTurn(t) /\ Allowed(t)
  <1>1. /\ LineInv(s, {}) /\ s \in Seq(Threads) /\ Distinct(s) /\ ClhType /\ ClhOwn(x)
        /\ lk \in [head : ClhNodes, tail : ClhNodes, current : [Threads -> ClhNodes]]
        /\ nd \in [ClhNodes -> [spin : {LOCKED, UNLOCKED}]]
        /\ loc = [u \in Threads |-> loc[u]]
        /\ Threads \subseteq ClhNodes /\ NULL \in ClhNodes
    BY DEF ClhInv, LineInv, ClhType, ClhNodes
  <1>2. /\ \A u \in Threads : At1(s, u) <=> Enqueued(u) \/ Hold(u)
        /\ \A u \in Threads : Hold(u) => FirstOf(s, u) /\ ~Enqueued(u)
    <2>1. \A u \in Threads : At1(s, u) <=> (Enqueued(u) \/ Hold(u)) /\ u \notin {}
      BY <1>1 DEF LineInv
    <2>2. \A u \in Threads : Hold(u) => FirstOf(s, u)
      BY <1>1 DEF LineInv
    <2>3. \A u \in Threads : Hold(u) => ~Enqueued(u)
      BY <1>1, LineHolder
    <2> QED
      BY <2>1, <2>2, <2>3
  <1>3. /\ x \in ClhNodes /\ \A u \in Threads : lk.current[u] # x /\ lk.current[u] \in ClhNodes
        /\ \A u, v \in Threads : lk.current[u] = lk.current[v] => u = v
    BY <1>1 DEF ClhOwn
  \* A word that is LOCKED: the predecessor's.
  <1>4. ASSUME NEW u \in Threads, NEW v \in Threads, Before(s, u, v)
        PROVE  loc[v] = Node(u) /\ nd[loc[v]].spin = LOCKED /\ Enqueued(v) /\ ~FirstOf(s, v) /\ u # v
    <2>1. loc[v] = Node(u) /\ ~FirstOf(s, v) /\ At1(s, u) /\ At1(s, v) /\ u # v
      BY <1>1, <1>4, LineFacts DEF ClhInv
    <2>2. Enqueued(v)
      BY <1>2, <2>1
    <2>3. CASE Hold(u)
      BY <2>1, <2>2, <2>3 DEF Node, ClhInv
    <2>4. CASE ~Hold(u)
      BY <1>2, <2>1, <2>2, <2>4 DEF Node, ClhInv
    <2> QED
      BY <2>3, <2>4
  <1>5. ASSUME NEW u \in Threads, Enqueued(u), nd[loc[u]].spin = UNLOCKED
        PROVE  FirstOf(s, u)
    <2>1. At1(s, u)
      BY <1>2, <1>5
    <2> SUFFICES ASSUME ~FirstOf(s, u)
                 PROVE  FALSE
      OBVIOUS
    <2>2. PICK v \in Threads : Before(s, v, u)
      BY <1>1, <2>1, LineFacts
    <2> QED
      BY <1>4, <1>5, <2>2, LockTwo
  <1>6. CASE ClhArrives(t)
    <2>1. /\ Step(t, "lock", "sleep") /\ nd' = [nd EXCEPT ![lk.current[t]].spin = LOCKED]
          /\ lk' = [lk EXCEPT !.tail = lk.current[t]] /\ loc' = [loc EXCEPT ![t] = lk.tail]
      BY <1>6 DEF ClhArrives
    <2>2. Legal(t, "lock", "sleep")
      BY ClhPcs DEF Legal
    <2>3. /\ pc[t] = "lock" /\ pc'[t] = "sleep" /\ \A u \in Threads \ {t} : pc'[u] = pc[u]
          /\ \A u \in Threads \ {t} : (Enqueued(u)' <=> Enqueued(u)) /\ (Hold(u)' <=> Hold(u))
          /\ Allowed(t) /\ ~Enqueued(t) /\ Enqueued(t)' /\ ~Hold(t) /\ ~Hold(t)'
      BY <1>1, <2>1, <2>2, ChainMoves, ClhPcs
    <2>4. LineInv(Append(s, t), {})' /\ InTurn(t) /\ ~At1(s, t)
      BY <1>1, <2>3, LineJoin
    <2>5. /\ Len(Append(s, t)) # 0
          /\ \A u, v : Before(Append(s, t), u, v) <=> Before(s, u, v) \/ (LastOf(s, u) /\ v = t)
          /\ \A u : LastOf(Append(s, t), u) <=> u = t
          /\ \A u : FirstOf(Append(s, t), u) <=> IF Len(s) = 0 THEN u = t ELSE FirstOf(s, u)
      BY <1>1, <2>4, LineAppend
    <2>6. PICK c \in ClhNodes : c = lk.current[t]
      BY <1>3
    <2>7. /\ nd' \in [ClhNodes -> [spin : {LOCKED, UNLOCKED}]] /\ nd'[c].spin = LOCKED
          /\ \A n \in ClhNodes \ {c} : nd'[n] = nd[n]
          /\ lk' \in [head : ClhNodes, tail : ClhNodes, current : [Threads -> ClhNodes]]
          /\ lk'.head = lk.head /\ lk'.current = lk.current /\ lk'.tail = c
          /\ loc' = [u \in Threads |-> loc'[u]] /\ loc'[t] = lk.tail
          /\ \A u \in Threads \ {t} : loc'[u] = loc[u]
      BY <1>1, <2>1, <2>6
    <2>8. ClhType' /\ ClhOwn(x)' /\ nd'[x] = nd[x]
      BY <1>1, <1>3, <2>6, <2>7 DEF ClhType, ClhOwn
    <2>9. \A u \in Threads : Node(u)' = Node(u)
      BY <2>3, <2>7 DEF Node
    <2>10. \A u \in Threads : Enqueued(u)' => /\ pc'[u] \in {"sleep", "asleep", "respin", "enter"}
                                           /\ nd'[lk'.current[u]].spin = LOCKED
      <3> SUFFICES ASSUME NEW u \in Threads, Enqueued(u)'
                   PROVE  /\ pc'[u] \in {"sleep", "asleep", "respin", "enter"}
                          /\ nd'[lk.current[u]].spin = LOCKED
        BY <2>7
      <3>1. CASE u = t
        BY <2>3, <2>6, <2>7, <3>1
      <3>2. CASE u # t
        <4>1. lk.current[u] \in ClhNodes \ {c}
          BY <1>3, <2>6, <3>2
        <4> QED
          BY <2>3, <2>7, <3>2, <4>1 DEF ClhInv
      <3> QED
        BY <3>1, <3>2
    <2>11. \A u \in Threads : Hold(u)' => lk'.head = x /\ nd'[x].spin = LOCKED
      BY <2>3, <2>7, <2>8 DEF ClhInv
    <2>12. \A u \in Threads : FirstOf(Append(s, t), u) /\ ~Hold(u)' => loc'[u] = x /\ nd'[x].spin = UNLOCKED
      <3> SUFFICES ASSUME NEW u \in Threads, FirstOf(Append(s, t), u), ~Hold(u)'
                   PROVE  loc'[u] = x /\ nd[x].spin = UNLOCKED
        BY <2>8
      <3>1. CASE Len(s) = 0
        <4>1. u = t
          BY <2>5, <3>1
        <4> QED
          BY <2>7, <3>1, <4>1 DEF ClhInv
      <3>2. CASE Len(s) # 0
        <4>1. FirstOf(s, u)
          BY <2>5, <3>2
        <4>2. u # t
          BY <1>1, <2>4, <4>1, LineFacts
        <4> QED
          BY <2>3, <2>7, <4>1, <4>2 DEF ClhInv
      <3> QED
        BY <3>1, <3>2
    <2>13. \A u, v \in Threads : Before(Append(s, t), u, v) => loc'[v] = Node(u)'
      <3> SUFFICES ASSUME NEW u \in Threads, NEW v \in Threads, Before(Append(s, t), u, v)
                   PROVE  loc'[v] = Node(u)
        BY <2>9
      <3>1. CASE Before(s, u, v)
        <4>1. v # t
          BY <1>1, <2>4, <3>1, LineFacts
        <4> QED
          BY <1>4, <2>7, <3>1, <4>1
      <3>2. CASE LastOf(s, u) /\ v = t
        BY <2>7, <3>2 DEF ClhInv
      <3> QED
        BY <2>5, <3>1, <3>2
    <2>14. \A u \in Threads : LastOf(Append(s, t), u) => lk'.tail = Node(u)'
      BY <2>3, <2>5, <2>6, <2>7, <2>9 DEF Node
    <2>15. \A u \in Threads : pc'[u] = "enter" => FirstOf(Append(s, t), u)
      <3> SUFFICES ASSUME NEW u \in Threads, pc'[u] = "enter"
                   PROVE  FirstOf(Append(s, t), u)
        OBVIOUS
      <3>1. FirstOf(s, u)
        BY <2>3 DEF ClhInv
      <3> QED
        BY <2>5, <3>1 DEF FirstOf
    <2>16. ClhInv(Append(s, t), x)'
      BY <2>4, <2>5, <2>8, <2>10, <2>11, <2>12, <2>13, <2>14, <2>15 DEF ClhInv
    <2> QED
      BY <2>3, <2>4, <2>16
  <1>7. CASE Sleeps(t) \/ ClhSees(t)
    <2>1. /\ lk' = lk /\ nd' = nd /\ loc' = loc
          /\ \E p \in {"sleep", "asleep", "respin"}, q \in {"sleep", "asleep", "enter"} :
               Step(t, p, q) /\ (q = "enter" => nd[loc[t]].spin = UNLOCKED)
      BY <1>7 DEF Sleeps, ClhSees
    <2>2. PICK p \in {"sleep", "asleep", "respin"}, q \in {"sleep", "asleep", "enter"} :
               Step(t, p, q) /\ (q = "enter" => nd[loc[t]].spin = UNLOCKED)
      BY <2>1
    <2>3. LockPc(p) /\ LockPc(q) /\ p \notin HeldPcs /\ q \notin HeldPcs /\ p # "lock" /\ q # "lock" /\ q # "posix"
          /\ Legal(t, p, q)
      BY ClhPcs DEF Legal
    <2>4. /\ pc[t] = p /\ pc'[t] = q /\ \A u \in Threads \ {t} : pc'[u] = pc[u]
          /\ \A u \in Threads : (Enqueued(u)' <=> Enqueued(u)) /\ (Hold(u)' <=> Hold(u))
          /\ Allowed(t) /\ Enqueued(t)
      BY <1>1, <2>2, <2>3, ChainMoves
    <2>5. LineInv(s, {})' /\ InTurn(t)
      BY <1>1, <2>3, <2>4, LineStays
    <2>6. \A u \in Threads : pc'[u] = "enter" => FirstOf(s, u)
      BY <1>5, <2>2, <2>4 DEF ClhInv
    <2>7. \A u \in Threads : Enqueued(u) => pc'[u] \in {"sleep", "asleep", "respin", "enter"} /\ loc'[u] = loc[u]
      BY <2>1, <2>4 DEF ClhInv
    <2>8. ClhInv(s, x)'
      BY <1>1, <2>1, <2>4, <2>5, <2>6, <2>7, ClhSame
    <2> QED
      BY <2>4, <2>5, <2>8
  <1>8. CASE ClhTakes(t)
    <2>1. /\ Step(t, "enter", "posix") /\ nd' = nd
          /\ lk' = [lk EXCEPT !.head = lk.current[t], !.current[t] = loc[t]]
          /\ loc' = [loc EXCEPT ![t] = NULL]
      BY <1>8 DEF ClhTakes
    <2>2. Legal(t, "enter", "posix")
      BY ClhPcs DEF Legal
    <2>3. /\ pc[t] = "enter" /\ pc'[t] = "posix" /\ \A u \in Threads \ {t} : pc'[u] = pc[u]
          /\ \A u \in Threads \ {t} : (Enqueued(u)' <=> Enqueued(u)) /\ (Hold(u)' <=> Hold(u))
          /\ Allowed(t) /\ Enqueued(t) /\ ~Enqueued(t)' /\ ~Hold(t) /\ Hold(t)'
      BY <1>1, <2>1, <2>2, ChainMoves, ClhPcs
    <2>4. FirstOf(s, t)
      BY <2>3 DEF ClhInv
    <2>5. LineInv(s, {})' /\ InTurn(t)
      BY <1>1, <2>3, <2>4, LineGrant
    <2>6. loc[t] = x
      BY <2>3, <2>4 DEF ClhInv
    <2>7. PICK c \in ClhNodes : c = lk.current[t]
      BY <1>3
    <2>8. nd[c].spin = LOCKED /\ c # x
      BY <1>3, <2>3, <2>7 DEF ClhInv
    <2>9. /\ lk' \in [head : ClhNodes, tail : ClhNodes, current : [Threads -> ClhNodes]]
          /\ lk'.head = c /\ lk'.tail = lk.tail /\ lk'.current[t] = x
          /\ \A u \in Threads \ {t} : lk'.current[u] = lk.current[u]
          /\ loc' = [u \in Threads |-> loc'[u]] /\ \A u \in Threads \ {t} : loc'[u] = loc[u]
      BY <1>1, <1>3, <2>1, <2>6, <2>7
    <2>10. ClhType'
      BY <1>1, <2>1, <2>9 DEF ClhType
    <2>11. ClhOwn(c)'
      <3>1. \A u \in Threads : lk'.current[u] # c
        BY <1>3, <2>7, <2>8, <2>9
      <3>2. \A u, v \in Threads : lk'.current[u] = lk'.current[v] => u = v
        BY <1>3, <2>9
      <3>3. \A n \in ClhNodes : n = c \/ \E u \in Threads : lk'.current[u] = n
        <4> SUFFICES ASSUME NEW n \in ClhNodes, n # c
                     PROVE  \E u \in Threads : lk'.current[u] = n
          OBVIOUS
        <4>1. CASE n = x
          BY <2>9, <4>1
        <4>2. CASE n # x
          <5>1. PICK u \in Threads : lk.current[u] = n
            BY <1>1, <4>2 DEF ClhOwn
          <5> QED
            BY <2>7, <2>9, <5>1
        <4> QED
          BY <4>1, <4>2
      <3> QED
        BY <3>1, <3>2, <3>3 DEF ClhOwn
    <2>12. \A u \in Threads \ {t} : ~FirstOf(s, u) /\ ~Hold(u) /\ ~Hold(u)'
      <3>1. \A u \in Threads \ {t} : ~FirstOf(s, u)
        BY <2>4 DEF FirstOf
      <3> QED
        BY <1>2, <2>3, <3>1
    <2>13. \A u \in Threads : Node(u)' = Node(u)
      BY <2>3, <2>7, <2>9, <2>12 DEF Node
    <2>14. \A u, v \in Threads : Before(s, u, v) => loc'[v] = Node(u)'
      BY <1>4, <2>4, <2>9, <2>13
    <2>15. \A u \in Threads : Enqueued(u)' => u # t /\ Enqueued(u)
      BY <2>3
    <2>16. \A u \in Threads : Enqueued(u)' => /\ pc'[u] \in {"sleep", "asleep", "respin", "enter"}
                                           /\ nd'[lk'.current[u]].spin = LOCKED
      BY <2>1, <2>3, <2>9, <2>15 DEF ClhInv
    <2>17. \A u \in Threads : pc'[u] = "enter" => FirstOf(s, u)
      BY <2>3 DEF ClhInv
    <2>18. Len(s) # 0
      BY <2>4 DEF FirstOf
    <2>19. \A u \in Threads : LastOf(s, u) => lk'.tail = Node(u)'
      BY <2>9, <2>13 DEF ClhInv
    <2>20. \A u \in Threads : FirstOf(s, u) => Hold(u)'
      BY <2>3, <2>12
    <2>21. \A u \in Threads : Hold(u)' => lk'.head = c /\ nd'[c].spin = LOCKED
      BY <2>1, <2>8, <2>9
    <2>22. ClhInv(s, c)'
      BY <2>5, <2>10, <2>11, <2>14, <2>16, <2>17, <2>18, <2>19, <2>20, <2>21 DEF ClhInv
    <2> QED
      BY <2>3, <2>5, <2>22
  <1>9. CASE ClhTurns(t)
    <2>1. Step(t, "unlock", "handover") /\ lk' = lk /\ nd' = nd /\ loc' = loc
      BY <1>9 DEF ClhTurns
    <2>2. Legal(t, "unlock", "handover")
      BY ClhPcs DEF Legal
    <2>3. /\ pc[t] = "unlock" /\ pc'[t] = "handover" /\ \A u \in Threads \ {t} : pc'[u] = pc[u]
          /\ \A u \in Threads : (Enqueued(u)' <=> Enqueued(u)) /\ (Hold(u)' <=> Hold(u))
          /\ Allowed(t) /\ ~Enqueued(t)
      BY <1>1, <2>1, <2>2, ChainMoves, ClhPcs
    <2>4. LineInv(s, {})' /\ InTurn(t)
      BY <1>1, <2>3, LineStays
    <2>5. \A u \in Threads : pc'[u] = "enter" => FirstOf(s, u)
      BY <2>3 DEF ClhInv
    <2>6. \A u \in Threads : Enqueued(u) => pc'[u] \in {"sleep", "asleep", "respin", "enter"} /\ loc'[u] = loc[u]
      BY <2>1, <2>3 DEF ClhInv
    <2>7. ClhInv(s, x)'
      BY <1>1, <2>1, <2>3, <2>4, <2>5, <2>6, ClhSame
    <2> QED
      BY <2>3, <2>4, <2>7
  <1>10. CASE ClhWakes(t)
    <2>1. PICK q \in {"futexwake", After(t)} : Step(t, "handover", q)
      BY <1>10 DEF ClhWakes
    <2>2. PICK y : loc' = [loc EXCEPT ![t] = y]
      BY <1>10 DEF ClhWakes
    <2>3. nd' = [nd EXCEPT ![lk.head].spin = UNLOCKED] /\ lk' = lk
      BY <1>10 DEF ClhWakes
    <2>4. Legal(t, "handover", q) /\ q # "posix" /\ q \notin HeldPcs /\ ~(LockPc(q) /\ q # "lock") /\ q # "enter"
      BY ChainPcs, ClhPcs DEF Legal, After
    <2>5. /\ pc[t] = "handover" /\ pc'[t] = q /\ \A u \in Threads \ {t} : pc'[u] = pc[u]
          /\ \A u \in Threads \ {t} : (Enqueued(u)' <=> Enqueued(u)) /\ (Hold(u)' <=> Hold(u))
          /\ Allowed(t) /\ Hold(t) /\ ~Hold(t)' /\ ~Enqueued(t)' /\ ~Enqueued(t)
      BY <1>1, <2>1, <2>4, ChainMoves, ClhPcs
    <2>6. FirstOf(s, t) /\ lk.head = x /\ Node(t) = x
      BY <1>2, <2>5 DEF ClhInv, Node
    <2>7. LineInv(Tail(s), {})' /\ InTurn(t)
      BY <1>1, <2>4, <2>5, LineLeave
    <2>8. /\ nd' \in [ClhNodes -> [spin : {LOCKED, UNLOCKED}]] /\ nd'[x].spin = UNLOCKED
          /\ \A n \in ClhNodes \ {x} : nd'[n] = nd[n]
      BY <1>1, <1>3, <2>3, <2>6
    <2>9. loc' = [u \in Threads |-> loc'[u]] /\ \A u \in Threads \ {t} : loc'[u] = loc[u]
      BY <1>1, <2>2
    <2>10. /\ \A u, v : Before(Tail(s), u, v) <=> Before(s, u, v) /\ u # t
           /\ \A u : LastOf(Tail(s), u) <=> LastOf(s, u) /\ u # t
           /\ \A u : FirstOf(Tail(s), u) <=> Before(s, t, u)
           /\ Len(Tail(s)) = Len(s) - 1 /\ Tail(s) \in Seq(Threads)
      BY <1>1, <2>6, LineTail
    <2>11. ClhType' /\ ClhOwn(x)'
      BY <1>1, <2>3, <2>8, <2>9 DEF ClhType, ClhOwn
    <2>12. \A u \in Threads \ {t} : ~Hold(u) /\ ~Hold(u)'
      <3>1. \A u \in Threads \ {t} : ~FirstOf(s, u)
        BY <2>6 DEF FirstOf
      <3> QED
        BY <1>2, <2>5, <3>1
    <2>13. \A u \in Threads : Enqueued(u)' => /\ pc'[u] \in {"sleep", "asleep", "respin", "enter"}
                                           /\ nd'[lk'.current[u]].spin = LOCKED
      <3> SUFFICES ASSUME NEW u \in Threads, Enqueued(u)'
                   PROVE  /\ pc'[u] \in {"sleep", "asleep", "respin", "enter"}
                          /\ nd'[lk.current[u]].spin = LOCKED
        BY <2>3
      <3>1. u # t /\ Enqueued(u) /\ lk.current[u] \in ClhNodes \ {x}
        BY <1>3, <2>5
      <3> QED
        BY <2>5, <2>8, <3>1 DEF ClhInv
    <2>14. Len(Tail(s)) = 0 => lk'.tail = x /\ nd'[x].spin = UNLOCKED
      <3> SUFFICES ASSUME Len(Tail(s)) = 0
                   PROVE  lk.tail = x
        BY <2>3, <2>8
      <3>1. Len(s) \in Nat /\ Len(s) = 1
        BY <1>1, <2>10, SeqLength
      <3>2. LastOf(s, t)
        BY <2>6, <3>1 DEF FirstOf, LastOf
      <3> QED
        BY <2>6, <3>2 DEF ClhInv
    <2>15. \A u \in Threads : FirstOf(Tail(s), u) => loc'[u] = x /\ nd'[x].spin = UNLOCKED
      BY <1>4, <2>6, <2>8, <2>9, <2>10
    <2>16. \A u \in Threads \ {t} : Node(u)' = Node(u)
      BY <2>3, <2>12 DEF Node
    <2>17. \A u, v \in Threads : Before(Tail(s), u, v) => loc'[v] = Node(u)'
      <3> SUFFICES ASSUME NEW u \in Threads, NEW v \in Threads, Before(s, u, v), u # t
                   PROVE  loc'[v] = Node(u)'
        BY <2>10
      <3>1. v # t
        BY <1>4, <2>6
      <3> QED
        BY <1>4, <2>9, <2>16, <3>1
    <2>18. \A u \in Threads : LastOf(Tail(s), u) => lk'.tail = Node(u)'
      BY <2>3, <2>10, <2>16 DEF ClhInv
    <2>19. \A u \in Threads : pc'[u] = "enter" => FirstOf(Tail(s), u)
      <3> SUFFICES ASSUME NEW u \in Threads, pc'[u] = "enter"
                   PROVE  FALSE
        OBVIOUS
      <3>1. u # t /\ pc[u] = "enter"
        BY <2>4, <2>5
      <3> QED
        BY <2>6, <3>1 DEF ClhInv, FirstOf
    <2>20. ClhInv(Tail(s), x)'
      BY <2>5, <2>7, <2>11, <2>12, <2>13, <2>14, <2>15, <2>17, <2>18, <2>19 DEF ClhInv
    <2> QED
      BY <2>5, <2>7, <2>20
  <1>11. CASE FutexWakes(t)
    <2>1. /\ pc'[t] = After(t) /\ Allowed(t)
          /\ \A u \in Threads \ {t} : pc'[u] = pc[u] \/ (pc[u] = "asleep" /\ pc'[u] = "respin")
      BY <1>1, <1>11, FutexMoves
    <2>2. /\ \A u \in Threads : (Enqueued(u)' <=> Enqueued(u)) /\ (Hold(u)' <=> Hold(u))
          /\ ~Enqueued(t) /\ LineInv(s, {})' /\ InTurn(t)
      BY <1>1, <1>11, FutexMoves
    <2>3. lk' = lk /\ nd' = nd /\ loc' = [loc EXCEPT ![t] = NULL]
      BY <1>11 DEF FutexWakes
    <2>4. loc' = [u \in Threads |-> loc'[u]] /\ \A u \in Threads \ {t} : loc'[u] = loc[u]
      BY <1>1, <2>3
    <2>5. \A u \in Threads : pc'[u] = "enter" => FirstOf(s, u)
      <3>1. pc'[t] # "enter"
        BY <2>1 DEF After
      <3> QED
        BY <2>1, <3>1 DEF ClhInv
    <2>6. \A u \in Threads : Enqueued(u) => pc'[u] \in {"sleep", "asleep", "respin", "enter"} /\ loc'[u] = loc[u]
      BY <2>1, <2>2, <2>4 DEF ClhInv
    <2>7. ClhInv(s, x)'
      BY <1>1, <2>2, <2>3, <2>4, <2>5, <2>6, ClhSame
    <2> QED
      BY <2>1, <2>2, <2>7
  <1> QED
    BY <1>6, <1>7, <1>8, <1>9, <1>10, <1>11 DEF ClhMove

LEMMA ClhSpinCalls ==
  ASSUME NEW t \in Threads
  PROVE  /\ ClhSpin!CallLock(t) => CallLock(t)
         /\ ClhSpin!PosixLock(t) => PosixLock(t)
         /\ ClhSpin!PosixTryLock(t) => PosixTryLock(t)
         /\ ClhSpin!PosixUnlock(t) => PosixUnlock(t)
         /\ ClhSpin!CondTimedwait(t) => CondTimedwait(t)
         /\ ClhSpin!CondSignal(t) => CondSignal(t)
         /\ ClhSpin!CondBroadcast(t) => CondBroadcast(t)
         /\ \A p, q : ClhSpin!Step(t, p, q) => Step(t, p, q)
         /\ \A p, q : ClhSpin!Read(t, p, q) => Step(t, p, q) /\ lk' = lk /\ nd' = nd /\ loc' = loc
         /\ ClhSpin!After(t) = After(t)
  <1>1. ClhSpin!CallLock(t) => CallLock(t)
    BY DEF ClhSpin!CallLock, CallLock, ClhSpin!Read, Read, ClhSpin!Step, Step, ClhSpin!mem, mem
  <1>2. ClhSpin!PosixLock(t) => PosixLock(t)
    BY DEF ClhSpin!PosixLock, PosixLock, ClhSpin!mem, mem
  <1>3. ClhSpin!PosixTryLock(t) => PosixTryLock(t)
    BY DEF ClhSpin!PosixTryLock, PosixTryLock, ClhSpin!mem, mem
  <1>4. ClhSpin!PosixUnlock(t) => PosixUnlock(t)
    BY DEF ClhSpin!PosixUnlock, PosixUnlock, ClhSpin!mem, mem
  <1>5. \A u : ClhSpin!RealWake(u) <=> RealWake(u)
    BY DEF ClhSpin!RealWake, RealWake, ClhSpin!Read, Read, ClhSpin!Step, Step, ClhSpin!mem, mem
  <1>6. ClhSpin!CondTimedwait(t) => CondTimedwait(t)
    BY <1>5, Zenon DEF ClhSpin!CondTimedwait, CondTimedwait, ClhSpin!CallWait, CallWait, ClhSpin!RealWait, RealWait,
                ClhSpin!RealReturn, RealReturn, ClhSpin!WaitPosixUnlock, WaitPosixUnlock, ClhSpin!mem, mem
  <1>7. ClhSpin!CondSignal(t) => CondSignal(t)
    BY <1>5 DEF ClhSpin!CondSignal, CondSignal
  <1>8. ClhSpin!CondBroadcast(t) => CondBroadcast(t)
    BY DEF ClhSpin!CondBroadcast, CondBroadcast, ClhSpin!mem, mem
  <1>9. \A p, q : ClhSpin!Step(t, p, q) => Step(t, p, q)
    BY DEF ClhSpin!Step, Step
  <1>10. \A p, q : ClhSpin!Read(t, p, q) => Step(t, p, q) /\ lk' = lk /\ nd' = nd /\ loc' = loc
    BY DEF ClhSpin!Read, ClhSpin!Step, Step, ClhSpin!mem
  <1>11. ClhSpin!After(t) = After(t)
    BY DEF ClhSpin!After, After
  <1> QED
    BY <1>1, <1>2, <1>3, <1>4, <1>6, <1>7, <1>8, <1>9, <1>10, <1>11

LEMMA ClhSpinMoves ==
  ASSUME NEW t \in Threads
  PROVE  /\ ClhSpin!Enqueue(t) => ClhArrives(t)
         /\ ClhSpin!waiting_policy_sleep(t, loc[t], "enter") => Sleeps(t) \/ ClhSees(t)
         /\ ClhSpin!Spinning(t, loc[t], "enter") => ClhSees(t)
         /\ ClhSpin!TakeNode(t) => ClhTakes(t)
         /\ ClhSpin!ReadHead(t) => ClhTurns(t)
         /\ ClhSpin!waiting_policy_wake(t, lk.head, loc, "handover", "futexwake", ClhSpin!After(t))
              => ClhWakes(t) \/ FutexWakes(t)
         /\ ClhSpin!WakeStore(t, lk.head, "handover", "futexwake", ClhSpin!After(t)) => ClhWakes(t)
  <1>1. /\ \A p, q : ClhSpin!Step(t, p, q) => Step(t, p, q)
        /\ \A p, q : ClhSpin!Read(t, p, q) => Step(t, p, q) /\ lk' = lk /\ nd' = nd /\ loc' = loc
        /\ ClhSpin!After(t) = After(t)
    BY ClhSpinCalls
  <1>2. ClhSpin!LOCKED = LOCKED /\ ClhSpin!UNLOCKED = UNLOCKED
    BY DEF ClhSpin!LOCKED, LOCKED, ClhSpin!UNLOCKED, UNLOCKED
  <1>3. ClhSpin!Enqueue(t) => ClhArrives(t)
    BY <1>1, <1>2 DEF ClhSpin!Enqueue, ClhArrives
  <1>4. ClhSpin!Spinning(t, loc[t], "enter") => ClhSees(t)
    BY <1>1, <1>2 DEF ClhSpin!Spinning, ClhSees
  <1>5. ClhSpin!FutexWait(t, loc[t]) \/ ClhSpin!Interrupt(t) => Sleeps(t)
    BY <1>1 DEF ClhSpin!FutexWait, ClhSpin!Interrupt, Sleeps
  <1>6. ClhSpin!Respin(t, loc[t], "enter") => ClhSees(t)
    BY <1>1, <1>2 DEF ClhSpin!Respin, ClhSees
  <1>7. ClhSpin!TakeNode(t) => ClhTakes(t)
    BY <1>1 DEF ClhSpin!TakeNode, ClhTakes
  <1>8. ClhSpin!ReadHead(t) => ClhTurns(t)
    BY <1>1 DEF ClhSpin!ReadHead, ClhTurns
  <1>9. ClhSpin!WakeStore(t, lk.head, "handover", "futexwake", ClhSpin!After(t)) => ClhWakes(t)
    BY <1>1, <1>2 DEF ClhSpin!WakeStore, ClhWakes
  <1>10. ClhSpin!FutexWake(t, loc, "futexwake", ClhSpin!After(t)) => FutexWakes(t)
    BY <1>1 DEF ClhSpin!FutexWake, FutexWakes
  <1> QED
    BY <1>3, <1>4, <1>5, <1>6, <1>7, <1>8, <1>9, <1>10
       DEF ClhSpin!waiting_policy_sleep, ClhSpin!waiting_policy_wake

LEMMA ClhParkCalls ==
  ASSUME NEW t \in Threads
  PROVE  /\ ClhPark!CallLock(t) => CallLock(t)
         /\ ClhPark!PosixLock(t) => PosixLock(t)
         /\ ClhPark!PosixTryLock(t) => PosixTryLock(t)
         /\ ClhPark!PosixUnlock(t) => PosixUnlock(t)
         /\ ClhPark!CondTimedwait(t) => CondTimedwait(t)
         /\ ClhPark!CondSignal(t) => CondSignal(t)
         /\ ClhPark!CondBroadcast(t) => CondBroadcast(t)
         /\ \A p, q : ClhPark!Step(t, p, q) => Step(t, p, q)
         /\ \A p, q : ClhPark!Read(t, p, q) => Step(t, p, q) /\ lk' = lk /\ nd' = nd /\ loc' = loc
         /\ ClhPark!After(t) = After(t)
  <1>1. ClhPark!CallLock(t) => CallLock(t)
    BY DEF ClhPark!CallLock, CallLock, ClhPark!Read, Read, ClhPark!Step, Step, ClhPark!mem, mem
  <1>2. ClhPark!PosixLock(t) => PosixLock(t)
    BY DEF ClhPark!PosixLock, PosixLock, ClhPark!mem, mem
  <1>3. ClhPark!PosixTryLock(t) => PosixTryLock(t)
    BY DEF ClhPark!PosixTryLock, PosixTryLock, ClhPark!mem, mem
  <1>4. ClhPark!PosixUnlock(t) => PosixUnlock(t)
    BY DEF ClhPark!PosixUnlock, PosixUnlock, ClhPark!mem, mem
  <1>5. \A u : ClhPark!RealWake(u) <=> RealWake(u)
    BY DEF ClhPark!RealWake, RealWake, ClhPark!Read, Read, ClhPark!Step, Step, ClhPark!mem, mem
  <1>6. ClhPark!CondTimedwait(t) => CondTimedwait(t)
    BY <1>5, Zenon DEF ClhPark!CondTimedwait, CondTimedwait, ClhPark!CallWait, CallWait, ClhPark!RealWait, RealWait,
                ClhPark!RealReturn, RealReturn, ClhPark!WaitPosixUnlock, WaitPosixUnlock, ClhPark!mem, mem
  <1>7. ClhPark!CondSignal(t) => CondSignal(t)
    BY <1>5 DEF ClhPark!CondSignal, CondSignal
  <1>8. ClhPark!CondBroadcast(t) => CondBroadcast(t)
    BY DEF ClhPark!CondBroadcast, CondBroadcast, ClhPark!mem, mem
  <1>9. \A p, q : ClhPark!Step(t, p, q) => Step(t, p, q)
    BY DEF ClhPark!Step, Step
  <1>10. \A p, q : ClhPark!Read(t, p, q) => Step(t, p, q) /\ lk' = lk /\ nd' = nd /\ loc' = loc
    BY DEF ClhPark!Read, ClhPark!Step, Step, ClhPark!mem
  <1>11. ClhPark!After(t) = After(t)
    BY DEF ClhPark!After, After
  <1> QED
    BY <1>1, <1>2, <1>3, <1>4, <1>6, <1>7, <1>8, <1>9, <1>10, <1>11

LEMMA ClhParkMoves ==
  ASSUME NEW t \in Threads
  PROVE  /\ ClhPark!Enqueue(t) => ClhArrives(t)
         /\ ClhPark!waiting_policy_sleep(t, loc[t], "enter") => Sleeps(t) \/ ClhSees(t)
         /\ ClhPark!Spinning(t, loc[t], "enter") => ClhSees(t)
         /\ ClhPark!TakeNode(t) => ClhTakes(t)
         /\ ClhPark!ReadHead(t) => ClhTurns(t)
         /\ ClhPark!waiting_policy_wake(t, lk.head, loc, "handover", "futexwake", ClhPark!After(t))
              => ClhWakes(t) \/ FutexWakes(t)
         /\ ClhPark!WakeStore(t, lk.head, "handover", "futexwake", ClhPark!After(t)) => ClhWakes(t)
  <1>1. /\ \A p, q : ClhPark!Step(t, p, q) => Step(t, p, q)
        /\ \A p, q : ClhPark!Read(t, p, q) => Step(t, p, q) /\ lk' = lk /\ nd' = nd /\ loc' = loc
        /\ ClhPark!After(t) = After(t)
    BY ClhParkCalls
  <1>2. ClhPark!LOCKED = LOCKED /\ ClhPark!UNLOCKED = UNLOCKED
    BY DEF ClhPark!LOCKED, LOCKED, ClhPark!UNLOCKED, UNLOCKED
  <1>3. ClhPark!Enqueue(t) => ClhArrives(t)
    BY <1>1, <1>2 DEF ClhPark!Enqueue, ClhArrives
  <1>4. ClhPark!Spinning(t, loc[t], "enter") => ClhSees(t)
    BY <1>1, <1>2 DEF ClhPark!Spinning, ClhSees
  <1>5. ClhPark!FutexWait(t, loc[t]) \/ ClhPark!Interrupt(t) => Sleeps(t)
    BY <1>1 DEF ClhPark!FutexWait, ClhPark!Interrupt, Sleeps
  <1>6. ClhPark!Respin(t, loc[t], "enter") => ClhSees(t)
    BY <1>1, <1>2 DEF ClhPark!Respin, ClhSees
  <1>7. ClhPark!TakeNode(t) => ClhTakes(t)
    BY <1>1 DEF ClhPark!TakeNode, ClhTakes
  <1>8. ClhPark!ReadHead(t) => ClhTurns(t)
    BY <1>1 DEF ClhPark!ReadHead, ClhTurns
  <1>9. ClhPark!WakeStore(t, lk.head, "handover", "futexwake", ClhPark!After(t)) => ClhWakes(t)
    BY <1>1, <1>2 DEF ClhPark!WakeStore, ClhWakes
  <1>10. ClhPark!FutexWake(t, loc, "futexwake", ClhPark!After(t)) => FutexWakes(t)
    BY <1>1 DEF ClhPark!FutexWake, FutexWakes
  <1> QED
    BY <1>3, <1>4, <1>5, <1>6, <1>7, <1>8, <1>9, <1>10
       DEF ClhPark!waiting_policy_sleep, ClhPark!waiting_policy_wake

LEMMA ClhKept ==
  ASSUME ApiInv, \E s, x : ClhInv(s, x), algo' = algo, NEW t \in Threads, Ordered(t),
         Wrapped(t) \/ ClhMove(t)
  PROVE  (\E s, x : ClhInv(s, x)') /\ InTurn(t) /\ (Allowed(t) \/ Wrapped(t))
  <1>1. PICK s, x : ClhInv(s, x)
    OBVIOUS
  <1>2. CASE Wrapped(t)
    <2>1. LineInv(s, {}) /\ ClhType
      BY <1>1 DEF ClhInv
    <2>2. /\ LineInv(s, {})' /\ InTurn(t)
          /\ lk' = lk /\ nd' = nd /\ loc' = loc
          /\ \A u \in Threads : Around(u) /\ (Enqueued(u)' <=> Enqueued(u)) /\ (Hold(u)' <=> Hold(u))
          /\ \A u \in Threads : Enqueued(u) => pc'[u] = pc[u]
      BY <1>2, <2>1, LineWrapped
    <2>3. \A u \in Threads : pc'[u] = "enter" => FirstOf(s, u)
      BY <1>1, <2>2 DEF Around, RestPcs, ClhInv
    <2>4. \A u \in Threads : Enqueued(u) => pc'[u] \in {"sleep", "asleep", "respin", "enter"} /\ loc'[u] = loc[u]
      BY <1>1, <2>2 DEF ClhInv
    <2>5. loc' = [u \in Threads |-> loc'[u]]
      BY <2>1, <2>2 DEF ClhType
    <2>6. ClhInv(s, x)'
      BY <1>1, <2>2, <2>3, <2>4, <2>5, ClhSame
    <2> QED
      BY <1>2, <2>2, <2>6
  <1>3. CASE ClhMove(t)
    BY <1>1, <1>3, ClhStep
  <1> QED
    BY <1>2, <1>3

LEMMA ClhAlgoStep ==
  ASSUME ApiInv, \E s, x : ClhInv(s, x), algo \in ClhAlgos, algo' = algo, NEW t \in Threads, Calls(t),
         Ordered(t)
  PROVE  (\E s, x : ClhInv(s, x)') /\ InTurn(t) /\ (Allowed(t) \/ Wrapped(t))
  <1>1. \/ algo = "clh_spin" /\ ClhSpin!clh(t)
        \/ algo = "clh_park" /\ ClhPark!clh(t)
        \/ algo = "clhepfl"  /\ ClhSpin!clhepfl(t)
    BY DEF Calls, ClhAlgos
  <1>2. CASE ClhSpin!clh(t)
    <2>1. \/ ClhSpin!CallLock(t) \/ ClhSpin!PosixLock(t) \/ ClhSpin!PosixUnlock(t) \/ ClhSpin!CondTimedwait(t)
          \/ ClhSpin!Enqueue(t) \/ ClhSpin!waiting_policy_sleep(t, loc[t], "enter")
          \/ ClhSpin!TakeNode(t) \/ ClhSpin!ReadHead(t)
          \/ ClhSpin!waiting_policy_wake(t, lk.head, loc, "handover", "futexwake", ClhSpin!After(t))
      BY <1>2, Zenon DEF ClhSpin!clh, ClhSpin!clh_mutex_lock, ClhSpin!clh_mutex_unlock, ClhSpin!clh_cond_timedwait
    <2>2. Wrapped(t) \/ ClhMove(t)
      BY <2>1, ClhSpinCalls, ClhSpinMoves DEF Wrapped, ClhMove
    <2> QED
      BY <2>2, ClhKept
  <1>3. CASE ClhPark!clh(t)
    <2>1. \/ ClhPark!CallLock(t) \/ ClhPark!PosixLock(t) \/ ClhPark!PosixUnlock(t) \/ ClhPark!CondTimedwait(t)
          \/ ClhPark!Enqueue(t) \/ ClhPark!waiting_policy_sleep(t, loc[t], "enter")
          \/ ClhPark!TakeNode(t) \/ ClhPark!ReadHead(t)
          \/ ClhPark!waiting_policy_wake(t, lk.head, loc, "handover", "futexwake", ClhPark!After(t))
      BY <1>3, Zenon DEF ClhPark!clh, ClhPark!clh_mutex_lock, ClhPark!clh_mutex_unlock, ClhPark!clh_cond_timedwait
    <2>2. Wrapped(t) \/ ClhMove(t)
      BY <2>1, ClhParkCalls, ClhParkMoves DEF Wrapped, ClhMove
    <2> QED
      BY <2>2, ClhKept
  <1>4. CASE ClhSpin!clhepfl(t)
    <2>1. \/ ClhSpin!CallLock(t) \/ ClhSpin!PosixLock(t) \/ ClhSpin!PosixUnlock(t) \/ ClhSpin!CondTimedwait(t)
          \/ ClhSpin!Enqueue(t) \/ ClhSpin!Spinning(t, loc[t], "enter")
          \/ ClhSpin!TakeNode(t) \/ ClhSpin!ReadHead(t)
          \/ ClhSpin!WakeStore(t, lk.head, "handover", "futexwake", ClhSpin!After(t))
      BY <1>4, Zenon DEF ClhSpin!clhepfl, ClhSpin!clhepfl_mutex_lock, ClhSpin!clhepfl_mutex_unlock, ClhSpin!clhepfl_cond_timedwait
    <2>2. Wrapped(t) \/ ClhMove(t)
      BY <2>1, ClhSpinCalls, ClhSpinMoves DEF Wrapped, ClhMove
    <2> QED
      BY <2>2, ClhKept
  <1> QED
    BY <1>1, <1>2, <1>3, <1>4

LEMMA ClhInitial ==
  ASSUME ClhSpin!Init, order = <<>>
  PROVE  ClhInv(<<>>, NULL)
  <1>1. /\ pc = [t \in Threads |-> "idle"]
        /\ lk = [head |-> NULL, tail |-> NULL, current |-> [t \in Threads |-> t]]
        /\ nd = [n \in ClhNodes |-> [spin |-> UNLOCKED]] /\ loc = [t \in Threads |-> NULL]
    BY DEF ClhSpin!Init, ClhSpin!ApiInit, ClhSpin!clh_mutex_create, ClhSpin!clh_init_context, ClhNodes,
         ClhSpin!UNLOCKED, UNLOCKED
  <1>2. \A u \in Threads : ~Hold(u) /\ ~Enqueued(u)
    BY <1>1 DEF Hold, Enqueued, HeldPcs, UnlockPcs, LockPc, WrapperPcs
  <1>3. LineInv(<<>>, {})
    BY <1>2, EmptyLine
  <1>4. Len(<<>>) = 0 /\ \A u, v : ~FirstOf(<<>>, u) /\ ~LastOf(<<>>, u) /\ ~Before(<<>>, u, v)
    BY DEF FirstOf, LastOf, Before
  <1>5. NULL \notin Threads /\ NULL \in ClhNodes /\ \A t \in Threads : t \in ClhNodes
    BY LockApiAssumption DEF ClhNodes
  <1>6. ClhType
    BY <1>1, <1>5 DEF ClhType
  <1>7. ClhOwn(NULL)
    BY <1>1, <1>5 DEF ClhOwn, ClhNodes
  <1>8. lk.tail = NULL /\ nd[NULL].spin = UNLOCKED
    BY <1>1, <1>5
  <1>9. \A t \in Threads : pc[t] # "enter"
    BY <1>1
  <1> QED
    BY <1>2, <1>3, <1>4, <1>6, <1>7, <1>8, <1>9 DEF ClhInv

-----------------------------------------------------------------------------
(* malthusian.c                                                              *)

ConsOf(t, q) == <<t>> \o q

LEMMA LineCons ==
  ASSUME NEW q \in Seq(Threads), Distinct(q), NEW t \in Threads, ~At1(q, t)
  PROVE  /\ ConsOf(t, q) \in Seq(Threads) /\ Distinct(ConsOf(t, q)) /\ Len(ConsOf(t, q)) # 0
         /\ \A u : At1(ConsOf(t, q), u) <=> At1(q, u) \/ u = t
         /\ \A u, v : Before(ConsOf(t, q), u, v) <=> Before(q, u, v) \/ (u = t /\ FirstOf(q, v))
         /\ \A u : LastOf(ConsOf(t, q), u) <=> IF Len(q) = 0 THEN u = t ELSE LastOf(q, u)
         /\ \A u : FirstOf(ConsOf(t, q), u) <=> u = t
  <1> DEFINE r == ConsOf(t, q)
  <1>1. /\ r \in Seq(Threads) /\ Len(r) = Len(q) + 1 /\ Len(q) \in Nat
        /\ r[1] = t
        /\ \A i \in 1..Len(q) : r[i + 1] = q[i]
    BY DEF ConsOf
  <1> HIDE DEF r
  <1>2. \A i \in 1..Len(r) : i = 1 \/ \E j \in 1..Len(q) : i = j + 1
    <2> SUFFICES ASSUME NEW i \in 1..Len(r), i # 1
                 PROVE  \E j \in 1..Len(q) : i = j + 1
      OBVIOUS
    <2>1. i - 1 \in 1..Len(q) /\ i = (i - 1) + 1
      BY <1>1
    <2> QED
      BY <2>1
  <1>3. \A i \in 1..Len(q) : i + 1 \in 1..Len(r) /\ i + 1 # 1
    BY <1>1
  <1>4. 1 \in 1..Len(r)
    BY <1>1
  <1>5. Distinct(r)
    <2> SUFFICES ASSUME NEW i \in 1..Len(r), NEW j \in 1..Len(r), r[i] = r[j]
                 PROVE  i = j
      BY DEF Distinct
    <2>1. CASE i = 1 /\ j = 1
      BY <2>1
    <2>2. ASSUME NEW k \in 1..Len(q)
          PROVE  r[k + 1] # t
      BY <1>1 DEF At1
    <2>3. CASE i = 1 /\ j # 1
      BY <1>1, <1>2, <2>2, <2>3
    <2>4. CASE i # 1 /\ j = 1
      BY <1>1, <1>2, <2>2, <2>4
    <2>5. CASE i # 1 /\ j # 1
      <3>1. PICK k \in 1..Len(q) : i = k + 1
        BY <1>2, <2>5
      <3>2. PICK l \in 1..Len(q) : j = l + 1
        BY <1>2, <2>5
      <3>3. q[k] = q[l]
        BY <1>1, <3>1, <3>2
      <3> QED
        BY <3>1, <3>2, <3>3 DEF Distinct
    <2> QED
      BY <2>1, <2>3, <2>4, <2>5
  <1>6. ASSUME NEW u
        PROVE  At1(r, u) <=> At1(q, u) \/ u = t
    <2>1. ASSUME At1(r, u), u # t
          PROVE  At1(q, u)
      <3>1. PICK i \in 1..Len(r) : r[i] = u
        BY <2>1 DEF At1
      <3>2. PICK j \in 1..Len(q) : i = j + 1
        BY <1>1, <1>2, <2>1, <3>1
      <3> QED
        BY <1>1, <3>1, <3>2 DEF At1
    <2>2. ASSUME At1(q, u)
          PROVE  At1(r, u)
      BY <1>1, <1>3, <2>2 DEF At1
    <2>3. At1(r, t)
      BY <1>1, <1>4 DEF At1
    <2> QED
      BY <2>1, <2>2, <2>3
  <1>7. ASSUME NEW u, NEW v
        PROVE  Before(r, u, v) <=> Before(q, u, v) \/ (u = t /\ FirstOf(q, v))
    <2>1. ASSUME Before(r, u, v)
          PROVE  Before(q, u, v) \/ (u = t /\ FirstOf(q, v))
      <3>1. PICK i \in 1..Len(r) : i + 1 \in 1..Len(r) /\ r[i] = u /\ r[i + 1] = v
        BY <2>1 DEF Before
      <3>2. CASE i = 1
        <4>1. 1 \in 1..Len(q) /\ Len(q) # 0 /\ r[1 + 1] = q[1]
          BY <1>1, <3>1, <3>2
        <4> QED
          BY <1>1, <3>1, <3>2, <4>1 DEF FirstOf
      <3>3. CASE i # 1
        <4>1. PICK j \in 1..Len(q) : i = j + 1
          BY <1>2, <3>3
        <4>2. j + 1 \in 1..Len(q)
          BY <1>1, <3>1, <4>1
        <4>3. q[j] = u /\ q[j + 1] = v
          BY <1>1, <3>1, <4>1, <4>2
        <4> QED
          BY <4>2, <4>3 DEF Before
      <3> QED
        BY <3>2, <3>3
    <2>2. ASSUME Before(q, u, v)
          PROVE  Before(r, u, v)
      <3>1. PICK i \in 1..Len(q) : i + 1 \in 1..Len(q) /\ q[i] = u /\ q[i + 1] = v
        BY <2>2 DEF Before
      <3>2. i + 1 \in 1..Len(r) /\ (i + 1) + 1 \in 1..Len(r) /\ r[i + 1] = u /\ r[(i + 1) + 1] = v
        BY <1>1, <1>3, <3>1
      <3> QED
        BY <3>2 DEF Before
    <2>3. ASSUME FirstOf(q, v)
          PROVE  Before(r, t, v)
      <3>1. 1 \in 1..Len(q) /\ 1 + 1 \in 1..Len(r) /\ r[1 + 1] = v
        BY <1>1, <2>3 DEF FirstOf
      <3> QED
        BY <1>1, <1>4, <3>1 DEF Before
    <2> QED
      BY <2>1, <2>2, <2>3
  <1>8. ASSUME NEW u
        PROVE  LastOf(r, u) <=> IF Len(q) = 0 THEN u = t ELSE LastOf(q, u)
    <2>1. CASE Len(q) = 0
      BY <1>1, <2>1 DEF LastOf
    <2>2. CASE Len(q) # 0
      <3>1. Len(q) \in 1..Len(q) /\ r[Len(r)] = q[Len(q)]
        BY <1>1, <2>2
      <3> QED
        BY <1>1, <2>2, <3>1 DEF LastOf
    <2> QED
      BY <2>1, <2>2
  <1>9. Len(r) # 0 /\ \A u : FirstOf(r, u) <=> u = t
    BY <1>1 DEF FirstOf
  <1> QED
    BY <1>1, <1>5, <1>6, <1>7, <1>8, <1>9 DEF r

LEMMA LinePop ==
  ASSUME NEW q \in Seq(Threads), Distinct(q), q # <<>>
  PROVE  /\ Len(q) \in Nat \ {0} /\ q[Len(q)] \in Threads /\ At1(q, q[Len(q)])
         /\ SubSeq(q, 1, Len(q) - 1) \in Seq(Threads) /\ Distinct(SubSeq(q, 1, Len(q) - 1))
         /\ Len(SubSeq(q, 1, Len(q) - 1)) = Len(q) - 1
         /\ \A u : At1(SubSeq(q, 1, Len(q) - 1), u) <=> At1(q, u) /\ u # q[Len(q)]
  <1> DEFINE r == SubSeq(q, 1, Len(q) - 1)
  <1>1. Len(q) \in Nat \ {0} /\ \A i \in 1..Len(q) : q[i] \in Threads
    OBVIOUS
  <1>2. r \in Seq(Threads) /\ Len(r) = Len(q) - 1 /\ \A i \in 1..Len(r) : r[i] = q[i]
    <2>1. PICK n \in Nat : n = Len(q) - 1
      BY <1>1
    <2>2. 1 \in Int /\ n \in Int /\ \A i \in 1..n : q[i] \in Threads
      BY <1>1, <2>1
    <2>3. /\ SubSeq(q, 1, n) \in Seq(Threads) /\ Len(SubSeq(q, 1, n)) = IF 1 <= n THEN n - 1 + 1 ELSE 0
          /\ \A i \in 1..n - 1 + 1 : SubSeq(q, 1, n)[i] = q[1 + i - 1]
      BY <2>2, SubSeqProperties
    <2>4. \A i \in 1..n : i \in 1..n - 1 + 1 /\ 1 + i - 1 = i
      OBVIOUS
    <2>5. Len(SubSeq(q, 1, n)) = n
      BY <2>3
    <2> QED
      BY <2>1, <2>3, <2>4, <2>5
  <1> HIDE DEF r
  <1>3. \A i \in 1..Len(r) : i \in 1..Len(q) /\ i # Len(q)
    BY <1>1, <1>2
  <1>4. \A i \in 1..Len(q) : i \in 1..Len(r) \/ i = Len(q)
    BY <1>1, <1>2
  <1>5. Len(q) \in 1..Len(q)
    BY <1>1
  <1>6. Distinct(r)
    BY <1>2, <1>3 DEF Distinct
  <1>7. ASSUME NEW u
        PROVE  At1(r, u) <=> At1(q, u) /\ u # q[Len(q)]
    <2>1. ASSUME At1(r, u)
          PROVE  At1(q, u) /\ u # q[Len(q)]
      <3>1. PICK i \in 1..Len(r) : r[i] = u
        BY <2>1 DEF At1
      <3>2. q[i] = u /\ i \in 1..Len(q) /\ i # Len(q)
        BY <1>2, <1>3, <3>1
      <3> QED
        BY <1>5, <3>2 DEF At1, Distinct
    <2>2. ASSUME At1(q, u), u # q[Len(q)]
          PROVE  At1(r, u)
      BY <1>2, <1>4, <2>2 DEF At1
    <2> QED
      BY <2>1, <2>2
  <1> QED
    BY <1>1, <1>2, <1>5, <1>6, <1>7 DEF r, At1

Aside(v) ==
  At1(lk.passive, v) \/ \E t \in Threads : pc[t] \in {"graft", "graftwait"} /\ loc[t] = v

\* X: the passive waiters, and the one that the holder is about to reactivate.
MalthusianInv ==
  /\ lk \in [tail : Threads \cup {NULL}, passive : Seq(Threads)] /\ Distinct(lk.passive)
  /\ \E s, X : ChainInv(s, X) /\ \A v \in Threads : v \in X <=> Aside(v)
  /\ \A t \in Threads : pc[t] \in {"graft", "graftwait"} => ~At1(lk.passive, loc[t])

\* What the holder finds behind itself.
LEMMA HolderSees ==
  ASSUME NEW s, NEW X, ChainInv(s, X), NEW t \in Threads, Hold(t)
  PROVE  /\ s \in Seq(Threads) /\ Distinct(s) /\ FirstOf(s, t) /\ t \notin X /\ ~Enqueued(t)
         /\ \A u \in Threads \ {t} : ~Hold(u) /\ pc[u] \notin GraftPcs
         /\ nd[t].next # NULL /\ pc[t] # "graftlink" =>
              /\ nd[t].next \in Threads /\ Before(s, t, nd[t].next) /\ Enqueued(nd[t].next)
              /\ pc[nd[t].next] \notin {"mark", "link"}
  <1>1. /\ s \in Seq(Threads) /\ Distinct(s) /\ FirstOf(s, t) /\ t \notin X /\ ~Enqueued(t) /\ OneHolder
    BY LineHolder DEF ChainInv, LineInv
  <1>2. \A u \in Threads \ {t} : ~Hold(u)
    BY <1>1 DEF OneHolder
  <1>3. \A p \in GraftPcs : p \in HeldPcs
    BY DEF GraftPcs, HeldPcs, UnlockPcs
  <1>4. ASSUME nd[t].next # NULL, pc[t] # "graftlink"
        PROVE  /\ nd[t].next \in Threads /\ Before(s, t, nd[t].next) /\ Enqueued(nd[t].next)
               /\ pc[nd[t].next] \notin {"mark", "link"}
    <2>1. ~LastOf(s, t)
      BY <1>4 DEF ChainInv
    <2>2. PICK w \in Threads : Before(s, t, w)
      BY <1>1, <2>1, LineFacts
    <2>3. Linked(t, w)
      BY <2>2 DEF ChainInv
    <2>4. nd[t].next = w /\ pc[w] \notin {"mark", "link"}
      BY <1>4, <2>3 DEF Linked
    <2>5. Enqueued(w)
      <3>1. At1(s, w) /\ w # t
        BY <1>1, <2>2, LineFacts
      <3> QED
        BY <1>2, <3>1 DEF ChainInv, LineInv
    <2> QED
      BY <2>2, <2>4, <2>5
  <1> QED
    BY <1>1, <1>2, <1>3, <1>4 DEF Hold

\* The queue with a thread put in or taken out.
LEMMA LineMoved ==
  ASSUME NEW s, NEW X, LineInv(s, X), algo \notin FifoAlgos, algo' = algo,
         NEW r \in Seq(Threads), Distinct(r), NEW Y,
         \A u \in Threads : (Enqueued(u)' <=> Enqueued(u)) /\ (Hold(u)' <=> Hold(u)),
         \A u \in Threads : At1(r, u) <=> (Enqueued(u) \/ Hold(u)) /\ u \notin Y,
         \A u \in Threads : FirstOf(s, u) => FirstOf(r, u)
  PROVE  LineInv(r, Y)'
  BY DEF LineInv

\* A step of the holder between two points of its unlock.
LEMMA HolderMoves ==
  ASSUME ApiInv, NEW s, NEW X, ChainInv(s, X), NEW t \in Threads, NEW p \in UnlockPcs, NEW q \in UnlockPcs,
         Step(t, p, q), algo \notin FifoAlgos, algo' = algo
  PROVE  /\ pc[t] = p /\ pc'[t] = q /\ \A u \in Threads \ {t} : pc'[u] = pc[u]
         /\ \A u \in Threads : (Enqueued(u)' <=> Enqueued(u)) /\ (Hold(u)' <=> Hold(u))
         /\ Hold(t) /\ Allowed(t) /\ InTurn(t)
         /\ p \notin {"mark", "link"} /\ q \notin {"mark", "link"}
         /\ \A u \in Threads : pc'[u] \in {"mark", "link"} <=> pc[u] \in {"mark", "link"}
         /\ \A u \in Threads : Enqueued(u)' => u # t /\ pc'[u] = pc[u]
         /\ \A u \in Threads : u # t => pc'[u] \notin {"handover", "cull"} /\ pc'[u] \notin GraftPcs
  <1>1. LineInv(s, X)
    BY DEF ChainInv
  <1>2. Legal(t, p, q) /\ p \in HeldPcs /\ q \in HeldPcs /\ ~LockPc(p) /\ ~LockPc(q)
    BY ChainPcs DEF Legal
  <1>3. /\ pc[t] = p /\ pc'[t] = q /\ \A u \in Threads \ {t} : pc'[u] = pc[u]
        /\ \A u \in Threads : (Enqueued(u)' <=> Enqueued(u)) /\ (Hold(u)' <=> Hold(u))
        /\ Hold(t) /\ ~Enqueued(t)' /\ Allowed(t)
    BY <1>1, <1>2, ChainMoves
  <1>4. p \notin {"mark", "link"} /\ q \notin {"mark", "link"}
    BY DEF UnlockPcs
  <1>5. InTurn(t)
    BY DEF InTurn, Granted
  <1>6. \A u \in Threads : u # t => pc'[u] \notin {"handover", "cull"} /\ pc'[u] \notin GraftPcs
    <2>1. \A u \in Threads \ {t} : ~Hold(u)
      BY <1>3, HolderSees
    <2>2. \A w \in {"handover", "cull"} \cup GraftPcs : w \in HeldPcs
      BY DEF GraftPcs, HeldPcs, UnlockPcs
    <2> QED
      BY <1>3, <2>1, <2>2 DEF Hold
  <1> QED
    BY <1>3, <1>4, <1>5, <1>6

\* Where the queue stays as it is.
LEMMA GraftStays ==
  ASSUME ApiInv, NEW s, NEW X, ChainInv(s, X), NEW t \in Threads, NEW p \in UnlockPcs,
         NEW q \in {"graft", "graftwait"}, Step(t, p, q), p # "graftlink",
         algo \notin FifoAlgos, algo' = algo, lk'.tail = lk.tail, ChainType',
         \A u \in Threads : nd'[u].spin = nd[u].spin,
         \A u \in Threads \ X : nd'[u].next = nd[u].next,
         \A u \in Threads \ {t} : loc'[u] = loc[u],
         loc'[t] \in X, nd'[loc'[t]].next = NULL
  PROVE  ChainInv(s, X)' /\ InTurn(t) /\ Allowed(t)
  <1>1. /\ LineInv(s, X) /\ s \in Seq(Threads) /\ Distinct(s)
        /\ \A u \in Threads : At1(s, u) <=> (Enqueued(u) \/ Hold(u)) /\ u \notin X
    BY DEF ChainInv, LineInv
  <1>2. {"graft", "graftwait"} \subseteq UnlockPcs
    BY DEF UnlockPcs
  <1>3. /\ pc[t] = p /\ pc'[t] = q /\ \A u \in Threads \ {t} : pc'[u] = pc[u]
        /\ \A u \in Threads : (Enqueued(u)' <=> Enqueued(u)) /\ (Hold(u)' <=> Hold(u))
        /\ Hold(t) /\ Allowed(t) /\ InTurn(t)
        /\ p \notin {"mark", "link"} /\ q \notin {"mark", "link"}
        /\ \A u \in Threads : pc'[u] \in {"mark", "link"} <=> pc[u] \in {"mark", "link"}
        /\ \A u \in Threads : Enqueued(u)' => u # t /\ pc'[u] = pc[u]
        /\ \A u \in Threads : u # t => pc'[u] \notin {"handover", "cull"} /\ pc'[u] \notin GraftPcs
    BY <1>2, HolderMoves
  <1>4. LineInv(s, X)'
    BY <1>1, <1>3, LineMoved
  <1>5. \A u, v : Before(s, u, v) => u \in Threads \ X /\ v \in Threads \ X
    BY <1>1, LineFacts
  <1>6. \A u : LastOf(s, u) => u \in Threads \ X
    BY <1>1, LineFacts
  <1>7. ASSUME NEW u \in Threads, NEW v \in Threads, Before(s, u, v)
        PROVE  Linked(u, v)'
    <2>1. Linked(u, v)
      BY <1>7 DEF ChainInv
    <2>2. nd'[u].next = nd[u].next
      BY <1>5, <1>7
    <2>3. pc[u] # "graftlink"
      <3>1. CASE u = t
        BY <1>3, <3>1
      <3>2. CASE u # t
        BY <1>3, <3>2 DEF GraftPcs
      <3> QED
        BY <3>1, <3>2
    <2>4. pc'[u] # "graftlink"
      <3>1. CASE u = t
        BY <1>3, <3>1
      <3>2. CASE u # t
        BY <1>3, <3>2 DEF GraftPcs
      <3> QED
        BY <3>1, <3>2
    <2>5. pc'[v] \in {"mark", "link"} => v # t
      BY <1>3
    <2> QED
      BY <1>3, <2>1, <2>2, <2>3, <2>4, <2>5 DEF Linked
  <1>8. GraftInv(s, X)'
    <2>1. q # "graftlink"
      OBVIOUS
    <2> QED
      BY <1>3, <2>1 DEF GraftInv, GraftPcs
  <1>9. /\ \A v \in Threads : Enqueued(v)' => pc'[v] \in {"mark", "link", "sleep", "asleep", "respin"}
        /\ \A v \in Threads : Enqueued(v)' /\ pc'[v] # "mark" => (nd'[v].spin = UNLOCKED <=> FirstOf(s, v))
        /\ \A v \in Threads : FirstOf(s, v) => pc'[v] \notin {"mark", "link"}
        /\ X \subseteq Threads /\ \A v \in X : Enqueued(v)' /\ pc'[v] \notin {"mark", "link"}
    BY <1>3 DEF ChainInv
  <1>10. /\ \A v \in Threads : pc'[v] \notin {"handover", "cull"}
         /\ \A u \in Threads : LastOf(s, u) => lk'.tail = u /\ nd'[u].next = NULL
         /\ Len(s) = 0 => lk'.tail = NULL
    BY <1>3, <1>6 DEF ChainInv
  <1> QED
    BY <1>3, <1>4, <1>7, <1>8, <1>9, <1>10 DEF ChainInv

\* The queue changed behind the holder, to r, and its next set.
LEMMA QueueChanged ==
  ASSUME ApiInv, NEW s, NEW X, ChainInv(s, X), NEW t \in Threads, NEW p \in UnlockPcs, NEW q \in {"handover", "graftlink"},
         Step(t, p, q), algo \notin FifoAlgos, algo' = algo, ChainType',
         \A u \in Threads : nd'[u].spin = nd[u].spin,
         NEW r \in Seq(Threads), Distinct(r), FirstOf(r, t), NEW Y,
         Y \subseteq Threads, \A u \in Y : Enqueued(u) /\ pc[u] \notin {"mark", "link"},
         \A u \in Threads : At1(r, u) <=> (Enqueued(u) \/ Hold(u)) /\ u \notin Y,
         \A u \in Threads : LastOf(r, u) => lk'.tail = u /\ nd'[u].next = NULL,
         \A u, v \in Threads : Before(r, u, v) => Linked(u, v)',
         q = "handover" => nd'[t].next # NULL,
         q = "graftlink" => Before(r, t, loc'[t]) /\ pc'[loc'[t]] \notin {"mark", "link"}
  PROVE  ChainInv(r, Y)' /\ InTurn(t) /\ Allowed(t)
  <1>1. LineInv(s, X)
    BY DEF ChainInv
  <1>2. {"handover", "graftlink"} \subseteq UnlockPcs
    BY DEF UnlockPcs
  <1>3. /\ pc[t] = p /\ pc'[t] = q /\ \A u \in Threads \ {t} : pc'[u] = pc[u]
        /\ \A u \in Threads : (Enqueued(u)' <=> Enqueued(u)) /\ (Hold(u)' <=> Hold(u))
        /\ Hold(t) /\ Allowed(t) /\ InTurn(t)
        /\ p \notin {"mark", "link"} /\ q \notin {"mark", "link"}
        /\ \A u \in Threads : pc'[u] \in {"mark", "link"} <=> pc[u] \in {"mark", "link"}
        /\ \A u \in Threads : Enqueued(u)' => u # t /\ pc'[u] = pc[u]
        /\ \A u \in Threads : u # t => pc'[u] \notin {"handover", "cull"} /\ pc'[u] \notin GraftPcs
    BY <1>2, HolderMoves
  <1>4. \A u : (FirstOf(s, u) <=> u = t) /\ (FirstOf(r, u) <=> u = t)
    <2>1. FirstOf(s, t)
      BY <1>3, HolderSees
    <2> QED
      BY <2>1 DEF FirstOf
  <1>5. LineInv(r, Y)'
    BY <1>1, <1>3, <1>4, LineMoved
  <1>6. GraftInv(r, Y)'
    <2>1. pc'[t] \notin {"graft", "graftwait"}
      BY <1>3
    <2> QED
      BY <1>3, <2>1 DEF GraftInv, GraftPcs
  <1>7. /\ \A v \in Threads : Enqueued(v)' => pc'[v] \in {"mark", "link", "sleep", "asleep", "respin"}
        /\ \A v \in Threads : Enqueued(v)' /\ pc'[v] # "mark" => (nd'[v].spin = UNLOCKED <=> FirstOf(r, v))
        /\ \A v \in Threads : FirstOf(r, v) => pc'[v] \notin {"mark", "link"}
    BY <1>3, <1>4 DEF ChainInv
  <1>8. \A v \in Y : Enqueued(v)' /\ pc'[v] \notin {"mark", "link"}
    BY <1>3
  <1>9. \A v \in Threads : pc'[v] \in {"handover", "cull"} => nd'[v].next # NULL
    <2>1. q # "cull"
      OBVIOUS
    <2> QED
      BY <1>3, <2>1
  <1>10. Len(r) # 0
    BY DEF FirstOf
  <1> QED
    BY <1>3, <1>5, <1>6, <1>7, <1>8, <1>9, <1>10 DEF ChainInv

\* What an unlock does to the passive set, whatever the waiting policy.
PicksAside(t) ==
  \E v \in Threads, rest \in Seq(Threads) :
    /\ Step(t, "unlock", "graft") /\ lk' = [lk EXCEPT !.passive = rest]
    /\ Distinct(rest) /\ At1(lk.passive, v) /\ \A u : At1(rest, u) <=> At1(lk.passive, u) /\ u # v
    /\ nd' \in [Threads -> [next : Threads \cup {NULL}, spin : {LOCKED, UNLOCKED}]]
    /\ nd'[v].next = NULL /\ \A u \in Threads : nd'[u].spin = nd[u].spin
    /\ \A u \in Threads : nd'[u].next = nd[u].next \/ At1(lk.passive, u)
    /\ loc' = [loc EXCEPT ![t] = v]

Culls(t) ==
  /\ Step(t, "cull", "handover") /\ nd[nd[t].next].next # NULL
  /\ lk' = [lk EXCEPT !.passive = ConsOf(nd[t].next, lk.passive)]
  /\ \E n \in Threads \cup {NULL} :
       nd' = [nd EXCEPT ![nd[t].next].next = n, ![t].next = nd[nd[t].next].next]
  /\ loc' = loc

GraftsTail(t) ==
  /\ Step(t, "graft", IF lk.tail = t THEN "graftlink" ELSE "graftwait")
  /\ lk' = [lk EXCEPT !.tail = IF lk.tail = t THEN loc[t] ELSE lk.tail]
  /\ nd' = nd /\ loc' = loc

GraftsLink(t) ==
  /\ Step(t, "graftlink", "handover") /\ nd' = [nd EXCEPT ![t].next = loc[t]]
  /\ loc' = [loc EXCEPT ![t] = NULL] /\ lk' = lk

GraftsBefore(t) ==
  /\ nd[t].next # NULL /\ Step(t, "graftwait", "handover")
  /\ nd' = [nd EXCEPT ![loc[t]].next = nd[t].next, ![t].next = loc[t]]
  /\ loc' = [loc EXCEPT ![t] = NULL] /\ lk' = lk

LEMMA MalthusianPicks ==
  ASSUME ApiInv, MalthusianInv, algo \notin FifoAlgos, algo' = algo, NEW t \in Threads, PicksAside(t)
  PROVE  MalthusianInv' /\ InTurn(t) /\ Allowed(t)
  <1>1. PICK s, X : ChainInv(s, X) /\ \A v \in Threads : v \in X <=> Aside(v)
    BY DEF MalthusianInv
  <1>2. /\ lk \in [tail : Threads \cup {NULL}, passive : Seq(Threads)]
        /\ loc = [u \in Threads |-> loc[u]]
    BY <1>1 DEF MalthusianInv, ChainInv, ChainType
  <1>3. PICK v \in Threads, rest \in Seq(Threads) :
          /\ Step(t, "unlock", "graft") /\ lk' = [lk EXCEPT !.passive = rest]
          /\ Distinct(rest) /\ At1(lk.passive, v) /\ \A u : At1(rest, u) <=> At1(lk.passive, u) /\ u # v
          /\ nd' \in [Threads -> [next : Threads \cup {NULL}, spin : {LOCKED, UNLOCKED}]]
          /\ nd'[v].next = NULL /\ \A u \in Threads : nd'[u].spin = nd[u].spin
          /\ \A u \in Threads : nd'[u].next = nd[u].next \/ At1(lk.passive, u)
          /\ loc' = [loc EXCEPT ![t] = v]
    BY DEF PicksAside
  <1>4. {"unlock", "graft"} \subseteq UnlockPcs
    BY DEF UnlockPcs
  <1>5. /\ pc[t] = "unlock" /\ pc'[t] = "graft" /\ \A u \in Threads \ {t} : pc'[u] = pc[u]
        /\ \A u \in Threads : u # t => pc'[u] \notin GraftPcs
    BY <1>1, <1>3, <1>4, HolderMoves
  <1>6. \A u \in Threads : pc[u] \notin {"graft", "graftwait"}
    BY <1>5 DEF GraftPcs
  <1>7. \A u \in Threads : u \in X <=> At1(lk.passive, u)
    BY <1>1, <1>6 DEF Aside
  <1>8. /\ loc' = [u \in Threads |-> loc'[u]] /\ loc'[t] = v /\ \A u \in Threads \ {t} : loc'[u] = loc[u]
        /\ lk' \in [tail : Threads \cup {NULL}, passive : Seq(Threads)]
        /\ lk'.tail = lk.tail /\ lk'.passive = rest
    BY <1>2, <1>3
  <1>9. ChainInv(s, X)' /\ InTurn(t) /\ Allowed(t)
    <2>1. ChainType' /\ v \in X /\ \A u \in Threads \ X : nd'[u].next = nd[u].next
      BY <1>3, <1>7, <1>8 DEF ChainType
    <2> QED
      BY <1>1, <1>3, <1>4, <1>8, <2>1, GraftStays
  <1>10. \A u \in Threads : Aside(u)' <=> u \in X
    <2>1. \A u \in Threads : Aside(u)' <=> At1(rest, u) \/ u = v
      BY <1>5, <1>8 DEF Aside, GraftPcs
    <2> QED
      BY <1>3, <1>7, <2>1
  <1>11. \A u \in Threads : pc'[u] \in {"graft", "graftwait"} => ~At1(lk'.passive, loc'[u])
    BY <1>3, <1>5, <1>8 DEF GraftPcs
  <1> QED
    BY <1>3, <1>8, <1>9, <1>10, <1>11 DEF MalthusianInv

LEMMA MalthusianTail ==
  ASSUME ApiInv, MalthusianInv, algo \notin FifoAlgos, algo' = algo, NEW t \in Threads, GraftsTail(t)
  PROVE  MalthusianInv' /\ InTurn(t) /\ Allowed(t)
  <1>1. PICK s, X : ChainInv(s, X) /\ \A v \in Threads : v \in X <=> Aside(v)
    BY DEF MalthusianInv
  <1>2. /\ lk \in [tail : Threads \cup {NULL}, passive : Seq(Threads)]
        /\ Distinct(lk.passive) /\ ChainType /\ GraftInv(s, X) /\ X \subseteq Threads
        /\ LineInv(s, X)
    BY <1>1 DEF MalthusianInv, ChainInv
  <1>3. /\ Step(t, "graft", IF lk.tail = t THEN "graftlink" ELSE "graftwait")
        /\ lk' = [lk EXCEPT !.tail = IF lk.tail = t THEN loc[t] ELSE lk.tail]
        /\ nd' = nd /\ loc' = loc
    BY DEF GraftsTail
  <1>4. {"graft", "graftlink", "graftwait"} \subseteq UnlockPcs /\ pc[t] = "graft" /\ "graft" \in HeldPcs
    BY <1>3 DEF UnlockPcs, HeldPcs, Step
  <1>5. PICK v \in Threads : v = loc[t]
    BY <1>2, <1>4 DEF GraftInv
  <1>6. v \in X /\ nd[v].next = NULL /\ ~At1(lk.passive, v)
    BY <1>2, <1>4, <1>5 DEF GraftInv, MalthusianInv
  <1>7. /\ s \in Seq(Threads) /\ Distinct(s) /\ FirstOf(s, t) /\ t \notin X
        /\ \A u \in Threads \ {t} : ~Hold(u) /\ pc[u] \notin GraftPcs
    BY <1>1, <1>4, HolderSees DEF Hold
  <1>8. \A u \in Threads : Aside(u) <=> At1(lk.passive, u) \/ u = v
    BY <1>4, <1>5, <1>7 DEF Aside, GraftPcs
  <1>9. /\ lk' \in [tail : Threads \cup {NULL}, passive : Seq(Threads)] /\ lk'.passive = lk.passive
        /\ lk'.tail = IF lk.tail = t THEN v ELSE lk.tail
    BY <1>2, <1>3, <1>5
  <1>10. ChainType'
    BY <1>2, <1>3 DEF ChainType
  <1>11. CASE lk.tail # t
    <2>1. Step(t, "graft", "graftwait")
      BY <1>3, <1>11
    <2>2. /\ pc'[t] = "graftwait" /\ \A u \in Threads \ {t} : pc'[u] = pc[u]
      BY <1>1, <1>4, <2>1, HolderMoves
    <2>3. loc'[t] \in X /\ nd'[loc'[t]].next = NULL /\ lk'.tail = lk.tail
      BY <1>3, <1>5, <1>6, <1>9, <1>11
    <2>4. ChainInv(s, X)' /\ InTurn(t) /\ Allowed(t)
      BY <1>1, <1>3, <1>4, <1>10, <2>1, <2>3, GraftStays
    <2>5. \A u \in Threads : Aside(u)' <=> u \in X
      <3>1. \A u \in Threads : Aside(u)' <=> At1(lk.passive, u) \/ u = v
        BY <1>3, <1>5, <1>7, <1>9, <2>2 DEF Aside, GraftPcs
      <3> QED
        BY <1>1, <1>8, <3>1
    <2>6. \A u \in Threads : pc'[u] \in {"graft", "graftwait"} => ~At1(lk'.passive, loc'[u])
      BY <1>3, <1>5, <1>6, <1>7, <1>9, <2>2 DEF GraftPcs
    <2> QED
      BY <1>2, <1>9, <2>4, <2>5, <2>6 DEF MalthusianInv
  <1>12. CASE lk.tail = t
    <2> DEFINE r == Append(s, v)  Y == X \ {v}
    <2>1. Step(t, "graft", "graftlink")
      BY <1>3, <1>12
    <2>2. pc'[t] = "graftlink" /\ \A u \in Threads \ {t} : pc'[u] = pc[u]
      BY <1>1, <1>4, <2>1, HolderMoves
    <2>3. \A u \in Threads : At1(s, u) <=> (Enqueued(u) \/ Hold(u)) /\ u \notin X
      BY <1>2 DEF LineInv
    <2>4. ~At1(s, v) /\ v # t
      BY <1>6, <1>7, <2>3
    <2>5. LastOf(s, t)
      <3>1. PICK u \in Threads : LastOf(s, u)
        BY <1>7, LineFacts
      <3>2. u = t
        BY <1>1, <1>12, <3>1 DEF ChainInv
      <3> QED
        BY <3>1, <3>2
    <2>6. Len(s) = 1
      BY <1>7, <2>5, LineFacts
    <2>7. /\ r \in Seq(Threads) /\ Distinct(r)
          /\ \A u : At1(r, u) <=> At1(s, u) \/ u = v
          /\ \A u, w : Before(r, u, w) <=> Before(s, u, w) \/ (LastOf(s, u) /\ w = v)
          /\ \A u : LastOf(r, u) <=> u = v
          /\ \A u : FirstOf(r, u) <=> IF Len(s) = 0 THEN u = v ELSE FirstOf(s, u)
      BY <1>7, <2>4, LineAppend
    <2> HIDE DEF r
    <2>8. \A u, w : Before(r, u, w) <=> u = t /\ w = v
      <3>1. \A u, w : ~Before(s, u, w)
        BY <2>6 DEF Before
      <3>2. \A u : LastOf(s, u) <=> u = t
        BY <2>5 DEF LastOf
      <3> QED
        BY <2>7, <3>1, <3>2
    <2>9. Enqueued(v) /\ pc[v] \notin {"mark", "link"} /\ \A u \in Y : Enqueued(u) /\ pc[u] \notin {"mark", "link"}
      BY <1>1, <1>6 DEF ChainInv
    <2>10. \A u \in Threads : At1(r, u) <=> (Enqueued(u) \/ Hold(u)) /\ u \notin Y
      BY <1>6, <2>3, <2>7, <2>9
    <2>11. \A u \in Threads : LastOf(r, u) => lk'.tail = u /\ nd'[u].next = NULL
      BY <1>3, <1>6, <1>9, <1>12, <2>7
    <2>12. nd[t].next = NULL /\ pc'[v] \notin {"mark", "link"}
      BY <1>1, <2>2, <2>4, <2>5, <2>9 DEF ChainInv
    <2>13. \A u, w \in Threads : Before(r, u, w) => Linked(u, w)'
      BY <1>3, <1>5, <2>2, <2>8, <2>12 DEF Linked
    <2>14. FirstOf(r, t) /\ Before(r, t, loc'[t]) /\ pc'[loc'[t]] \notin {"mark", "link"}
      BY <1>3, <1>5, <1>7, <2>6, <2>7, <2>8, <2>12
    <2>15. Y \subseteq Threads
      BY <1>2
    <2> HIDE DEF Y
    <2>16. ChainInv(r, Y)' /\ InTurn(t) /\ Allowed(t)
      BY <1>1, <1>3, <1>4, <1>10, <2>1, <2>7, <2>9, <2>10, <2>11, <2>13, <2>14, <2>15, QueueChanged
    <2>17. \A u \in Threads : Aside(u)' <=> u \in Y
      <3>1. \A u \in Threads : pc'[u] \notin {"graft", "graftwait"}
        BY <1>7, <2>2 DEF GraftPcs
      <3>2. \A u \in Threads : Aside(u)' <=> At1(lk.passive, u)
        BY <1>9, <3>1 DEF Aside
      <3> QED
        BY <1>1, <1>6, <1>8, <3>2 DEF Y
    <2>18. \A u \in Threads : pc'[u] \in {"graft", "graftwait"} => ~At1(lk'.passive, loc'[u])
      BY <1>7, <2>2 DEF GraftPcs
    <2> QED
      BY <1>2, <1>9, <2>16, <2>17, <2>18 DEF MalthusianInv
  <1> QED
    BY <1>11, <1>12

LEMMA MalthusianLink ==
  ASSUME ApiInv, MalthusianInv, algo \notin FifoAlgos, algo' = algo, NEW t \in Threads, GraftsLink(t)
  PROVE  MalthusianInv' /\ InTurn(t) /\ Allowed(t)
  <1>1. PICK s, X : ChainInv(s, X) /\ \A v \in Threads : v \in X <=> Aside(v)
    BY DEF MalthusianInv
  <1>2. /\ lk \in [tail : Threads \cup {NULL}, passive : Seq(Threads)]
        /\ Distinct(lk.passive) /\ GraftInv(s, X) /\ X \subseteq Threads
        /\ nd \in [Threads -> [next : Threads \cup {NULL}, spin : {LOCKED, UNLOCKED}]]
        /\ loc = [u \in Threads |-> loc[u]]
        /\ LineInv(s, X) /\ NULL \notin Threads
    BY <1>1, LockApiAssumption DEF MalthusianInv, ChainInv, ChainType
  <1>3. /\ Step(t, "graftlink", "handover") /\ nd' = [nd EXCEPT ![t].next = loc[t]]
        /\ loc' = [loc EXCEPT ![t] = NULL] /\ lk' = lk
    BY DEF GraftsLink
  <1>4. {"graftlink", "handover"} \subseteq UnlockPcs /\ pc[t] = "graftlink" /\ "graftlink" \in HeldPcs
    BY <1>3 DEF UnlockPcs, HeldPcs, Step
  <1>5. /\ s \in Seq(Threads) /\ Distinct(s) /\ FirstOf(s, t) /\ t \notin X
        /\ \A u \in Threads \ {t} : ~Hold(u) /\ pc[u] \notin GraftPcs
    BY <1>1, <1>4, HolderSees DEF Hold
  <1>6. Before(s, t, loc[t]) /\ pc[loc[t]] \notin {"mark", "link"}
    BY <1>2, <1>4 DEF GraftInv
  <1>7. loc[t] \in Threads /\ loc[t] # t
    BY <1>5, <1>6, LineFacts
  <1>8. /\ nd' \in [Threads -> [next : Threads \cup {NULL}, spin : {LOCKED, UNLOCKED}]]
        /\ nd'[t].next = loc[t] /\ (\A u \in Threads : nd'[u].spin = nd[u].spin)
        /\ \A u \in Threads \ {t} : nd'[u] = nd[u]
        /\ loc' = [u \in Threads |-> loc'[u]] /\ \A u \in Threads \ {t} : loc'[u] = loc[u]
    BY <1>2, <1>3, <1>7
  <1>9. pc'[t] = "handover" /\ \A u \in Threads \ {t} : pc'[u] = pc[u]
    BY <1>1, <1>3, <1>4, HolderMoves
  <1>10. ChainType'
    BY <1>8 DEF ChainType
  <1>11. \A u \in Threads : LastOf(s, u) => lk'.tail = u /\ nd'[u].next = NULL
    <2>1. ~LastOf(s, t)
      BY <1>5, <1>6, LineFacts
    <2> QED
      BY <1>1, <1>3, <1>8, <2>1 DEF ChainInv
  <1>12. ASSUME NEW u \in Threads, NEW v \in Threads, Before(s, u, v)
         PROVE  Linked(u, v)'
    <2>1. CASE u = t
      <3>1. v = loc[t]
        BY <1>5, <1>6, <1>12, <2>1, LineFacts
      <3>2. pc'[v] \notin {"mark", "link"}
        BY <1>6, <1>7, <1>9, <3>1
      <3> QED
        BY <1>8, <1>9, <2>1, <3>1, <3>2 DEF Linked
    <2>2. CASE u # t
      <3>1. Linked(u, v)
        BY <1>1, <1>12 DEF ChainInv
      <3>2. v # t
        BY <1>5, <1>12, LineFacts
      <3> QED
        BY <1>8, <1>9, <2>2, <3>1, <3>2 DEF Linked
    <2> QED
      BY <2>1, <2>2
  <1>13. /\ \A u \in X : Enqueued(u) /\ pc[u] \notin {"mark", "link"}
         /\ \A u \in Threads : At1(s, u) <=> (Enqueued(u) \/ Hold(u)) /\ u \notin X
    BY <1>1, <1>2 DEF ChainInv, LineInv
  <1>14. nd'[t].next # NULL
    BY <1>2, <1>7, <1>8
  <1>15. ChainInv(s, X)' /\ InTurn(t) /\ Allowed(t)
    BY <1>1, <1>2, <1>3, <1>4, <1>5, <1>8, <1>10, <1>11, <1>12, <1>13, <1>14, QueueChanged
  <1>16. \A u \in Threads : pc'[u] \notin {"graft", "graftwait"} /\ pc[u] \notin {"graft", "graftwait"}
    BY <1>4, <1>5, <1>9 DEF GraftPcs
  <1>17. \A u \in Threads : Aside(u)' <=> u \in X
    BY <1>1, <1>3, <1>16 DEF Aside
  <1> QED
    BY <1>2, <1>3, <1>15, <1>16, <1>17 DEF MalthusianInv

LEMMA MalthusianBefore ==
  ASSUME ApiInv, MalthusianInv, algo \notin FifoAlgos, algo' = algo, NEW t \in Threads, GraftsBefore(t)
  PROVE  MalthusianInv' /\ InTurn(t) /\ Allowed(t)
  <1>1. PICK s, X : ChainInv(s, X) /\ \A v \in Threads : v \in X <=> Aside(v)
    BY DEF MalthusianInv
  <1>2. /\ lk \in [tail : Threads \cup {NULL}, passive : Seq(Threads)]
        /\ Distinct(lk.passive) /\ GraftInv(s, X) /\ X \subseteq Threads
        /\ nd \in [Threads -> [next : Threads \cup {NULL}, spin : {LOCKED, UNLOCKED}]]
        /\ loc = [u \in Threads |-> loc[u]]
        /\ LineInv(s, X) /\ NULL \notin Threads
    BY <1>1, LockApiAssumption DEF MalthusianInv, ChainInv, ChainType
  <1>3. /\ nd[t].next # NULL /\ Step(t, "graftwait", "handover")
        /\ nd' = [nd EXCEPT ![loc[t]].next = nd[t].next, ![t].next = loc[t]]
        /\ loc' = [loc EXCEPT ![t] = NULL] /\ lk' = lk
    BY DEF GraftsBefore
  <1>4. {"graftwait", "handover"} \subseteq UnlockPcs /\ pc[t] = "graftwait" /\ "graftwait" \in HeldPcs
    BY <1>3 DEF UnlockPcs, HeldPcs, Step
  <1>5. PICK v \in Threads : v = loc[t]
    BY <1>2, <1>4 DEF GraftInv
  <1>6. v \in X /\ nd[v].next = NULL /\ ~At1(lk.passive, v)
    BY <1>2, <1>4, <1>5 DEF GraftInv, MalthusianInv
  <1>7. /\ s \in Seq(Threads) /\ Distinct(s) /\ FirstOf(s, t) /\ t \notin X
        /\ \A u \in Threads \ {t} : ~Hold(u) /\ pc[u] \notin GraftPcs
    BY <1>1, <1>4, HolderSees DEF Hold
  <1>8. PICK w \in Threads : w = nd[t].next /\ Before(s, t, w) /\ pc[w] \notin {"mark", "link"}
    BY <1>1, <1>3, <1>4, HolderSees DEF Hold
  <1>9. \A u \in Threads : At1(s, u) <=> (Enqueued(u) \/ Hold(u)) /\ u \notin X
    BY <1>2 DEF LineInv
  <1>10. ~At1(s, v) /\ v # t /\ w # t /\ v # w /\ At1(s, t) /\ At1(s, w)
    BY <1>6, <1>7, <1>8, <1>9, LineFacts
  <1>11. /\ nd' \in [Threads -> [next : Threads \cup {NULL}, spin : {LOCKED, UNLOCKED}]]
         /\ nd'[t].next = v /\ nd'[v].next = w /\ (\A u \in Threads : nd'[u].spin = nd[u].spin)
         /\ \A u \in Threads \ {t, v} : nd'[u] = nd[u]
         /\ loc' = [u \in Threads |-> loc'[u]]
    <2>1. nd' = [nd EXCEPT ![v].next = w, ![t].next = v]
      <3>1. loc[t] = v /\ nd[t].next = w
        BY <1>5, <1>8
      <3> QED
        BY <1>3, <3>1
    <2>2. nd' \in [Threads -> [next : Threads \cup {NULL}, spin : {LOCKED, UNLOCKED}]]
      <3>1. PICK h : h = [nd EXCEPT ![v].next = w]
        OBVIOUS
      <3>2. h \in [Threads -> [next : Threads \cup {NULL}, spin : {LOCKED, UNLOCKED}]]
        BY <1>2, <3>1
      <3>3. nd' = [h EXCEPT ![t].next = v]
        BY <2>1, <3>1
      <3> QED
        BY <3>2, <3>3
    <2>3. nd'[t].next = v /\ nd'[v].next = w
      BY <1>2, <1>10, <2>1
    <2>4. \A u \in Threads : nd'[u].spin = nd[u].spin
      BY <1>2, <2>1
    <2>5. \A u \in Threads \ {t, v} : nd'[u] = nd[u]
      BY <1>2, <2>1
    <2>6. loc' = [u \in Threads |-> loc'[u]]
      BY <1>2, <1>3
    <2> QED
      BY <2>2, <2>3, <2>4, <2>5, <2>6
  <1>12. pc'[t] = "handover" /\ \A u \in Threads \ {t} : pc'[u] = pc[u]
    BY <1>1, <1>3, <1>4, HolderMoves
  <1>13. ChainType'
    BY <1>11 DEF ChainType
  <1> DEFINE q == Tail(s)  p == ConsOf(v, q)  r == ConsOf(t, p)  Y == X \ {v}
  <1>14. /\ q \in Seq(Threads) /\ Distinct(q)
         /\ \A u : At1(q, u) <=> At1(s, u) /\ u # t
         /\ \A u, z : Before(q, u, z) <=> Before(s, u, z) /\ u # t
         /\ \A u : LastOf(q, u) <=> LastOf(s, u) /\ u # t
         /\ \A u : FirstOf(q, u) <=> Before(s, t, u)
    BY <1>7, LineTail
  <1> HIDE DEF q
  <1>15. ~At1(q, v) /\ Len(q) # 0
    BY <1>8, <1>10, <1>14 DEF FirstOf
  <1>16. /\ p \in Seq(Threads) /\ Distinct(p) /\ Len(p) # 0
         /\ \A u : At1(p, u) <=> At1(q, u) \/ u = v
         /\ \A u, z : Before(p, u, z) <=> Before(q, u, z) \/ (u = v /\ FirstOf(q, z))
         /\ \A u : LastOf(p, u) <=> IF Len(q) = 0 THEN u = v ELSE LastOf(q, u)
         /\ \A u : FirstOf(p, u) <=> u = v
    BY <1>14, <1>15, LineCons
  <1> HIDE DEF p
  <1>17. ~At1(p, t)
    BY <1>10, <1>14, <1>16
  <1>18. /\ r \in Seq(Threads) /\ Distinct(r) /\ Len(r) # 0
         /\ \A u : At1(r, u) <=> At1(p, u) \/ u = t
         /\ \A u, z : Before(r, u, z) <=> Before(p, u, z) \/ (u = t /\ FirstOf(p, z))
         /\ \A u : LastOf(r, u) <=> IF Len(p) = 0 THEN u = t ELSE LastOf(p, u)
         /\ \A u : FirstOf(r, u) <=> u = t
    BY <1>16, <1>17, LineCons
  <1> HIDE DEF r
  <1>19. \A u, z : Before(r, u, z) <=> \/ u = t /\ z = v
                                       \/ u = v /\ Before(s, t, z)
                                       \/ Before(s, u, z) /\ u # t
    BY <1>14, <1>16, <1>18
  <1>20. \A u : LastOf(r, u) => LastOf(s, u) /\ u # t /\ u # v
    BY <1>7, <1>10, <1>14, <1>15, <1>16, <1>18, LineFacts
  <1>21. /\ Enqueued(v) /\ pc[v] \notin {"mark", "link"}
         /\ pc[v] \in {"mark", "link", "sleep", "asleep", "respin"}
         /\ \A u \in Y : Enqueued(u) /\ pc[u] \notin {"mark", "link"}
    BY <1>1, <1>6 DEF ChainInv
  <1>22. \A u \in Threads : At1(r, u) <=> (Enqueued(u) \/ Hold(u)) /\ u \notin Y
    BY <1>6, <1>7, <1>9, <1>10, <1>14, <1>16, <1>18, <1>21
  <1>23. ASSUME NEW u \in Threads, NEW z \in Threads, Before(r, u, z)
         PROVE  Linked(u, z)'
    <2>1. CASE u = t /\ z = v
      BY <1>10, <1>11, <1>12, <1>21, <2>1 DEF Linked
    <2>2. CASE u = v /\ Before(s, t, z)
      <3>1. z = w
        BY <1>7, <1>8, <2>2, LineFacts
      <3>2. pc'[v] # "graftlink" /\ pc'[w] \notin {"mark", "link"}
        BY <1>8, <1>10, <1>12, <1>21
      <3> QED
        BY <1>11, <2>2, <3>1, <3>2 DEF Linked
    <2>3. CASE Before(s, u, z) /\ u # t
      <3>1. Linked(u, z)
        BY <1>1, <2>3 DEF ChainInv
      <3>2. z # t /\ u # v
        BY <1>7, <1>10, <2>3, LineFacts
      <3>3. loc'[z] = loc[z] /\ loc'[u] = loc[u]
        BY <1>2, <1>3, <2>3, <3>2
      <3> QED
        BY <1>11, <1>12, <2>3, <3>1, <3>2, <3>3 DEF Linked
    <2> QED
      BY <1>19, <1>23, <2>1, <2>2, <2>3
  <1>24. \A u \in Threads : LastOf(r, u) => lk'.tail = u /\ nd'[u].next = NULL
    BY <1>1, <1>3, <1>11, <1>20 DEF ChainInv
  <1>25. Y \subseteq Threads /\ nd'[t].next # NULL
    BY <1>2, <1>11
  <1>26. \A u \in Threads : Aside(u)' <=> u \in Y
    <2>1. \A u \in Threads : Aside(u) <=> At1(lk.passive, u) \/ u = v
      BY <1>4, <1>5, <1>7 DEF Aside, GraftPcs
    <2>2. \A u \in Threads : pc'[u] \notin {"graft", "graftwait"}
      BY <1>7, <1>12 DEF GraftPcs
    <2>3. \A u \in Threads : Aside(u)' <=> At1(lk.passive, u)
      BY <1>3, <2>2 DEF Aside
    <2> QED
      BY <1>1, <1>6, <2>1, <2>3
  <1> HIDE DEF Y
  <1>27. ChainInv(r, Y)' /\ InTurn(t) /\ Allowed(t)
    BY <1>1, <1>3, <1>4, <1>11, <1>13, <1>18, <1>21, <1>22, <1>23, <1>24, <1>25, QueueChanged
  <1>28. \A u \in Threads : pc'[u] \in {"graft", "graftwait"} => ~At1(lk'.passive, loc'[u])
    BY <1>7, <1>12 DEF GraftPcs
  <1> QED
    BY <1>2, <1>3, <1>26, <1>27, <1>28 DEF MalthusianInv

LEMMA MalthusianCulls ==
  ASSUME ApiInv, MalthusianInv, algo \notin FifoAlgos, algo' = algo, NEW t \in Threads, Culls(t)
  PROVE  MalthusianInv' /\ InTurn(t) /\ Allowed(t)
  <1>1. PICK s, X : ChainInv(s, X) /\ \A v \in Threads : v \in X <=> Aside(v)
    BY DEF MalthusianInv
  <1>2. /\ lk \in [tail : Threads \cup {NULL}, passive : Seq(Threads)]
        /\ Distinct(lk.passive) /\ X \subseteq Threads
        /\ nd \in [Threads -> [next : Threads \cup {NULL}, spin : {LOCKED, UNLOCKED}]]
        /\ loc = [u \in Threads |-> loc[u]]
        /\ LineInv(s, X) /\ NULL \notin Threads
    BY <1>1, LockApiAssumption DEF MalthusianInv, ChainInv, ChainType
  <1>3. /\ Step(t, "cull", "handover") /\ nd[nd[t].next].next # NULL
        /\ lk' = [lk EXCEPT !.passive = ConsOf(nd[t].next, lk.passive)]
        /\ loc' = loc
    BY DEF Culls
  <1>4. PICK n \in Threads \cup {NULL} :
          nd' = [nd EXCEPT ![nd[t].next].next = n, ![t].next = nd[nd[t].next].next]
    BY DEF Culls
  <1>5. {"cull", "handover"} \subseteq UnlockPcs /\ pc[t] = "cull" /\ "cull" \in HeldPcs
    BY <1>3 DEF UnlockPcs, HeldPcs, Step
  <1>6. /\ s \in Seq(Threads) /\ Distinct(s) /\ FirstOf(s, t) /\ t \notin X
        /\ \A u \in Threads \ {t} : ~Hold(u) /\ pc[u] \notin GraftPcs
    BY <1>1, <1>5, HolderSees DEF Hold
  <1>7. nd[t].next # NULL
    BY <1>1, <1>5 DEF ChainInv
  <1>8. PICK w \in Threads : w = nd[t].next /\ Before(s, t, w) /\ Enqueued(w) /\ pc[w] \notin {"mark", "link"}
    BY <1>1, <1>5, <1>7, HolderSees DEF Hold
  <1>9. \A u \in Threads : At1(s, u) <=> (Enqueued(u) \/ Hold(u)) /\ u \notin X
    BY <1>2 DEF LineInv
  <1>10. w # t /\ At1(s, w) /\ w \notin X /\ ~LastOf(s, t) /\ ~FirstOf(s, w)
    BY <1>6, <1>8, <1>9, LineFacts
  <1>11. PICK x \in Threads : x = nd[w].next /\ Before(s, w, x) /\ pc[x] \notin {"mark", "link"}
    <2>1. nd[w].next # NULL
      BY <1>3, <1>8
    <2>2. ~LastOf(s, w)
      BY <1>1, <2>1 DEF ChainInv
    <2>3. PICK y \in Threads : Before(s, w, y)
      BY <1>6, <1>10, <2>2, LineFacts
    <2>4. Linked(w, y) /\ pc[w] # "graftlink"
      BY <1>1, <1>8, <2>3 DEF ChainInv
    <2> QED
      BY <2>1, <2>3, <2>4 DEF Linked
  <1>12. /\ nd' \in [Threads -> [next : Threads \cup {NULL}, spin : {LOCKED, UNLOCKED}]]
         /\ nd'[t].next = x /\ (\A u \in Threads : nd'[u].spin = nd[u].spin)
         /\ \A u \in Threads \ {t, w} : nd'[u] = nd[u]
    BY <1>2, <1>4, <1>8, <1>10, <1>11
  <1>13. pc'[t] = "handover" /\ \A u \in Threads \ {t} : pc'[u] = pc[u]
    BY <1>1, <1>3, <1>5, HolderMoves
  <1>14. ChainType'
    BY <1>2, <1>3, <1>12 DEF ChainType
  <1> DEFINE q == Tail(s)  p == Tail(q)  r == ConsOf(t, p)  Y == X \cup {w}
  <1>15. /\ q \in Seq(Threads) /\ Distinct(q)
         /\ \A u : At1(q, u) <=> At1(s, u) /\ u # t
         /\ \A u, z : Before(q, u, z) <=> Before(s, u, z) /\ u # t
         /\ \A u : LastOf(q, u) <=> LastOf(s, u) /\ u # t
         /\ \A u : FirstOf(q, u) <=> Before(s, t, u)
    BY <1>6, LineTail
  <1> HIDE DEF q
  <1>16. FirstOf(q, w)
    BY <1>8, <1>15
  <1>17. /\ p \in Seq(Threads) /\ Distinct(p)
         /\ \A u : At1(p, u) <=> At1(q, u) /\ u # w
         /\ \A u, z : Before(p, u, z) <=> Before(q, u, z) /\ u # w
         /\ \A u : LastOf(p, u) <=> LastOf(q, u) /\ u # w
         /\ \A u : FirstOf(p, u) <=> Before(q, w, u)
    BY <1>15, <1>16, LineTail
  <1> HIDE DEF p
  <1>18. ~At1(p, t) /\ FirstOf(p, x) /\ Len(p) # 0
    BY <1>10, <1>11, <1>15, <1>17 DEF FirstOf
  <1>19. /\ r \in Seq(Threads) /\ Distinct(r) /\ Len(r) # 0
         /\ \A u : At1(r, u) <=> At1(p, u) \/ u = t
         /\ \A u, z : Before(r, u, z) <=> Before(p, u, z) \/ (u = t /\ FirstOf(p, z))
         /\ \A u : LastOf(r, u) <=> IF Len(p) = 0 THEN u = t ELSE LastOf(p, u)
         /\ \A u : FirstOf(r, u) <=> u = t
    BY <1>17, <1>18, LineCons
  <1> HIDE DEF r
  <1>20. \A u, z : Before(r, u, z) <=> \/ u = t /\ Before(s, w, z)
                                       \/ Before(s, u, z) /\ u # t /\ u # w
    BY <1>10, <1>15, <1>17, <1>19
  <1>21. \A u : LastOf(r, u) => LastOf(s, u) /\ u # t /\ u # w
    BY <1>15, <1>17, <1>18, <1>19
  <1>22. /\ \A u \in Y : Enqueued(u) /\ pc[u] \notin {"mark", "link"}
         /\ Y \subseteq Threads
    BY <1>1, <1>2, <1>8 DEF ChainInv
  <1>23. \A u \in Threads : At1(r, u) <=> (Enqueued(u) \/ Hold(u)) /\ u \notin Y
    <2>1. At1(s, t)
      BY <1>6, LineFacts
    <2> QED
      BY <1>6, <1>9, <1>10, <1>15, <1>17, <1>19, <2>1
  <1>24. ASSUME NEW u \in Threads, NEW z \in Threads, Before(r, u, z)
         PROVE  Linked(u, z)'
    <2>1. CASE u = t /\ Before(s, w, z)
      <3>1. z = x
        BY <1>6, <1>11, <2>1, LineFacts
      <3>2. x # t
        BY <1>6, <1>11, LineFacts
      <3> QED
        BY <1>11, <1>12, <1>13, <2>1, <3>1, <3>2 DEF Linked
    <2>2. CASE Before(s, u, z) /\ u # t /\ u # w
      <3>1. Linked(u, z)
        BY <1>1, <2>2 DEF ChainInv
      <3>2. z # t
        BY <1>6, <2>2, LineFacts
      <3> QED
        BY <1>3, <1>12, <1>13, <2>2, <3>1, <3>2 DEF Linked
    <2> QED
      BY <1>20, <1>24, <2>1, <2>2
  <1>25. lk'.tail = lk.tail
    BY <1>2, <1>3
  <1>26. \A u \in Threads : LastOf(r, u) => lk'.tail = u /\ nd'[u].next = NULL
    BY <1>1, <1>12, <1>21, <1>25 DEF ChainInv
  <1>27. nd'[t].next # NULL
    BY <1>2, <1>12
  <1>28. \A u \in Threads : pc'[u] \notin {"graft", "graftwait"} /\ pc[u] \notin {"graft", "graftwait"}
    BY <1>5, <1>6, <1>13 DEF GraftPcs
  <1>29. ~At1(lk.passive, w)
    BY <1>1, <1>10 DEF Aside
  <1>30. /\ ConsOf(w, lk.passive) \in Seq(Threads) /\ Distinct(ConsOf(w, lk.passive))
         /\ \A u : At1(ConsOf(w, lk.passive), u) <=> At1(lk.passive, u) \/ u = w
    <2>1. lk.passive \in Seq(Threads)
      BY <1>2
    <2> QED
      BY <1>2, <1>29, <2>1, LineCons
  <1>31. /\ lk' \in [tail : Threads \cup {NULL}, passive : Seq(Threads)]
         /\ lk'.passive = ConsOf(w, lk.passive)
    BY <1>2, <1>3, <1>8, <1>30
  <1>32. \A u \in Threads : Aside(u)' <=> u \in Y
    <2>1. \A u \in Threads : Aside(u)' <=> At1(lk.passive, u) \/ u = w
      BY <1>28, <1>30, <1>31 DEF Aside
    <2>2. \A u \in Threads : Aside(u) <=> At1(lk.passive, u)
      BY <1>28 DEF Aside
    <2> QED
      BY <1>1, <2>1, <2>2
  <1> HIDE DEF Y
  <1>33. ChainInv(r, Y)' /\ InTurn(t) /\ Allowed(t)
    BY <1>1, <1>3, <1>5, <1>12, <1>14, <1>19, <1>22, <1>23, <1>24, <1>26, <1>27, QueueChanged
  <1> QED
    BY <1>28, <1>30, <1>31, <1>32, <1>33 DEF MalthusianInv

LEMMA MalthusianSpinCalls ==
  ASSUME NEW t \in Threads
  PROVE  /\ MalthusianSpin!CallLock(t) => CallLock(t)
         /\ MalthusianSpin!PosixLock(t) => PosixLock(t)
         /\ MalthusianSpin!PosixTryLock(t) => PosixTryLock(t)
         /\ MalthusianSpin!PosixUnlock(t) => PosixUnlock(t)
         /\ MalthusianSpin!CondTimedwait(t) => CondTimedwait(t)
         /\ MalthusianSpin!CondSignal(t) => CondSignal(t)
         /\ MalthusianSpin!CondBroadcast(t) => CondBroadcast(t)
         /\ \A p, q : MalthusianSpin!Step(t, p, q) => Step(t, p, q)
         /\ \A p, q : MalthusianSpin!Read(t, p, q) => Step(t, p, q) /\ lk' = lk /\ nd' = nd /\ loc' = loc
         /\ MalthusianSpin!After(t) = After(t)
  <1>1. MalthusianSpin!CallLock(t) => CallLock(t)
    BY DEF MalthusianSpin!CallLock, CallLock, MalthusianSpin!Read, Read, MalthusianSpin!Step, Step, MalthusianSpin!mem, mem
  <1>2. MalthusianSpin!PosixLock(t) => PosixLock(t)
    BY DEF MalthusianSpin!PosixLock, PosixLock, MalthusianSpin!mem, mem
  <1>3. MalthusianSpin!PosixTryLock(t) => PosixTryLock(t)
    BY DEF MalthusianSpin!PosixTryLock, PosixTryLock, MalthusianSpin!mem, mem
  <1>4. MalthusianSpin!PosixUnlock(t) => PosixUnlock(t)
    BY DEF MalthusianSpin!PosixUnlock, PosixUnlock, MalthusianSpin!mem, mem
  <1>5. \A u : MalthusianSpin!RealWake(u) <=> RealWake(u)
    BY DEF MalthusianSpin!RealWake, RealWake, MalthusianSpin!Read, Read, MalthusianSpin!Step, Step, MalthusianSpin!mem, mem
  <1>6. MalthusianSpin!CondTimedwait(t) => CondTimedwait(t)
    BY <1>5, Zenon DEF MalthusianSpin!CondTimedwait, CondTimedwait, MalthusianSpin!CallWait, CallWait, MalthusianSpin!RealWait, RealWait,
                MalthusianSpin!RealReturn, RealReturn, MalthusianSpin!WaitPosixUnlock, WaitPosixUnlock, MalthusianSpin!mem, mem
  <1>7. MalthusianSpin!CondSignal(t) => CondSignal(t)
    BY <1>5 DEF MalthusianSpin!CondSignal, CondSignal
  <1>8. MalthusianSpin!CondBroadcast(t) => CondBroadcast(t)
    BY DEF MalthusianSpin!CondBroadcast, CondBroadcast, MalthusianSpin!mem, mem
  <1>9. \A p, q : MalthusianSpin!Step(t, p, q) => Step(t, p, q)
    BY DEF MalthusianSpin!Step, Step
  <1>10. \A p, q : MalthusianSpin!Read(t, p, q) => Step(t, p, q) /\ lk' = lk /\ nd' = nd /\ loc' = loc
    BY DEF MalthusianSpin!Read, MalthusianSpin!Step, Step, MalthusianSpin!mem
  <1>11. MalthusianSpin!After(t) = After(t)
    BY DEF MalthusianSpin!After, After
  <1> QED
    BY <1>1, <1>2, <1>3, <1>4, <1>6, <1>7, <1>8, <1>9, <1>10, <1>11

LEMMA MalthusianSpinMoves ==
  ASSUME NEW t \in Threads, ChainType, lk \in [tail : Threads \cup {NULL}, passive : Seq(Threads)]
  PROVE  /\ MalthusianSpin!Enqueue(t) => Arrives(t) /\ TailOnly
         /\ MalthusianSpin!TryEnqueue(t) => TriesTail(t) /\ TailOnly
         /\ MalthusianSpin!Link(t) => Links(t) /\ TailOnly
         /\ MalthusianSpin!waiting_policy_sleep(t, t, "posix") => (Sleeps(t) \/ Enters(t)) /\ TailOnly
         /\ MalthusianSpin!CheckNext(t) => Turns(t) /\ TailOnly
         /\ MalthusianSpin!CasTail(t) => (Turns(t) \/ Empties(t)) /\ TailOnly
         /\ MalthusianSpin!AwaitNext(t) => Turns(t) /\ TailOnly
         /\ MalthusianSpin!waiting_policy_wake(t, nd[t].next, MalthusianSpin!Own, "handover", "futexwake", MalthusianSpin!After(t))
              => (Wakes(t) \/ FutexWakes(t)) /\ TailOnly
         /\ MalthusianSpin!WakeStore(t, nd[t].next, "handover", "futexwake", MalthusianSpin!After(t)) => Wakes(t) /\ TailOnly
         /\ MalthusianSpin!Spinning(t, t, "posix") => Enters(t) /\ TailOnly
  <1>1. /\ \A p, q : MalthusianSpin!Step(t, p, q) => Step(t, p, q)
        /\ \A p, q : MalthusianSpin!Read(t, p, q) => Step(t, p, q) /\ lk' = lk /\ nd' = nd /\ loc' = loc
        /\ MalthusianSpin!After(t) = After(t)
    BY MalthusianSpinCalls
  <1>2. MalthusianSpin!LOCKED = LOCKED /\ MalthusianSpin!UNLOCKED = UNLOCKED
    BY DEF MalthusianSpin!LOCKED, LOCKED, MalthusianSpin!UNLOCKED, UNLOCKED
  <1>3. {"unlock", "castail", "awaitnext", "handover"} \subseteq UnlockPcs \ GraftPcs
    BY ChainPcs
  <1>4. lk' = lk => TailOnly
    BY DEF TailOnly
  <1>5. MalthusianSpin!Enqueue(t) => Arrives(t) /\ TailOnly
    BY <1>1, <1>2 DEF MalthusianSpin!Enqueue, Arrives, TailOnly
  <1>6. MalthusianSpin!TryEnqueue(t) => TriesTail(t) /\ TailOnly
    BY <1>1, <1>2 DEF MalthusianSpin!TryEnqueue, TriesTail, TailOnly
  <1>7. MalthusianSpin!Link(t) => Links(t) /\ TailOnly
    BY <1>1, <1>4 DEF MalthusianSpin!Link, Links
  <1>8. MalthusianSpin!Spinning(t, t, "posix") => Enters(t) /\ TailOnly
    BY <1>1, <1>2, <1>4 DEF MalthusianSpin!Spinning, Enters
  <1>9. MalthusianSpin!FutexWait(t, t) \/ MalthusianSpin!Interrupt(t) => Sleeps(t) /\ TailOnly
    BY <1>1, <1>4 DEF MalthusianSpin!FutexWait, MalthusianSpin!Interrupt, Sleeps
  <1>10. MalthusianSpin!Respin(t, t, "posix") => Enters(t) /\ TailOnly
    BY <1>1, <1>2, <1>4 DEF MalthusianSpin!Respin, Enters
  <1>11. MalthusianSpin!waiting_policy_sleep(t, t, "posix") => (Sleeps(t) \/ Enters(t)) /\ TailOnly
    BY <1>8, <1>9, <1>10 DEF MalthusianSpin!waiting_policy_sleep
  <1>12. MalthusianSpin!CheckNext(t) => Turns(t) /\ TailOnly
    <2> SUFFICES ASSUME MalthusianSpin!CheckNext(t)
                 PROVE  Turns(t) /\ TailOnly
      OBVIOUS
    <2>1. Step(t, "unlock", IF nd[t].next = NULL THEN "castail" ELSE "handover")
          /\ lk' = lk /\ nd' = nd /\ loc' = loc
      BY <1>1 DEF MalthusianSpin!CheckNext
    <2> QED
      BY <1>3, <1>4, <2>1 DEF Turns
  <1>13. MalthusianSpin!CasTail(t) => (Turns(t) \/ Empties(t)) /\ TailOnly
    <2> SUFFICES ASSUME MalthusianSpin!CasTail(t)
                 PROVE  (Turns(t) \/ Empties(t)) /\ TailOnly
      OBVIOUS
    <2>1. /\ Step(t, "castail", IF lk.tail = t THEN After(t) ELSE "awaitnext")
          /\ lk' = [lk EXCEPT !.tail = IF @ = t THEN NULL ELSE @]
          /\ nd' = nd /\ loc' = loc
      BY <1>1 DEF MalthusianSpin!CasTail
    <2>2. CASE lk.tail = t
      BY <2>1, <2>2 DEF Empties, TailOnly
    <2>3. CASE lk.tail # t
      <3>1. lk' = lk /\ Step(t, "castail", "awaitnext")
        BY <2>1, <2>3
      <3> QED
        BY <1>3, <1>4, <2>1, <3>1 DEF Turns
    <2> QED
      BY <2>2, <2>3
  <1>14. MalthusianSpin!AwaitNext(t) => Turns(t) /\ TailOnly
    BY <1>1, <1>3, <1>4 DEF MalthusianSpin!AwaitNext, Turns
  <1>15. MalthusianSpin!WakeStore(t, nd[t].next, "handover", "futexwake", MalthusianSpin!After(t)) => Wakes(t) /\ TailOnly
    BY <1>1, <1>2, <1>4 DEF MalthusianSpin!WakeStore, Wakes
  <1>16. MalthusianSpin!FutexWake(t, MalthusianSpin!Own, "futexwake", MalthusianSpin!After(t)) => FutexWakes(t) /\ TailOnly
    BY <1>1, <1>4 DEF MalthusianSpin!FutexWake, FutexWakes
  <1>17. MalthusianSpin!waiting_policy_wake(t, nd[t].next, MalthusianSpin!Own, "handover", "futexwake", MalthusianSpin!After(t))
           => (Wakes(t) \/ FutexWakes(t)) /\ TailOnly
    BY <1>15, <1>16 DEF MalthusianSpin!waiting_policy_wake
  <1> QED
    BY <1>5, <1>6, <1>7, <1>8, <1>11, <1>12, <1>13, <1>14, <1>15, <1>17

LEMMA MalthusianSpinUnlocks ==
  ASSUME NEW t \in Threads, ChainType, lk \in [tail : Threads \cup {NULL}, passive : Seq(Threads)],
         Distinct(lk.passive)
  PROVE  /\ MalthusianSpin!PickBack(t) => PicksAside(t)
         /\ MalthusianSpin!PickFront(t) => PicksAside(t)
         /\ MalthusianSpin!NobodyWaits(t) => Turns(t) /\ TailOnly
         /\ MalthusianSpin!HasNext(t) => Turns(t) /\ TailOnly
         /\ MalthusianSpin!Cull(t) => Culls(t)
         /\ MalthusianSpin!GraftTail(t) => GraftsTail(t)
         /\ MalthusianSpin!GraftLink(t) => GraftsLink(t)
         /\ MalthusianSpin!GraftBefore(t) => GraftsBefore(t)
  <1>1. /\ \A p, q : MalthusianSpin!Step(t, p, q) => Step(t, p, q)
        /\ \A p, q : MalthusianSpin!Read(t, p, q) => Step(t, p, q) /\ lk' = lk /\ nd' = nd /\ loc' = loc
    BY MalthusianSpinCalls
  <1>2. {"unlock", "castail", "handover", "cull"} \subseteq UnlockPcs \ GraftPcs
    BY DEF UnlockPcs, GraftPcs
  <1>3. lk' = lk => TailOnly
    BY DEF TailOnly
  <1> DEFINE s == lk.passive
  <1>4. /\ s \in Seq(Threads)
        /\ nd \in [Threads -> [next : Threads \cup {NULL}, spin : {LOCKED, UNLOCKED}]]
    BY DEF ChainType
  <1>5. ASSUME MalthusianSpin!PickBack(t)
        PROVE  PicksAside(t)
    <2> DEFINE rest == SubSeq(s, 1, Len(s) - 1)
               ends == {MalthusianSpin!Last(s)} \cup (IF rest = <<>> THEN {} ELSE {MalthusianSpin!Last(rest)})
    <2>1. /\ Step(t, "unlock", "graft") /\ s # <<>> /\ lk' = [lk EXCEPT !.passive = rest]
          /\ nd' = [v \in Threads |-> IF v \in ends THEN [nd[v] EXCEPT !.next = NULL] ELSE nd[v]]
          /\ loc' = [loc EXCEPT ![t] = MalthusianSpin!Last(s)]
      BY <1>1, <1>5 DEF MalthusianSpin!PickBack, MalthusianSpin!passive_set_pop_back
    <2>2. MalthusianSpin!Last(s) = s[Len(s)] /\ MalthusianSpin!Last(rest) = rest[Len(rest)]
      BY DEF MalthusianSpin!Last
    <2>3. /\ s[Len(s)] \in Threads /\ At1(s, s[Len(s)])
          /\ rest \in Seq(Threads) /\ Distinct(rest)
          /\ \A u : At1(rest, u) <=> At1(s, u) /\ u # s[Len(s)]
      BY <1>4, <2>1, LinePop
    <2>4. rest # <<>> => At1(rest, rest[Len(rest)])
      BY <2>3, LinePop
    <2>5. \A v \in ends : At1(s, v)
      BY <2>2, <2>3, <2>4
    <2> HIDE DEF rest
    <2>6. MalthusianSpin!Last(s) \in ends
      OBVIOUS
    <2> HIDE DEF ends
    <2>7. ASSUME NEW v \in Threads
          PROVE  /\ nd'[v] \in [next : Threads \cup {NULL}, spin : {LOCKED, UNLOCKED}]
                 /\ nd'[v].spin = nd[v].spin
                 /\ nd'[v].next = IF v \in ends THEN NULL ELSE nd[v].next
      <3>1. nd[v] \in [next : Threads \cup {NULL}, spin : {LOCKED, UNLOCKED}]
        BY <1>4
      <3>2. nd'[v] = IF v \in ends THEN [nd[v] EXCEPT !.next = NULL] ELSE nd[v]
        BY <2>1
      <3> QED
        BY <3>1, <3>2
    <2>8. nd' \in [Threads -> [next : Threads \cup {NULL}, spin : {LOCKED, UNLOCKED}]]
      BY <2>1, <2>7
    <2>9. PICK v \in Threads : v = s[Len(s)]
      BY <2>3
    <2>10. /\ At1(lk.passive, v) /\ Distinct(rest)
           /\ \A u : At1(rest, u) <=> At1(lk.passive, u) /\ u # v
      BY <2>3, <2>9
    <2>11. /\ nd'[v].next = NULL /\ (\A u \in Threads : nd'[u].spin = nd[u].spin)
           /\ \A u \in Threads : nd'[u].next = nd[u].next \/ At1(lk.passive, u)
      BY <2>2, <2>5, <2>6, <2>7, <2>9
    <2>12. loc' = [loc EXCEPT ![t] = v]
      BY <2>1, <2>2, <2>9
    <2> QED
      BY <2>1, <2>3, <2>8, <2>10, <2>11, <2>12 DEF PicksAside
  <1>6. ASSUME MalthusianSpin!PickFront(t)
        PROVE  PicksAside(t)
    <2>1. /\ Step(t, "unlock", "graft") /\ s # <<>> /\ lk' = [lk EXCEPT !.passive = Tail(s)]
          /\ nd' = [nd EXCEPT ![Head(s)].next = NULL]
          /\ loc' = [loc EXCEPT ![t] = Head(s)]
      BY <1>1, <1>6 DEF MalthusianSpin!PickFront, MalthusianSpin!passive_set_pop_front
    <2>2. PICK v \in Threads : v = Head(s)
      BY <1>4, <2>1
    <2>3. FirstOf(s, v)
      BY <1>4, <2>1, <2>2 DEF FirstOf
    <2>4. Tail(s) \in Seq(Threads) /\ Distinct(Tail(s)) /\ \A u : At1(Tail(s), u) <=> At1(s, u) /\ u # v
      BY <1>4, <2>3, LineTail
    <2>5. At1(s, v)
      BY <1>4, <2>3, LineFacts
    <2>6. nd' = [nd EXCEPT ![v].next = NULL] /\ loc' = [loc EXCEPT ![t] = v]
      BY <2>1, <2>2
    <2>7. /\ nd' \in [Threads -> [next : Threads \cup {NULL}, spin : {LOCKED, UNLOCKED}]]
          /\ nd'[v].next = NULL /\ (\A u \in Threads : nd'[u].spin = nd[u].spin)
          /\ \A u \in Threads : nd'[u].next = nd[u].next \/ u = v
      BY <1>4, <2>6
    <2>8. \A u \in Threads : nd'[u].next = nd[u].next \/ At1(lk.passive, u)
      BY <2>5, <2>7
    <2> QED
      BY <2>1, <2>4, <2>5, <2>6, <2>7, <2>8 DEF PicksAside
  <1>7. MalthusianSpin!NobodyWaits(t) => Turns(t) /\ TailOnly
    BY <1>1, <1>2, <1>3 DEF MalthusianSpin!NobodyWaits, Turns
  <1>8. ASSUME MalthusianSpin!HasNext(t)
        PROVE  Turns(t) /\ TailOnly
    <2>1. PICK q \in {"cull", "handover"} : /\ Step(t, "unlock", q) /\ nd[t].next # NULL
                                            /\ lk' = lk /\ nd' = nd /\ loc' = loc
      BY <1>1, <1>8 DEF MalthusianSpin!HasNext
    <2> QED
      BY <1>2, <1>3, <2>1 DEF Turns
  <1>9. ASSUME MalthusianSpin!Cull(t)
        PROVE  Culls(t)
    <2>1. /\ Step(t, "cull", "handover") /\ nd[nd[t].next].next # NULL /\ loc' = loc
          /\ lk' = [lk EXCEPT !.passive = ConsOf(nd[t].next, lk.passive)]
          /\ nd' = [nd EXCEPT ![nd[t].next].next = IF s = <<>> THEN NULL ELSE Head(s),
                              ![t].next = nd[nd[t].next].next]
      BY <1>1, <1>9 DEF MalthusianSpin!Cull, MalthusianSpin!passive_set_push_front, ConsOf
    <2>2. PICK n \in Threads \cup {NULL} : n = IF s = <<>> THEN NULL ELSE Head(s)
      BY <1>4
    <2> QED
      BY <2>1, <2>2 DEF Culls
  <1>10. MalthusianSpin!GraftTail(t) => GraftsTail(t)
    BY <1>1 DEF MalthusianSpin!GraftTail, GraftsTail
  <1>11. MalthusianSpin!GraftLink(t) => GraftsLink(t)
    BY <1>1 DEF MalthusianSpin!GraftLink, GraftsLink
  <1>12. MalthusianSpin!GraftBefore(t) => GraftsBefore(t)
    BY <1>1 DEF MalthusianSpin!GraftBefore, GraftsBefore
  <1> QED
    BY <1>5, <1>6, <1>7, <1>8, <1>9, <1>10, <1>11, <1>12

LEMMA MalthusianParkCalls ==
  ASSUME NEW t \in Threads
  PROVE  /\ MalthusianPark!CallLock(t) => CallLock(t)
         /\ MalthusianPark!PosixLock(t) => PosixLock(t)
         /\ MalthusianPark!PosixTryLock(t) => PosixTryLock(t)
         /\ MalthusianPark!PosixUnlock(t) => PosixUnlock(t)
         /\ MalthusianPark!CondTimedwait(t) => CondTimedwait(t)
         /\ MalthusianPark!CondSignal(t) => CondSignal(t)
         /\ MalthusianPark!CondBroadcast(t) => CondBroadcast(t)
         /\ \A p, q : MalthusianPark!Step(t, p, q) => Step(t, p, q)
         /\ \A p, q : MalthusianPark!Read(t, p, q) => Step(t, p, q) /\ lk' = lk /\ nd' = nd /\ loc' = loc
         /\ MalthusianPark!After(t) = After(t)
  <1>1. MalthusianPark!CallLock(t) => CallLock(t)
    BY DEF MalthusianPark!CallLock, CallLock, MalthusianPark!Read, Read, MalthusianPark!Step, Step, MalthusianPark!mem, mem
  <1>2. MalthusianPark!PosixLock(t) => PosixLock(t)
    BY DEF MalthusianPark!PosixLock, PosixLock, MalthusianPark!mem, mem
  <1>3. MalthusianPark!PosixTryLock(t) => PosixTryLock(t)
    BY DEF MalthusianPark!PosixTryLock, PosixTryLock, MalthusianPark!mem, mem
  <1>4. MalthusianPark!PosixUnlock(t) => PosixUnlock(t)
    BY DEF MalthusianPark!PosixUnlock, PosixUnlock, MalthusianPark!mem, mem
  <1>5. \A u : MalthusianPark!RealWake(u) <=> RealWake(u)
    BY DEF MalthusianPark!RealWake, RealWake, MalthusianPark!Read, Read, MalthusianPark!Step, Step, MalthusianPark!mem, mem
  <1>6. MalthusianPark!CondTimedwait(t) => CondTimedwait(t)
    BY <1>5, Zenon DEF MalthusianPark!CondTimedwait, CondTimedwait, MalthusianPark!CallWait, CallWait, MalthusianPark!RealWait, RealWait,
                MalthusianPark!RealReturn, RealReturn, MalthusianPark!WaitPosixUnlock, WaitPosixUnlock, MalthusianPark!mem, mem
  <1>7. MalthusianPark!CondSignal(t) => CondSignal(t)
    BY <1>5 DEF MalthusianPark!CondSignal, CondSignal
  <1>8. MalthusianPark!CondBroadcast(t) => CondBroadcast(t)
    BY DEF MalthusianPark!CondBroadcast, CondBroadcast, MalthusianPark!mem, mem
  <1>9. \A p, q : MalthusianPark!Step(t, p, q) => Step(t, p, q)
    BY DEF MalthusianPark!Step, Step
  <1>10. \A p, q : MalthusianPark!Read(t, p, q) => Step(t, p, q) /\ lk' = lk /\ nd' = nd /\ loc' = loc
    BY DEF MalthusianPark!Read, MalthusianPark!Step, Step, MalthusianPark!mem
  <1>11. MalthusianPark!After(t) = After(t)
    BY DEF MalthusianPark!After, After
  <1> QED
    BY <1>1, <1>2, <1>3, <1>4, <1>6, <1>7, <1>8, <1>9, <1>10, <1>11

LEMMA MalthusianParkMoves ==
  ASSUME NEW t \in Threads, ChainType, lk \in [tail : Threads \cup {NULL}, passive : Seq(Threads)]
  PROVE  /\ MalthusianPark!Enqueue(t) => Arrives(t) /\ TailOnly
         /\ MalthusianPark!TryEnqueue(t) => TriesTail(t) /\ TailOnly
         /\ MalthusianPark!Link(t) => Links(t) /\ TailOnly
         /\ MalthusianPark!waiting_policy_sleep(t, t, "posix") => (Sleeps(t) \/ Enters(t)) /\ TailOnly
         /\ MalthusianPark!CheckNext(t) => Turns(t) /\ TailOnly
         /\ MalthusianPark!CasTail(t) => (Turns(t) \/ Empties(t)) /\ TailOnly
         /\ MalthusianPark!AwaitNext(t) => Turns(t) /\ TailOnly
         /\ MalthusianPark!waiting_policy_wake(t, nd[t].next, MalthusianPark!Own, "handover", "futexwake", MalthusianPark!After(t))
              => (Wakes(t) \/ FutexWakes(t)) /\ TailOnly
         /\ MalthusianPark!WakeStore(t, nd[t].next, "handover", "futexwake", MalthusianPark!After(t)) => Wakes(t) /\ TailOnly
         /\ MalthusianPark!Spinning(t, t, "posix") => Enters(t) /\ TailOnly
  <1>1. /\ \A p, q : MalthusianPark!Step(t, p, q) => Step(t, p, q)
        /\ \A p, q : MalthusianPark!Read(t, p, q) => Step(t, p, q) /\ lk' = lk /\ nd' = nd /\ loc' = loc
        /\ MalthusianPark!After(t) = After(t)
    BY MalthusianParkCalls
  <1>2. MalthusianPark!LOCKED = LOCKED /\ MalthusianPark!UNLOCKED = UNLOCKED
    BY DEF MalthusianPark!LOCKED, LOCKED, MalthusianPark!UNLOCKED, UNLOCKED
  <1>3. {"unlock", "castail", "awaitnext", "handover"} \subseteq UnlockPcs \ GraftPcs
    BY ChainPcs
  <1>4. lk' = lk => TailOnly
    BY DEF TailOnly
  <1>5. MalthusianPark!Enqueue(t) => Arrives(t) /\ TailOnly
    BY <1>1, <1>2 DEF MalthusianPark!Enqueue, Arrives, TailOnly
  <1>6. MalthusianPark!TryEnqueue(t) => TriesTail(t) /\ TailOnly
    BY <1>1, <1>2 DEF MalthusianPark!TryEnqueue, TriesTail, TailOnly
  <1>7. MalthusianPark!Link(t) => Links(t) /\ TailOnly
    BY <1>1, <1>4 DEF MalthusianPark!Link, Links
  <1>8. MalthusianPark!Spinning(t, t, "posix") => Enters(t) /\ TailOnly
    BY <1>1, <1>2, <1>4 DEF MalthusianPark!Spinning, Enters
  <1>9. MalthusianPark!FutexWait(t, t) \/ MalthusianPark!Interrupt(t) => Sleeps(t) /\ TailOnly
    BY <1>1, <1>4 DEF MalthusianPark!FutexWait, MalthusianPark!Interrupt, Sleeps
  <1>10. MalthusianPark!Respin(t, t, "posix") => Enters(t) /\ TailOnly
    BY <1>1, <1>2, <1>4 DEF MalthusianPark!Respin, Enters
  <1>11. MalthusianPark!waiting_policy_sleep(t, t, "posix") => (Sleeps(t) \/ Enters(t)) /\ TailOnly
    BY <1>8, <1>9, <1>10 DEF MalthusianPark!waiting_policy_sleep
  <1>12. MalthusianPark!CheckNext(t) => Turns(t) /\ TailOnly
    <2> SUFFICES ASSUME MalthusianPark!CheckNext(t)
                 PROVE  Turns(t) /\ TailOnly
      OBVIOUS
    <2>1. Step(t, "unlock", IF nd[t].next = NULL THEN "castail" ELSE "handover")
          /\ lk' = lk /\ nd' = nd /\ loc' = loc
      BY <1>1 DEF MalthusianPark!CheckNext
    <2> QED
      BY <1>3, <1>4, <2>1 DEF Turns
  <1>13. MalthusianPark!CasTail(t) => (Turns(t) \/ Empties(t)) /\ TailOnly
    <2> SUFFICES ASSUME MalthusianPark!CasTail(t)
                 PROVE  (Turns(t) \/ Empties(t)) /\ TailOnly
      OBVIOUS
    <2>1. /\ Step(t, "castail", IF lk.tail = t THEN After(t) ELSE "awaitnext")
          /\ lk' = [lk EXCEPT !.tail = IF @ = t THEN NULL ELSE @]
          /\ nd' = nd /\ loc' = loc
      BY <1>1 DEF MalthusianPark!CasTail
    <2>2. CASE lk.tail = t
      BY <2>1, <2>2 DEF Empties, TailOnly
    <2>3. CASE lk.tail # t
      <3>1. lk' = lk /\ Step(t, "castail", "awaitnext")
        BY <2>1, <2>3
      <3> QED
        BY <1>3, <1>4, <2>1, <3>1 DEF Turns
    <2> QED
      BY <2>2, <2>3
  <1>14. MalthusianPark!AwaitNext(t) => Turns(t) /\ TailOnly
    BY <1>1, <1>3, <1>4 DEF MalthusianPark!AwaitNext, Turns
  <1>15. MalthusianPark!WakeStore(t, nd[t].next, "handover", "futexwake", MalthusianPark!After(t)) => Wakes(t) /\ TailOnly
    BY <1>1, <1>2, <1>4 DEF MalthusianPark!WakeStore, Wakes
  <1>16. MalthusianPark!FutexWake(t, MalthusianPark!Own, "futexwake", MalthusianPark!After(t)) => FutexWakes(t) /\ TailOnly
    BY <1>1, <1>4 DEF MalthusianPark!FutexWake, FutexWakes
  <1>17. MalthusianPark!waiting_policy_wake(t, nd[t].next, MalthusianPark!Own, "handover", "futexwake", MalthusianPark!After(t))
           => (Wakes(t) \/ FutexWakes(t)) /\ TailOnly
    BY <1>15, <1>16 DEF MalthusianPark!waiting_policy_wake
  <1> QED
    BY <1>5, <1>6, <1>7, <1>8, <1>11, <1>12, <1>13, <1>14, <1>15, <1>17

LEMMA MalthusianParkUnlocks ==
  ASSUME NEW t \in Threads, ChainType, lk \in [tail : Threads \cup {NULL}, passive : Seq(Threads)],
         Distinct(lk.passive)
  PROVE  /\ MalthusianPark!PickBack(t) => PicksAside(t)
         /\ MalthusianPark!PickFront(t) => PicksAside(t)
         /\ MalthusianPark!NobodyWaits(t) => Turns(t) /\ TailOnly
         /\ MalthusianPark!HasNext(t) => Turns(t) /\ TailOnly
         /\ MalthusianPark!Cull(t) => Culls(t)
         /\ MalthusianPark!GraftTail(t) => GraftsTail(t)
         /\ MalthusianPark!GraftLink(t) => GraftsLink(t)
         /\ MalthusianPark!GraftBefore(t) => GraftsBefore(t)
  <1>1. /\ \A p, q : MalthusianPark!Step(t, p, q) => Step(t, p, q)
        /\ \A p, q : MalthusianPark!Read(t, p, q) => Step(t, p, q) /\ lk' = lk /\ nd' = nd /\ loc' = loc
    BY MalthusianParkCalls
  <1>2. {"unlock", "castail", "handover", "cull"} \subseteq UnlockPcs \ GraftPcs
    BY DEF UnlockPcs, GraftPcs
  <1>3. lk' = lk => TailOnly
    BY DEF TailOnly
  <1> DEFINE s == lk.passive
  <1>4. /\ s \in Seq(Threads)
        /\ nd \in [Threads -> [next : Threads \cup {NULL}, spin : {LOCKED, UNLOCKED}]]
    BY DEF ChainType
  <1>5. ASSUME MalthusianPark!PickBack(t)
        PROVE  PicksAside(t)
    <2> DEFINE rest == SubSeq(s, 1, Len(s) - 1)
               ends == {MalthusianPark!Last(s)} \cup (IF rest = <<>> THEN {} ELSE {MalthusianPark!Last(rest)})
    <2>1. /\ Step(t, "unlock", "graft") /\ s # <<>> /\ lk' = [lk EXCEPT !.passive = rest]
          /\ nd' = [v \in Threads |-> IF v \in ends THEN [nd[v] EXCEPT !.next = NULL] ELSE nd[v]]
          /\ loc' = [loc EXCEPT ![t] = MalthusianPark!Last(s)]
      BY <1>1, <1>5 DEF MalthusianPark!PickBack, MalthusianPark!passive_set_pop_back
    <2>2. MalthusianPark!Last(s) = s[Len(s)] /\ MalthusianPark!Last(rest) = rest[Len(rest)]
      BY DEF MalthusianPark!Last
    <2>3. /\ s[Len(s)] \in Threads /\ At1(s, s[Len(s)])
          /\ rest \in Seq(Threads) /\ Distinct(rest)
          /\ \A u : At1(rest, u) <=> At1(s, u) /\ u # s[Len(s)]
      BY <1>4, <2>1, LinePop
    <2>4. rest # <<>> => At1(rest, rest[Len(rest)])
      BY <2>3, LinePop
    <2>5. \A v \in ends : At1(s, v)
      BY <2>2, <2>3, <2>4
    <2> HIDE DEF rest
    <2>6. MalthusianPark!Last(s) \in ends
      OBVIOUS
    <2> HIDE DEF ends
    <2>7. ASSUME NEW v \in Threads
          PROVE  /\ nd'[v] \in [next : Threads \cup {NULL}, spin : {LOCKED, UNLOCKED}]
                 /\ nd'[v].spin = nd[v].spin
                 /\ nd'[v].next = IF v \in ends THEN NULL ELSE nd[v].next
      <3>1. nd[v] \in [next : Threads \cup {NULL}, spin : {LOCKED, UNLOCKED}]
        BY <1>4
      <3>2. nd'[v] = IF v \in ends THEN [nd[v] EXCEPT !.next = NULL] ELSE nd[v]
        BY <2>1
      <3> QED
        BY <3>1, <3>2
    <2>8. nd' \in [Threads -> [next : Threads \cup {NULL}, spin : {LOCKED, UNLOCKED}]]
      BY <2>1, <2>7
    <2>9. PICK v \in Threads : v = s[Len(s)]
      BY <2>3
    <2>10. /\ At1(lk.passive, v) /\ Distinct(rest)
           /\ \A u : At1(rest, u) <=> At1(lk.passive, u) /\ u # v
      BY <2>3, <2>9
    <2>11. /\ nd'[v].next = NULL /\ (\A u \in Threads : nd'[u].spin = nd[u].spin)
           /\ \A u \in Threads : nd'[u].next = nd[u].next \/ At1(lk.passive, u)
      BY <2>2, <2>5, <2>6, <2>7, <2>9
    <2>12. loc' = [loc EXCEPT ![t] = v]
      BY <2>1, <2>2, <2>9
    <2> QED
      BY <2>1, <2>3, <2>8, <2>10, <2>11, <2>12 DEF PicksAside
  <1>6. ASSUME MalthusianPark!PickFront(t)
        PROVE  PicksAside(t)
    <2>1. /\ Step(t, "unlock", "graft") /\ s # <<>> /\ lk' = [lk EXCEPT !.passive = Tail(s)]
          /\ nd' = [nd EXCEPT ![Head(s)].next = NULL]
          /\ loc' = [loc EXCEPT ![t] = Head(s)]
      BY <1>1, <1>6 DEF MalthusianPark!PickFront, MalthusianPark!passive_set_pop_front
    <2>2. PICK v \in Threads : v = Head(s)
      BY <1>4, <2>1
    <2>3. FirstOf(s, v)
      BY <1>4, <2>1, <2>2 DEF FirstOf
    <2>4. Tail(s) \in Seq(Threads) /\ Distinct(Tail(s)) /\ \A u : At1(Tail(s), u) <=> At1(s, u) /\ u # v
      BY <1>4, <2>3, LineTail
    <2>5. At1(s, v)
      BY <1>4, <2>3, LineFacts
    <2>6. nd' = [nd EXCEPT ![v].next = NULL] /\ loc' = [loc EXCEPT ![t] = v]
      BY <2>1, <2>2
    <2>7. /\ nd' \in [Threads -> [next : Threads \cup {NULL}, spin : {LOCKED, UNLOCKED}]]
          /\ nd'[v].next = NULL /\ (\A u \in Threads : nd'[u].spin = nd[u].spin)
          /\ \A u \in Threads : nd'[u].next = nd[u].next \/ u = v
      BY <1>4, <2>6
    <2>8. \A u \in Threads : nd'[u].next = nd[u].next \/ At1(lk.passive, u)
      BY <2>5, <2>7
    <2> QED
      BY <2>1, <2>4, <2>5, <2>6, <2>7, <2>8 DEF PicksAside
  <1>7. MalthusianPark!NobodyWaits(t) => Turns(t) /\ TailOnly
    BY <1>1, <1>2, <1>3 DEF MalthusianPark!NobodyWaits, Turns
  <1>8. ASSUME MalthusianPark!HasNext(t)
        PROVE  Turns(t) /\ TailOnly
    <2>1. PICK q \in {"cull", "handover"} : /\ Step(t, "unlock", q) /\ nd[t].next # NULL
                                            /\ lk' = lk /\ nd' = nd /\ loc' = loc
      BY <1>1, <1>8 DEF MalthusianPark!HasNext
    <2> QED
      BY <1>2, <1>3, <2>1 DEF Turns
  <1>9. ASSUME MalthusianPark!Cull(t)
        PROVE  Culls(t)
    <2>1. /\ Step(t, "cull", "handover") /\ nd[nd[t].next].next # NULL /\ loc' = loc
          /\ lk' = [lk EXCEPT !.passive = ConsOf(nd[t].next, lk.passive)]
          /\ nd' = [nd EXCEPT ![nd[t].next].next = IF s = <<>> THEN NULL ELSE Head(s),
                              ![t].next = nd[nd[t].next].next]
      BY <1>1, <1>9 DEF MalthusianPark!Cull, MalthusianPark!passive_set_push_front, ConsOf
    <2>2. PICK n \in Threads \cup {NULL} : n = IF s = <<>> THEN NULL ELSE Head(s)
      BY <1>4
    <2> QED
      BY <2>1, <2>2 DEF Culls
  <1>10. MalthusianPark!GraftTail(t) => GraftsTail(t)
    BY <1>1 DEF MalthusianPark!GraftTail, GraftsTail
  <1>11. MalthusianPark!GraftLink(t) => GraftsLink(t)
    BY <1>1 DEF MalthusianPark!GraftLink, GraftsLink
  <1>12. MalthusianPark!GraftBefore(t) => GraftsBefore(t)
    BY <1>1 DEF MalthusianPark!GraftBefore, GraftsBefore
  <1> QED
    BY <1>5, <1>6, <1>7, <1>8, <1>9, <1>10, <1>11, <1>12

\* What a move of the queue does beside it: nothing to a thread that grafts.
LEMMA ChainOthers ==
  ASSUME ApiInv, NEW s, NEW X, ChainInv(s, X), algo' = algo, NEW t \in Threads, Ordered(t), ChainMove(t)
  PROVE  \A u \in Threads : /\ pc'[u] \in GraftPcs <=> pc[u] \in GraftPcs
                            /\ pc[u] \in GraftPcs => pc'[u] = pc[u] /\ loc'[u] = loc[u]
  <1>1. loc = [u \in Threads |-> loc[u]] /\ LineInv(s, X)
    BY DEF ChainInv, ChainType
  <1>2. \A u \in Threads \ {t} : loc'[u] = loc[u]
    <2>1. loc' = loc \/ \E x : loc' = [loc EXCEPT ![t] = x]
      BY DEF ChainMove, Arrives, TriesTail, Marks, Links, Sleeps, Enters, Turns, Empties, Wakes, FutexWakes
    <2> QED
      BY <1>1, <2>1
  <1>3. /\ \A p \in {"idle", "lock", "mark", "link", "sleep", "asleep", "respin", "posix", "tryposix",
                     "futexwake", After(t)} : p \notin GraftPcs
        /\ "castail" \notin GraftPcs /\ "handover" \notin GraftPcs
    BY ChainPcs DEF GraftPcs
  <1>4. /\ pc[t] \notin GraftPcs /\ pc'[t] \notin GraftPcs
        /\ \A u \in Threads \ {t} : pc'[u] = pc[u] \/ (pc[u] = "asleep" /\ pc'[u] = "respin")
    <2>1. CASE FutexWakes(t)
      BY <1>1, <1>3, <2>1, FutexMoves
    <2>2. ASSUME NEW p, NEW q, Step(t, p, q), p \notin GraftPcs, q \notin GraftPcs
          PROVE  /\ pc[t] \notin GraftPcs /\ pc'[t] \notin GraftPcs
                 /\ \A u \in Threads \ {t} : pc'[u] = pc[u] \/ (pc[u] = "asleep" /\ pc'[u] = "respin")
      BY <2>2, StepMoves
    <2>3. CASE Arrives(t)
      <3>1. PICK p \in {"mark", "link", "posix"} : Step(t, "lock", p)
        BY <2>3 DEF Arrives
      <3> QED
        BY <1>3, <2>2, <3>1
    <2>4. CASE TriesTail(t)
      <3>1. PICK p \in {"idle", "tryposix"} : Step(t, "idle", p)
        BY <2>4 DEF TriesTail
      <3> QED
        BY <1>3, <2>2, <3>1
    <2>5. CASE Marks(t) \/ Links(t) \/ Sleeps(t) \/ Enters(t)
      <3>1. PICK p, q \in {"mark", "link", "sleep", "asleep", "respin", "posix"} : Step(t, p, q)
        BY <2>5 DEF Marks, Links, Sleeps, Enters
      <3> QED
        BY <1>3, <2>2, <3>1
    <2>6. CASE Turns(t)
      BY <2>2, <2>6 DEF Turns
    <2>7. CASE Empties(t)
      BY <1>3, <2>2, <2>7 DEF Empties
    <2>8. CASE Wakes(t)
      BY <1>3, <2>2, <2>8 DEF Wakes
    <2> QED
      BY <2>1, <2>3, <2>4, <2>5, <2>6, <2>7, <2>8 DEF ChainMove
  <1>5. "asleep" \notin GraftPcs /\ "respin" \notin GraftPcs
    BY DEF GraftPcs
  <1> QED
    BY <1>2, <1>4, <1>5

LEMMA MalthusianKept ==
  ASSUME ApiInv, MalthusianInv, algo' = algo, NEW t \in Threads, Ordered(t),
         Wrapped(t) \/ (ChainMove(t) /\ TailOnly)
  PROVE  MalthusianInv' /\ InTurn(t) /\ (Allowed(t) \/ Wrapped(t))
  <1>1. PICK s, X : ChainInv(s, X) /\ \A v \in Threads : v \in X <=> Aside(v)
    BY DEF MalthusianInv
  <1>2. /\ lk \in [tail : Threads \cup {NULL}, passive : Seq(Threads)] /\ Distinct(lk.passive)
        /\ \A u \in Threads : pc[u] \in {"graft", "graftwait"} => ~At1(lk.passive, loc[u])
    BY DEF MalthusianInv
  <1>3. \A p \in {"graft", "graftwait"} : p \in GraftPcs
    BY DEF GraftPcs
  <1>4. ASSUME NEW r, ChainInv(r, X)', lk'.passive = lk.passive,
               lk' \in [tail : Threads \cup {NULL}, passive : Seq(Threads)],
               \A u \in Threads : /\ pc'[u] \in GraftPcs <=> pc[u] \in GraftPcs
                                  /\ pc[u] \in GraftPcs => pc'[u] = pc[u] /\ loc'[u] = loc[u]
        PROVE  MalthusianInv'
    <2>1. \A u \in Threads : /\ pc'[u] \in {"graft", "graftwait"} <=> pc[u] \in {"graft", "graftwait"}
                             /\ pc[u] \in {"graft", "graftwait"} => loc'[u] = loc[u]
      BY <1>3, <1>4
    <2>2. \A v \in Threads : Aside(v)' <=> Aside(v)
      BY <1>4, <2>1 DEF Aside
    <2>3. \A u \in Threads : pc'[u] \in {"graft", "graftwait"} => ~At1(lk'.passive, loc'[u])
      BY <1>2, <1>4, <2>1
    <2>4. Distinct(lk'.passive)
      BY <1>2, <1>4
    <2>5. \A v \in Threads : v \in X <=> Aside(v)'
      BY <1>1, <2>2
    <2> QED
      BY <1>4, <2>3, <2>4, <2>5 DEF MalthusianInv
  <1>5. CASE Wrapped(t)
    <2>1. /\ ChainInv(s, X)' /\ InTurn(t) /\ lk' = lk /\ nd' = nd /\ loc' = loc
          /\ \A u \in Threads : Around(u)
      BY <1>1, <1>5, ChainWrapped
    <2>2. \A u \in Threads : /\ pc'[u] \in GraftPcs <=> pc[u] \in GraftPcs
                             /\ pc[u] \in GraftPcs => pc'[u] = pc[u] /\ loc'[u] = loc[u]
      BY <2>1 DEF Around, RestPcs, GraftPcs
    <2> QED
      BY <1>2, <1>4, <1>5, <2>1, <2>2
  <1>6. CASE ChainMove(t) /\ TailOnly
    <2>1. (\E r : ChainInv(r, X)') /\ InTurn(t) /\ Allowed(t)
      BY <1>1, <1>6, ChainStep
    <2>2. PICK r : ChainInv(r, X)'
      BY <2>1
    <2>3. lk'.tail \in Threads \cup {NULL}
      <3>1. CASE Len(r) = 0
        BY <2>2, <3>1 DEF ChainInv
      <3>2. CASE Len(r) # 0
        <4>1. r \in Seq(Threads) /\ Distinct(r)
          BY <2>2 DEF ChainInv, LineInv
        <4> QED
          BY <2>2, <3>2, <4>1, LineFacts DEF ChainInv
      <3> QED
        BY <3>1, <3>2
    <2>4. /\ lk' \in [tail : Threads \cup {NULL}, passive : Seq(Threads)]
          /\ lk'.passive = lk.passive
      BY <1>2, <1>6, <2>3 DEF TailOnly
    <2>5. \A u \in Threads : /\ pc'[u] \in GraftPcs <=> pc[u] \in GraftPcs
                             /\ pc[u] \in GraftPcs => pc'[u] = pc[u] /\ loc'[u] = loc[u]
      BY <1>1, <1>6, ChainOthers
    <2> QED
      BY <1>4, <2>1, <2>2, <2>4, <2>5
  <1> QED
    BY <1>5, <1>6

LEMMA MalthusianStep ==
  ASSUME ApiInv, MalthusianInv, algo \in MalthusianAlgos, algo' = algo, NEW t \in Threads, Calls(t), Ordered(t)
  PROVE  MalthusianInv' /\ InTurn(t) /\ (Allowed(t) \/ Wrapped(t))
  <1>1. /\ lk \in [tail : Threads \cup {NULL}, passive : Seq(Threads)] /\ Distinct(lk.passive) /\ ChainType
    BY DEF MalthusianInv, ChainInv
  <1>2. algo \notin FifoAlgos
    BY DEF MalthusianAlgos, FifoAlgos, McsAlgos, ClhAlgos
  <1>3. \/ Wrapped(t) \/ (ChainMove(t) /\ TailOnly)
        \/ PicksAside(t) \/ Culls(t) \/ GraftsTail(t) \/ GraftsLink(t) \/ GraftsBefore(t)
    <2>1. \/ algo = "malthusian_spin" /\ MalthusianSpin!malthusian(t)
          \/ algo = "malthusian_park" /\ MalthusianPark!malthusian(t)
      BY DEF Calls, MalthusianAlgos
    <2>2. CASE MalthusianSpin!malthusian(t)
      <3>1. \/ MalthusianSpin!CallLock(t) \/ MalthusianSpin!PosixLock(t) \/ MalthusianSpin!PosixTryLock(t)
            \/ MalthusianSpin!PosixUnlock(t) \/ MalthusianSpin!CondTimedwait(t)
            \/ MalthusianSpin!Enqueue(t) \/ MalthusianSpin!TryEnqueue(t) \/ MalthusianSpin!Link(t)
            \/ MalthusianSpin!waiting_policy_sleep(t, t, "posix") \/ MalthusianSpin!PickBack(t)
            \/ MalthusianSpin!PickFront(t) \/ MalthusianSpin!NobodyWaits(t) \/ MalthusianSpin!HasNext(t)
            \/ MalthusianSpin!Cull(t) \/ MalthusianSpin!GraftTail(t) \/ MalthusianSpin!GraftLink(t)
            \/ MalthusianSpin!GraftBefore(t) \/ MalthusianSpin!CasTail(t) \/ MalthusianSpin!AwaitNext(t)
            \/ MalthusianSpin!waiting_policy_wake(t, nd[t].next, MalthusianSpin!Own, "handover", "futexwake",
                                                   MalthusianSpin!After(t))
        BY <2>2, Zenon DEF MalthusianSpin!malthusian, MalthusianSpin!malthusian_mutex_lock,
             MalthusianSpin!malthusian_mutex_trylock, MalthusianSpin!malthusian_mutex_unlock,
             MalthusianSpin!malthusian_cond_timedwait
      <3>2. CASE \/ MalthusianSpin!CallLock(t) \/ MalthusianSpin!PosixLock(t) \/ MalthusianSpin!PosixTryLock(t)
                 \/ MalthusianSpin!PosixUnlock(t) \/ MalthusianSpin!CondTimedwait(t)
        BY <3>2, MalthusianSpinCalls DEF Wrapped
      <3>3. CASE \/ MalthusianSpin!Enqueue(t) \/ MalthusianSpin!TryEnqueue(t) \/ MalthusianSpin!Link(t)
                 \/ MalthusianSpin!waiting_policy_sleep(t, t, "posix")
                 \/ MalthusianSpin!CasTail(t) \/ MalthusianSpin!AwaitNext(t)
                 \/ MalthusianSpin!waiting_policy_wake(t, nd[t].next, MalthusianSpin!Own, "handover", "futexwake",
                                                        MalthusianSpin!After(t))
        BY <1>1, <3>3, MalthusianSpinMoves DEF ChainMove
      <3>4. CASE \/ MalthusianSpin!PickBack(t) \/ MalthusianSpin!PickFront(t) \/ MalthusianSpin!NobodyWaits(t)
                 \/ MalthusianSpin!HasNext(t) \/ MalthusianSpin!Cull(t) \/ MalthusianSpin!GraftTail(t)
                 \/ MalthusianSpin!GraftLink(t) \/ MalthusianSpin!GraftBefore(t)
        BY <1>1, <3>4, MalthusianSpinUnlocks DEF ChainMove
      <3> QED
        BY <3>1, <3>2, <3>3, <3>4
    <2>3. CASE MalthusianPark!malthusian(t)
      <3>1. \/ MalthusianPark!CallLock(t) \/ MalthusianPark!PosixLock(t) \/ MalthusianPark!PosixTryLock(t)
            \/ MalthusianPark!PosixUnlock(t) \/ MalthusianPark!CondTimedwait(t)
            \/ MalthusianPark!Enqueue(t) \/ MalthusianPark!TryEnqueue(t) \/ MalthusianPark!Link(t)
            \/ MalthusianPark!waiting_policy_sleep(t, t, "posix") \/ MalthusianPark!PickBack(t)
            \/ MalthusianPark!PickFront(t) \/ MalthusianPark!NobodyWaits(t) \/ MalthusianPark!HasNext(t)
            \/ MalthusianPark!Cull(t) \/ MalthusianPark!GraftTail(t) \/ MalthusianPark!GraftLink(t)
            \/ MalthusianPark!GraftBefore(t) \/ MalthusianPark!CasTail(t) \/ MalthusianPark!AwaitNext(t)
            \/ MalthusianPark!waiting_policy_wake(t, nd[t].next, MalthusianPark!Own, "handover", "futexwake",
                                                   MalthusianPark!After(t))
        BY <2>3, Zenon DEF MalthusianPark!malthusian, MalthusianPark!malthusian_mutex_lock,
             MalthusianPark!malthusian_mutex_trylock, MalthusianPark!malthusian_mutex_unlock,
             MalthusianPark!malthusian_cond_timedwait
      <3>2. CASE \/ MalthusianPark!CallLock(t) \/ MalthusianPark!PosixLock(t) \/ MalthusianPark!PosixTryLock(t)
                 \/ MalthusianPark!PosixUnlock(t) \/ MalthusianPark!CondTimedwait(t)
        BY <3>2, MalthusianParkCalls DEF Wrapped
      <3>3. CASE \/ MalthusianPark!Enqueue(t) \/ MalthusianPark!TryEnqueue(t) \/ MalthusianPark!Link(t)
                 \/ MalthusianPark!waiting_policy_sleep(t, t, "posix")
                 \/ MalthusianPark!CasTail(t) \/ MalthusianPark!AwaitNext(t)
                 \/ MalthusianPark!waiting_policy_wake(t, nd[t].next, MalthusianPark!Own, "handover", "futexwake",
                                                        MalthusianPark!After(t))
        BY <1>1, <3>3, MalthusianParkMoves DEF ChainMove
      <3>4. CASE \/ MalthusianPark!PickBack(t) \/ MalthusianPark!PickFront(t) \/ MalthusianPark!NobodyWaits(t)
                 \/ MalthusianPark!HasNext(t) \/ MalthusianPark!Cull(t) \/ MalthusianPark!GraftTail(t)
                 \/ MalthusianPark!GraftLink(t) \/ MalthusianPark!GraftBefore(t)
        BY <1>1, <3>4, MalthusianParkUnlocks DEF ChainMove
      <3> QED
        BY <3>1, <3>2, <3>3, <3>4
    <2> QED
      BY <2>1, <2>2, <2>3
  <1>4. CASE Wrapped(t) \/ (ChainMove(t) /\ TailOnly)
    BY <1>4, MalthusianKept
  <1>5. CASE PicksAside(t)
    BY <1>2, <1>5, MalthusianPicks
  <1>6. CASE Culls(t)
    BY <1>2, <1>6, MalthusianCulls
  <1>7. CASE GraftsTail(t)
    BY <1>2, <1>7, MalthusianTail
  <1>8. CASE GraftsLink(t)
    BY <1>2, <1>8, MalthusianLink
  <1>9. CASE GraftsBefore(t)
    BY <1>2, <1>9, MalthusianBefore
  <1> QED
    BY <1>3, <1>4, <1>5, <1>6, <1>7, <1>8, <1>9

LEMMA MalthusianInitial ==
  ASSUME MalthusianSpin!InitMalthusian, order = <<>>
  PROVE  MalthusianInv
  <1>1. /\ pc = [t \in Threads |-> "idle"] /\ lk = [tail |-> NULL, passive |-> <<>>]
        /\ nd = [t \in Threads |-> [next |-> NULL, spin |-> LOCKED]] /\ loc = [t \in Threads |-> NULL]
    BY DEF MalthusianSpin!InitMalthusian, MalthusianSpin!ApiInit, MalthusianSpin!malthusian_mutex_create,
           MalthusianSpin!LOCKED, LOCKED
  <1>2. ChainInv(<<>>, {})
    BY <1>1, ChainInitial
  <1>3. lk.passive = <<>> /\ lk \in [tail : Threads \cup {NULL}, passive : Seq(Threads)]
    BY <1>1
  <1>4. Distinct(<<>>) /\ \A u : ~At1(<<>>, u)
    BY DEF Distinct, At1
  <1>5. \A t \in Threads : pc[t] \notin {"graft", "graftwait"}
    BY <1>1
  <1>6. \A v \in Threads : v \in {} <=> Aside(v)
    BY <1>3, <1>4, <1>5 DEF Aside
  <1> QED
    BY <1>2, <1>3, <1>4, <1>5, <1>6 DEF MalthusianInv

-----------------------------------------------------------------------------
(* All of them.                                                              *)

\* CNA and MCS-TP are left to model checking.  The array lock needs memory that
\* is fresh from the kernel (not Recycled), and the partitioned one tickets
\* that stay positive.
Covered ==
  /\ algo \in FifoAlgos \cup TasAlgos \cup MalthusianAlgos \cup {"mutexee"}
  /\ algo = "alockepfl" => ~Recycled
  /\ algo = "partitioned" => TicketCap < SignBit

AlgoInv ==
  \/ algo \in TasAlgos /\ TasInv
  \/ algo = "mutexee" /\ MutexeeInv
  \/ algo \in {"ticket", "ticketepfl"} /\ TicketInv
  \/ algo = "alockepfl" /\ ArrayInv
  \/ algo = "partitioned" /\ TicketCap < SignBit /\ PtlInv
  \/ algo \in McsAlgos /\ McsInv
  \/ algo \in ClhAlgos /\ \E s, x : ClhInv(s, x)
  \/ algo \in MalthusianAlgos /\ MalthusianInv

IInv == ApiInv /\ AlgoInv

\* Nobody is in a lock call, in a trylock, or in the critical section.
Unused == \A t \in Threads : pc[t] \in ReleasedPcs \cup RestPcs

LEMMA OneAtATime ==
  ASSUME AlgoInv
  PROVE  OneHolder
  <1>1. ASSUME NEW s, NEW X, LineInv(s, X)
        PROVE  OneHolder
    BY <1>1, LineHolder
  <1>2. McsInv \/ MalthusianInv => OneHolder
    BY <1>1 DEF McsInv, MalthusianInv, ChainInv
  <1>3. (\E s, x : ClhInv(s, x)) => OneHolder
    BY <1>1 DEF ClhInv
  <1>4. TasInv \/ MutexeeInv \/ TicketInv \/ ArrayInv \/ PtlInv => OneHolder
    BY DEF TasInv, MutexeeInv, TicketInv, ArrayInv, PtlInv
  <1> QED
    BY <1>2, <1>3, <1>4, Zenon DEF AlgoInv

LEMMA OneAtATimeNext ==
  ASSUME AlgoInv'
  PROVE  OneHolder'
  <1>1. ASSUME NEW s, NEW X, LineInv(s, X)'
        PROVE  OneHolder'
    BY <1>1 DEF LineInv, OneHolder, FirstOf
  <1>2. McsInv' \/ MalthusianInv' => OneHolder'
    BY <1>1 DEF McsInv, MalthusianInv, ChainInv
  <1>3. (\E s, x : ClhInv(s, x)') => OneHolder'
    BY <1>1 DEF ClhInv
  <1>4. TasInv' \/ MutexeeInv' \/ TicketInv' \/ ArrayInv' \/ PtlInv' => OneHolder'
    BY DEF TasInv, MutexeeInv, TicketInv, ArrayInv, PtlInv
  <1> QED
    BY <1>2, <1>3, <1>4, Zenon DEF AlgoInv

LEMMA AlgoSteps ==
  ASSUME IInv, NEW t \in Threads, ThreadStep(t)
  PROVE  AlgoInv' /\ InTurn(t) /\ (Allowed(t) \/ Wrapped(t))
  <1>1. ApiInv /\ AlgoInv /\ Calls(t) /\ Ordered(t) /\ algo' = algo
    BY DEF IInv, ThreadStep, Ordered
  <1>2. algo \in TasAlgos \cup {"mutexee"} => InTurn(t)
    <2>1. algo \in TasAlgos \cup {"mutexee"} => algo \notin FifoAlgos
      BY DEF TasAlgos, FifoAlgos, McsAlgos, ClhAlgos
    <2> QED
      BY <2>1 DEF InTurn, Granted
  <1>3. CASE algo \in TasAlgos /\ TasInv
    BY <1>1, <1>2, <1>3, TasStep DEF AlgoInv
  <1>4. CASE algo = "mutexee" /\ MutexeeInv
    BY <1>1, <1>2, <1>4, MutexeeStep DEF AlgoInv
  <1>5. CASE algo \in {"ticket", "ticketepfl"} /\ TicketInv
    BY <1>1, <1>5, TicketStep DEF AlgoInv
  <1>6. CASE algo = "alockepfl" /\ ArrayInv
    BY <1>1, <1>6, ArrayStep DEF AlgoInv
  <1>7. CASE algo = "partitioned" /\ TicketCap < SignBit /\ PtlInv
    BY <1>1, <1>7, PtlStep DEF AlgoInv
  <1>8. CASE algo \in McsAlgos /\ McsInv
    BY <1>1, <1>8, McsStep DEF AlgoInv
  <1>9. CASE algo \in ClhAlgos /\ \E s, x : ClhInv(s, x)
    BY <1>1, <1>9, ClhAlgoStep DEF AlgoInv
  <1>10. CASE algo \in MalthusianAlgos /\ MalthusianInv
    BY <1>1, <1>10, MalthusianStep DEF AlgoInv
  <1> QED
    BY <1>1, <1>3, <1>4, <1>5, <1>6, <1>7, <1>8, <1>9, <1>10, Zenon DEF AlgoInv

LEMMA ThreadSteps ==
  ASSUME IInv, NEW t \in Threads, ThreadStep(t)
  PROVE  IInv' /\ [CV!Next]_(CV!vars) /\ InTurn(t)
  <1>1. AlgoInv' /\ InTurn(t) /\ (Allowed(t) \/ Wrapped(t))
    BY AlgoSteps
  <1>2. ApiInv /\ OneHolder /\ OneHolder'
    BY <1>1, OneAtATime, OneAtATimeNext DEF IInv
  <1>3. CASE Allowed(t)
    BY <1>1, <1>2, <1>3, AllowedKeepsApi, AllowedStep DEF IInv
  <1>4. CASE Wrapped(t)
    BY <1>1, <1>2, <1>4, WrappedStep DEF IInv
  <1> QED
    BY <1>1, <1>3, <1>4

-----------------------------------------------------------------------------
(* The initial states.                                                       *)

LEMMA InitialOf ==
  ASSUME Init, Covered
  PROVE  \/ algo \in TasAlgos /\ Tas!Init
         \/ algo = "mutexee" /\ Mutexee!Init
         \/ algo = "ticket" /\ Ticket!Init
         \/ algo = "ticketepfl" /\ Ticket!InitEpfl
         \/ algo = "alockepfl" /\ ~Recycled /\ Array!Init
         \/ algo = "partitioned" /\ TicketCap < SignBit /\ Ptl!Init
         \/ algo \in McsAlgos /\ McsSpin!Init
         \/ algo \in ClhAlgos /\ ClhSpin!Init
         \/ algo \in MalthusianAlgos /\ MalthusianSpin!InitMalthusian
  <1>1. algo \in TasAlgos => Tas!Init
    BY DEF Init, McsAlgos, ClhAlgos, TasAlgos, MalthusianAlgos, McsTpAlgos
  <1>2. algo = "mutexee" => Mutexee!Init
    BY DEF Init, McsAlgos, ClhAlgos, TasAlgos, MalthusianAlgos, McsTpAlgos
  <1>3. algo = "ticket" => Ticket!Init
    BY DEF Init, McsAlgos, ClhAlgos, TasAlgos, MalthusianAlgos, McsTpAlgos
  <1>4. algo = "ticketepfl" => Ticket!InitEpfl
    BY DEF Init, McsAlgos, ClhAlgos, TasAlgos, MalthusianAlgos, McsTpAlgos
  <1>5. algo = "alockepfl" => Array!Init
    BY DEF Init, McsAlgos, ClhAlgos, TasAlgos, MalthusianAlgos, McsTpAlgos
  <1>6. algo = "partitioned" => Ptl!Init
    BY DEF Init, McsAlgos, ClhAlgos, TasAlgos, MalthusianAlgos, McsTpAlgos
  <1>7. algo \in McsAlgos => McsSpin!Init
    BY DEF Init, McsAlgos, ClhAlgos, TasAlgos, MalthusianAlgos, McsTpAlgos
  <1>8. algo \in ClhAlgos => ClhSpin!Init
    BY DEF Init, McsAlgos, ClhAlgos, TasAlgos, MalthusianAlgos, McsTpAlgos
  <1>9. algo \in MalthusianAlgos => MalthusianSpin!InitMalthusian
    BY DEF Init, McsAlgos, ClhAlgos, TasAlgos, MalthusianAlgos, McsTpAlgos
  <1>10. \/ algo \in TasAlgos
         \/ algo = "mutexee"
         \/ algo = "ticket"
         \/ algo = "ticketepfl"
         \/ algo = "alockepfl"
         \/ algo = "partitioned"
         \/ algo \in McsAlgos
         \/ algo \in ClhAlgos
         \/ algo \in MalthusianAlgos
    BY DEF Covered, FifoAlgos
  <1> QED
    BY <1>1, <1>2, <1>3, <1>4, <1>5, <1>6, <1>7, <1>8, <1>9, <1>10 DEF Covered

LEMMA Initially == Init /\ Covered => IInv /\ CV!Init
  <1> SUFFICES ASSUME Init, Covered
               PROVE  IInv /\ CV!Init
    OBVIOUS
  <1>1. order = <<>>
    BY DEF Init
  <1>2. pc = [t \in Threads |-> "idle"] /\ posix_lock = NULL /\ inWait = {}
    BY InitialOf, Zenon
       DEF Tas!Init, Tas!ApiInit, Mutexee!Init, Mutexee!ApiInit, Ticket!Init, Ticket!InitEpfl,
           Ticket!InitWith, Ticket!ApiInit, Array!Init, Array!ApiInit, Ptl!Init, Ptl!ApiInit,
           McsSpin!Init, McsSpin!ApiInit, ClhSpin!Init, ClhSpin!ApiInit,
           MalthusianSpin!InitMalthusian, MalthusianSpin!ApiInit
  <1>3. ApiInv
    BY <1>2 DEF ApiInv, PcType
  <1>4. AlgoInv
    <2>1. CASE algo \in TasAlgos /\ Tas!Init
      BY <2>1, TasInitial DEF AlgoInv
    <2>2. CASE algo = "mutexee" /\ Mutexee!Init
      BY <2>2, MutexeeInitial DEF AlgoInv
    <2>3. CASE algo = "ticket" /\ Ticket!Init
      BY <1>1, <2>3, TicketInitial DEF AlgoInv
    <2>4. CASE algo = "ticketepfl" /\ Ticket!InitEpfl
      BY <1>1, <2>4, TicketInitial DEF AlgoInv
    <2>5. CASE algo = "alockepfl" /\ ~Recycled /\ Array!Init
      BY <1>1, <2>5, ArrayInitial DEF AlgoInv
    <2>6. CASE algo = "partitioned" /\ TicketCap < SignBit /\ Ptl!Init
      BY <1>1, <2>6, PtlInitial DEF AlgoInv
    <2>7. CASE algo \in McsAlgos /\ McsSpin!Init
      BY <1>1, <2>7, McsInitial DEF AlgoInv
    <2>8. CASE algo \in ClhAlgos /\ ClhSpin!Init
      <3>1. ClhInv(<<>>, NULL)
        BY <1>1, <2>8, ClhInitial
      <3> QED
        BY <2>8, <3>1 DEF AlgoInv
    <2>9. CASE algo \in MalthusianAlgos /\ MalthusianSpin!InitMalthusian
      BY <1>1, <2>9, MalthusianInitial DEF AlgoInv
    <2> QED
      BY <2>1, <2>2, <2>3, <2>4, <2>5, <2>6, <2>7, <2>8, <2>9, InitialOf
  <1>5. CV!Init
    <2>1. \A t \in Threads : AbsPc[t] = "idle"
      <3>1. "idle" \in WrapperPcs
        BY DEF WrapperPcs
      <3> QED
        BY <1>2, <3>1, AbsPcOf, AbsCases
    <2>2. AbsPc = [t \in Threads |-> "idle"]
      BY <2>1, AbsFunction
    <2>3. Holder = NULL
      BY <2>1 DEF Holder, Holders
    <2> QED
      BY <1>2, <2>2, <2>3 DEF CV!Init
  <1> QED
    BY <1>3, <1>4, <1>5 DEF IInv

-----------------------------------------------------------------------------
(* A lock that nobody uses.                                                  *)

LEMMA UnusedPcs ==
  ASSUME Unused
  PROVE  /\ \A t \in Threads : ~Hold(t) /\ ~Enqueued(t) /\ pc[t] \notin {"handover", "spin", "trywait"} \cup GraftPcs
         /\ Held = 0
  <1>1. \A p \in ReleasedPcs \cup RestPcs :
          p \notin HeldPcs /\ ~LockPc(p) /\ p \notin {"handover", "spin", "trywait"} \cup GraftPcs
    BY DEF ReleasedPcs, RestPcs, HeldPcs, UnlockPcs, LockPc, WrapperPcs, GraftPcs
  <1>2. \A t \in Threads : ~Hold(t) /\ ~Enqueued(t) /\ pc[t] \notin {"handover", "spin", "trywait"} \cup GraftPcs
    BY <1>1 DEF Unused, Hold, Enqueued
  <1> QED
    BY <1>2 DEF Held

LEMMA UnusedLine ==
  ASSUME Unused, NEW s, NEW X, LineInv(s, X)
  PROVE  Len(s) = 0
  <1>1. s \in Seq(Threads) /\ Distinct(s) /\ \A t \in Threads : At1(s, t) => Enqueued(t) \/ Hold(t)
    BY DEF LineInv
  <1>2. \A u \in Threads : ~FirstOf(s, u)
    BY <1>1, UnusedPcs, LineFacts
  <1> QED
    BY <1>1, <1>2, LineFacts

LEMMA UnusedOrder ==
  ASSUME Unused, OrderInv
  PROVE  Len(order) = 0
  <1>1. order \in Seq(Threads) /\ \A t \in Threads : ~At1(order, t)
    BY UnusedPcs DEF OrderInv
  <1>2. Len(order) \in Nat /\ \A i \in 1..Len(order) : order[i] \in Threads
    BY <1>1, SeqLength
  <1>3. 1 \notin 1..Len(order)
    BY <1>1, <1>2 DEF At1
  <1> QED
    BY <1>2, <1>3

LEMMA FreeMalthusian ==
  ASSUME Unused, MalthusianInv
  PROVE  lk = [tail |-> NULL, passive |-> <<>>]
  <1>1. PICK s, X : ChainInv(s, X) /\ \A v \in Threads : v \in X <=> Aside(v)
    BY DEF MalthusianInv
  <1>2. lk \in [tail : Threads \cup {NULL}, passive : Seq(Threads)]
    BY DEF MalthusianInv
  <1>3. lk.tail = NULL
    BY <1>1, UnusedLine DEF ChainInv
  <1>4. \A v \in Threads : ~At1(lk.passive, v)
    BY <1>1, UnusedPcs DEF ChainInv, Aside
  <1>5. lk.passive = <<>>
    <2>1. lk.passive \in Seq(Threads)
      BY <1>2
    <2>2. Len(lk.passive) \in Nat /\ \A i \in 1..Len(lk.passive) : lk.passive[i] \in Threads
      BY <2>1, SeqLength
    <2>3. 1 \notin 1..Len(lk.passive)
      BY <1>4, <2>2 DEF At1
    <2>4. Len(lk.passive) = 0
      BY <2>2, <2>3
    <2> QED
      BY <2>1, <2>4
  <1> QED
    BY <1>2, <1>3, <1>5

LEMMA FreeClh ==
  ASSUME Unused, NEW s, NEW x, ClhInv(s, x)
  PROVE  /\ nd[lk.tail].spin = UNLOCKED
         /\ {lk.tail} \cup {lk.current[t] : t \in Threads} = Threads \cup {NULL}
  <1>1. lk.tail = x /\ nd[x].spin = UNLOCKED
    BY UnusedLine DEF ClhInv
  <1>2. ClhOwn(x) /\ lk.current \in [Threads -> ClhNodes]
    BY DEF ClhInv, ClhType
  <1>3. {x} \cup {lk.current[t] : t \in Threads} = ClhNodes
    BY <1>2 DEF ClhOwn
  <1> QED
    BY <1>1, <1>3 DEF ClhNodes

LEMMA FreeTicket ==
  ASSUME Unused, TicketInv, algo \in {"ticket", "ticketepfl"}
  PROVE  lk.grant = IF algo = "ticket" THEN lk.request ELSE (lk.request + 1) % TicketMod
  <1>1. Held = 0 /\ Len(order) = 0
    BY UnusedPcs, UnusedOrder DEF TicketInv
  <1>2. /\ lk.grant \in 0..TicketMod - 1 /\ lk.request \in 0..TicketMod - 1
        /\ NextTicket = (lk.grant + Held + Len(order)) % TicketMod /\ TicketMod \in Nat \ {0}
    BY FlatLocksAssumption DEF TicketInv
  <1>3. NextTicket = lk.grant
    <2>1. lk.grant + Held + Len(order) = lk.grant
      BY <1>1, <1>2
    <2>2. \A g \in 0..TicketMod - 1 : (g + 0) % TicketMod = g
      <3> TAKE g \in 0..TicketMod - 1
      <3>1. g \in Nat /\ g < TicketMod
        BY <1>2
      <3> QED
        BY <1>2, <3>1
    <2> QED
      BY <1>2, <2>1, <2>2
  <1> QED
    BY <1>3 DEF NextTicket, Ticket!Plus1

LEMMA FreeArray ==
  ASSUME Unused, ArrayInv
  PROVE  \A i \in DOMAIN lk.flags : lk.flags[i] = UNLOCKED <=> i = lk.tail
  <1>1. Held = 0 /\ Len(order) = 0 /\ \A t \in Threads : pc[t] # "handover"
    BY UnusedPcs, UnusedOrder DEF ArrayInv
  <1>2. PICK b \in 0..Slots - 1 : ArrayAt(b)
    BY DEF ArrayInv
  <1>3. lk.tail = b
    <2>1. Slots \in Nat \ {0}
      BY FlatLocksAssumption
    <2>2. lk.tail = (b + 0) % Slots
      BY <1>1, <1>2 DEF ArrayAt
    <2>3. (b + 0) % Slots = b
      BY <2>1, ModAdd
    <2> QED
      BY <2>2, <2>3
  <1>4. DOMAIN lk.flags = 0..Slots - 1
    BY DEF ArrayInv
  <1> QED
    BY <1>1, <1>2, <1>3, <1>4 DEF ArrayAt

LEMMA FreePtl ==
  ASSUME Unused, PtlInv
  PROVE  lk.grants[lk.request % 2] = lk.request
  <1>1. Held = 0 /\ \A t \in Threads : ~PtlWaits(t)
    BY UnusedPcs DEF PtlWaits
  <1>2. PICK g \in Nat : PtlAt(g)
    BY DEF PtlInv
  <1>3. lk.request \in Nat /\ g + 0 <= lk.request
    BY <1>1, <1>2 DEF PtlInv, PtlAt
  <1>4. \A k \in (g + 0)..(lk.request - 1) : FALSE
    BY <1>1, <1>2 DEF PtlAt
  <1>5. g = lk.request
    BY <1>3, <1>4
  <1> QED
    BY <1>2, <1>5 DEF PtlAt

LEMMA FreeLocks ==
  ASSUME Unused, AlgoInv
  PROVE  Free
  <1>1. CASE algo \in TasAlgos /\ TasInv
    <2>1. lk.spin_lock = UNLOCKED
      BY <1>1, UnusedPcs DEF TasInv
    <2> QED
      BY <1>1, <2>1 DEF Free, TasAlgos, McsAlgos, ClhAlgos, McsTpAlgos, MalthusianAlgos
  <1>2. CASE algo = "mutexee" /\ MutexeeInv
    <2>1. lk.locked = 0
      BY <1>2, UnusedPcs DEF MutexeeInv
    <2> QED
      BY <1>2, <2>1 DEF Free, TasAlgos, McsAlgos, ClhAlgos, McsTpAlgos, MalthusianAlgos
  <1>3. CASE algo \in {"ticket", "ticketepfl"} /\ TicketInv
    BY <1>3, FreeTicket DEF Free, TasAlgos, McsAlgos, ClhAlgos, McsTpAlgos, MalthusianAlgos
  <1>4. CASE algo = "alockepfl" /\ ArrayInv
    BY <1>4, FreeArray DEF Free, TasAlgos, McsAlgos, ClhAlgos, McsTpAlgos, MalthusianAlgos
  <1>5. CASE algo = "partitioned" /\ PtlInv
    BY <1>5, FreePtl DEF Free, TasAlgos, McsAlgos, ClhAlgos, McsTpAlgos, MalthusianAlgos
  <1>6. CASE algo \in McsAlgos /\ McsInv
    <2>1. lk.tail = NULL
      BY <1>6, UnusedLine DEF McsInv, ChainInv
    <2> QED
      BY <1>6, <2>1 DEF Free, TasAlgos, McsAlgos, ClhAlgos, McsTpAlgos, MalthusianAlgos
  <1>7. CASE algo \in ClhAlgos /\ \E s, x : ClhInv(s, x)
    <2>1. /\ nd[lk.tail].spin = UNLOCKED
          /\ {lk.tail} \cup {lk.current[t] : t \in Threads} = Threads \cup {NULL}
      BY <1>7, FreeClh
    <2> QED
      BY <1>7, <2>1 DEF Free, TasAlgos, McsAlgos, ClhAlgos, McsTpAlgos, MalthusianAlgos
  <1>8. CASE algo \in MalthusianAlgos /\ MalthusianInv
    <2>1. lk = [tail |-> NULL, passive |-> <<>>]
      BY <1>8, FreeMalthusian
    <2> QED
      BY <1>8, <2>1 DEF Free, TasAlgos, McsAlgos, ClhAlgos, McsTpAlgos, MalthusianAlgos
  <1> QED
    BY <1>1, <1>2, <1>3, <1>4, <1>5, <1>6, <1>7, <1>8, Zenon DEF AlgoInv

LEMMA Stutters ==
  ASSUME IInv, UNCHANGED vars
  PROVE  IInv' /\ UNCHANGED CV!vars /\ \A t \in Threads : ~Granted(t)
  <1>1. algo' = algo /\ order' = order /\ lk' = lk /\ nd' = nd /\ loc' = loc /\ pc' = pc
        /\ posix_lock' = posix_lock /\ inWait' = inWait
    BY DEF vars, apiVars, mem
  <1>2. ApiInv' <=> ApiInv
    BY <1>1 DEF ApiInv, PcType
  <1>3. /\ \A t : (Hold(t)' <=> Hold(t)) /\ (Enqueued(t)' <=> Enqueued(t))
        /\ OneHolder' <=> OneHolder
    BY <1>1 DEF Hold, Enqueued, OneHolder
  <1>4. Held' = Held
    BY <1>3 DEF Held
  <1>5. OrderInv' <=> OrderInv
    BY <1>1, <1>3 DEF OrderInv
  <1>6. /\ TasInv' <=> TasInv
        /\ MutexeeInv' <=> MutexeeInv
    BY <1>1, <1>3 DEF TasInv, HeldWord, MutexeeInv
  <1>7. TicketInv' <=> TicketInv
    BY <1>1, <1>3, <1>4, <1>5 DEF TicketInv, NextTicket
  <1>8. ArrayInv' <=> ArrayInv
    <2>1. \A b : ArrayAt(b)' <=> ArrayAt(b)
      BY <1>1, <1>3, <1>4 DEF ArrayAt
    <2> QED
      BY <1>1, <1>3, <1>4, <1>5, <2>1 DEF ArrayInv
  <1>9. PtlInv' <=> PtlInv
    <2>1. \A g : PtlAt(g)' <=> PtlAt(g)
      BY <1>1, <1>3, <1>4 DEF PtlAt, PtlWaits
    <2>2. \A t : Needs(t)' <=> Needs(t)
      BY <1>1 DEF Needs
    <2>3. Needing' = Needing
      BY <2>2 DEF Needing
    <2>4. PtlBudget' <=> PtlBudget
      BY <1>1, <2>3 DEF PtlBudget
    <2> QED
      BY <1>1, <1>3, <1>5, <2>1, <2>4 DEF PtlInv
  <1>10. \A s, X : LineInv(s, X)' <=> LineInv(s, X)
    BY <1>1, <1>3, <1>4 DEF LineInv
  <1>11. \A s, X : ChainInv(s, X)' <=> ChainInv(s, X)
    <2>1. /\ \A u, v : Linked(u, v)' <=> Linked(u, v)
          /\ \A s, X : GraftInv(s, X)' <=> GraftInv(s, X)
          /\ ChainType' <=> ChainType
      BY <1>1 DEF Linked, GraftInv, ChainType
    <2> QED
      BY <1>1, <1>3, <1>10, <2>1 DEF ChainInv
  <1>12. McsInv' <=> McsInv
    BY <1>1, <1>11 DEF McsInv
  <1>13. \A s, x : ClhInv(s, x)' <=> ClhInv(s, x)
    <2>1. \A u : Node(u)' = Node(u)
      BY <1>1, <1>3 DEF Node
    <2>2. /\ ClhType' <=> ClhType
          /\ \A x : ClhOwn(x)' <=> ClhOwn(x)
      BY <1>1 DEF ClhType, ClhOwn
    <2> QED
      BY <1>1, <1>3, <1>10, <2>1, <2>2 DEF ClhInv
  <1>14. MalthusianInv' <=> MalthusianInv
    <2>1. \A v : Aside(v)' <=> Aside(v)
      BY <1>1 DEF Aside
    <2> QED
      BY <1>1, <1>11, <2>1 DEF MalthusianInv
  <1>15. AlgoInv' <=> AlgoInv
    BY <1>1, <1>6, <1>7, <1>8, <1>9, <1>12, <1>13, <1>14 DEF AlgoInv
  <1>16. AbsPc' = AbsPc
    BY <1>1 DEF AbsPc, After
  <1>17. UNCHANGED CV!vars
    <2>1. Holders' = Holders
      BY <1>16 DEF Holders
    <2>2. Holder' = Holder
      BY <2>1 DEF Holder
    <2> QED
      BY <1>1, <1>16, <2>2 DEF CV!vars
  <1>18. \A t \in Threads : ~Granted(t)
    BY <1>1 DEF Granted
  <1> QED
    BY <1>2, <1>15, <1>17, <1>18 DEF IInv

\* A step grants the lock to nobody but the thread that makes it.
LEMMA GrantsItself ==
  ASSUME IInv, NEW t \in Threads, ThreadStep(t), NEW u \in Threads \ {t}
  PROVE  ~Granted(u)
  <1>1. Allowed(t) \/ Wrapped(t)
    BY AlgoSteps
  <1>2. CASE Allowed(t)
    <2>1. ~LockPc("posix")
      BY DEF LockPc, WrapperPcs
    <2> QED
      BY <1>2, <2>1 DEF Allowed, Granted
  <1>3. CASE Wrapped(t)
    <2>1. Around(u)
      BY <1>3, OneAtATime, WrappedStep DEF IInv
    <2> QED
      BY <2>1 DEF Around, RestPcs, Granted
  <1> QED
    BY <1>1, <1>2, <1>3

LEMMA NextSteps ==
  ASSUME IInv, [Next]_vars
  PROVE  /\ IInv' /\ [CV!Next]_(CV!vars)
         /\ \A t \in Threads : Granted(t) => t = Head(Joined(t))
  <1>1. CASE Next
    <2>1. PICK t \in Threads : ThreadStep(t)
      BY <1>1 DEF Next
    <2>2. IInv' /\ [CV!Next]_(CV!vars) /\ InTurn(t)
      BY <2>1, ThreadSteps
    <2>3. \A u \in Threads \ {t} : ~Granted(u)
      BY <2>1, GrantsItself
    <2> QED
      BY <2>2, <2>3 DEF InTurn
  <1>2. CASE UNCHANGED vars
    BY <1>2, Stutters
  <1> QED
    BY <1>1, <1>2


\* Mutual exclusion of the flat locks, from their lock words and queues alone: for
\* any number of threads each covered algorithm of ulocks acquires before the real
\* mutex, releases in mutex_unlock or cond_wait and is never held by two, so that
\* the condition-variable code around it is the one that CondVar describes.
THEOREM FlatLocksCorrect == FairSpec /\ Covered => ImplementsCondVar
  <1>1. Init /\ Covered => IInv /\ CV!Init
    BY Initially
  <1>2. IInv /\ [Next]_vars => IInv' /\ [CV!Next]_(CV!vars)
    BY NextSteps
  <1> QED
    BY <1>1, <1>2, PTL DEF FairSpec, ImplementsCondVar, CV!Spec

\* mutex_lock of the MCS, CLH, ticket, array and partitioned locks grants in the
\* order of the swaps or tickets, whatever trylocks and cond_waits come between.
THEOREM FlatLocksFifo == FairSpec /\ Covered => FifoOrder
  <1>1. Init /\ Covered => IInv
    BY Initially
  <1>2. IInv /\ [Next]_vars => IInv'
    BY NextSteps
  <1>3. IInv /\ [Next]_vars => [\A t \in Threads : Granted(t) => t = Head(Joined(t))]_vars
    BY NextSteps
  <1> QED
    BY <1>1, <1>2, <1>3, PTL DEF FairSpec, FifoOrder

\* A lock of theirs that nobody uses is free: no node is left in a queue, in
\* Malthusian's passive set or with two CLH owners, no ticket is lost and no slot of
\* the array is open but the next one.
THEOREM FlatLocksFree == FairSpec /\ Covered => []FreeWhenUnused
  <1>1. Init /\ Covered => IInv
    BY Initially
  <1>2. IInv /\ [Next]_vars => IInv'
    BY NextSteps
  <1>3. IInv => FreeWhenUnused
    <2> SUFFICES ASSUME IInv, \A t \in Threads :
                          pc[t] \in ReleasedPcs \cup {"idle", "condwait", "waiting", "woken", "unwait"}
                 PROVE  Free
      BY DEF FreeWhenUnused
    <2>1. Unused
      BY DEF Unused, RestPcs
    <2> QED
      BY <2>1, FreeLocks DEF IInv
  <1> QED
    BY <1>1, <1>2, <1>3, PTL DEF FairSpec
=============================================================================
