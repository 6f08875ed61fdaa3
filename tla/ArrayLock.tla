------------------------------ MODULE ArrayLock ------------------------------
(***************************************************************************)
(* alockepfl.c, Anderson's array lock: slot i of flags is UNLOCKED for the *)
(* thread whose turn it is.  nd[t] is my_index of t's context.  tail is    *)
(* kept modulo Slots (MAX_THREADS_SUPPORTED divides 2^32).  The memory of  *)
(* the lock comes from posix_memalign and only flags[0] is initialised:    *)
(* the other flags are what the memory held, all LOCKED (0) if it is fresh *)
(* and anything if it has been used before (Recycled).                     *)
(***************************************************************************)
EXTENDS LockApi

CONSTANTS Slots, Recycled

alockepfl_mutex_create ==
  \E flags \in [0 .. Slots - 1 -> IF Recycled THEN {LOCKED, UNLOCKED} ELSE {LOCKED}] :
    lk = [tail |-> 0, flags |-> [flags EXCEPT ![0] = UNLOCKED]]

Init ==
  /\ ApiInit /\ alockepfl_mutex_create
  /\ nd = [t \in Threads |-> 0]
  /\ loc = [t \in Threads |-> NULL]

\* Whoever has read tail for a trylock, and not used it yet, has an old value.
TakeSlot(t) ==
  /\ lk' = [lk EXCEPT !.tail = (@ + 1) % Slots]
  /\ nd' = [nd EXCEPT ![t] = lk.tail]
  /\ loc' = [u \in Threads |-> NULL]

Enqueue(t) == Step(t, "lock", "spin") /\ TakeSlot(t)

AwaitFlag(t) == lk.flags[nd[t]] # LOCKED /\ Read(t, "spin", "posix")

alockepfl_mutex_lock(t) == Enqueue(t) \/ AwaitFlag(t) \/ PosixLock(t)

TryRead(t) ==
  /\ Step(t, "idle", "try")
  /\ loc' = [loc EXCEPT ![t] = lk.tail]
  /\ UNCHANGED <<lk, nd>>

\* An old value can only end in EBUSY.
TryFlag(t) ==
  LET open == loc[t] # NULL /\ lk.flags[loc[t]] = UNLOCKED
  IN  /\ Step(t, "try", IF open THEN "trycas" ELSE "idle")
      /\ loc' = [loc EXCEPT ![t] = IF open THEN @ ELSE NULL]
      /\ UNCHANGED <<lk, nd>>

\* The compare-and-swap fails when tail has moved since it was read.
TryCas(t) ==
  \/ loc[t] # NULL /\ Step(t, "trycas", "tryposix") /\ TakeSlot(t)
  \/ loc[t] = NULL /\ Read(t, "trycas", "idle")

alockepfl_mutex_trylock(t) == TryRead(t) \/ TryFlag(t) \/ TryCas(t) \/ PosixTryLock(t)

SetFlag(i, v) == lk' = [lk EXCEPT !.flags[i] = v] /\ UNCHANGED <<nd, loc>>

\* MUTANT: the slot is left open for the thread that gets it next.
CloseSlot_LeftOpen(t) == Read(t, "unlock", "handover")

CloseSlot(t) == Step(t, "unlock", "handover") /\ SetFlag(nd[t], LOCKED)

OpenNext(t) ==
  Step(t, "handover", After(t)) /\ SetFlag((nd[t] + 1) % Slots, UNLOCKED)

alockepfl_mutex_unlock(t) == PosixUnlock(t) \/ CloseSlot(t) \/ OpenNext(t)

alockepfl_cond_timedwait(t) == CondTimedwait(t)

alockepfl(t) ==
  \/ CallLock(t) \/ alockepfl_mutex_lock(t) \/ alockepfl_mutex_trylock(t)
  \/ alockepfl_mutex_unlock(t) \/ alockepfl_cond_timedwait(t)
=============================================================================
