-------------------------------- MODULE Rwsem --------------------------------
(***************************************************************************)
(* The kernel's rw_semaphore, rwsem.c in klocks/shfllocks.patch.  cnts     *)
(* holds a writer's byte and, above it, the number of readers.  A reader   *)
(* announces itself first and withdraws if there is a writer; the slow     *)
(* paths of both go through wait_lock, a blocking ShflLock, which is taken *)
(* here for what Aqm shows it to be: a lock with one owner, which those    *)
(* who wait for it get in no fixed order.                                  *)
(***************************************************************************)
EXTENDS LockApi

Init ==
  /\ ApiInit
  /\ lk = [wlocked |-> FALSE, readers |-> 0, wait_lock |-> NULL]
  /\ nd = NULL /\ loc = [t \in Threads |-> NULL]

Unlocked == ~lk.wlocked /\ lk.readers = 0   \* cnts = 0

rwmutex_lock(t, from, to) ==
  /\ lk.wait_lock = NULL
  /\ Step(t, from, to)
  /\ lk' = [lk EXCEPT !.wait_lock = t]
  /\ UNCHANGED <<nd, loc>>

rwmutex_unlock(t, from, to) ==
  /\ Step(t, from, to)
  /\ lk' = [lk EXCEPT !.wait_lock = NULL]
  /\ UNCHANGED <<nd, loc>>

\* RWAQM_R_BIAS is added to or taken from cnts.
Bias(t, by, from, to) ==
  /\ Step(t, from, to)
  /\ lk' = [lk EXCEPT !.readers = @ + by]
  /\ UNCHANGED <<nd, loc>>

\* The compare-and-swap of cnts from 0 to RWAQM_W_LOCKED.
WriterCas(t, from, to, busy) ==
  /\ Step(t, from, IF Unlocked THEN to ELSE busy)
  /\ lk' = [lk EXCEPT !.wlocked = @ \/ Unlocked]
  /\ UNCHANGED <<nd, loc>>

-----------------------------------------------------------------------------
\* The mutex is held while the reader, announced again, waits for the writer.
aqm_read_lock_slowpath(t) ==
  \/ Bias(t, -1, "rdsub", "rdmutex") \/ rwmutex_lock(t, "rdmutex", "rdadd")
  \/ Bias(t, 1, "rdadd", "rdwait") \/ (~lk.wlocked /\ Read(t, "rdwait", "rdmunlock"))
  \/ rwmutex_unlock(t, "rdmunlock", "rd")

down_read(t) ==
  Bias(t, 1, "rdlock", IF lk.wlocked THEN "rdsub" ELSE "rd") \/ aqm_read_lock_slowpath(t)

down_read_trylock(t) ==
  \/ ~lk.wlocked /\ Read(t, "idle", "tryadd")
  \/ Bias(t, 1, "tryadd", IF lk.wlocked THEN "trysub" ELSE "rd") \/ Bias(t, -1, "trysub", "idle")

\* The mutex is held while the writer waits for the readers.
aqm_write_lock_slowpath(t) ==
  \/ rwmutex_lock(t, "wrmutex", "wrread") \/ (Unlocked /\ Read(t, "wrread", "wrcas"))
  \/ WriterCas(t, "wrcas", "wrmunlock", "wrread") \/ rwmutex_unlock(t, "wrmunlock", "wr")

down_write(t) == WriterCas(t, "lock", "wr", "wrmutex") \/ aqm_write_lock_slowpath(t)

down_write_trylock(t) ==
  (Unlocked /\ Read(t, "idle", "trywcas")) \/ WriterCas(t, "trywcas", "wr", "idle")

up_read(t) == Bias(t, -1, "rd", "idle")

up_write(t, from, to) ==
  /\ Step(t, from, to)
  /\ lk' = [lk EXCEPT !.wlocked = FALSE]
  /\ UNCHANGED <<nd, loc>>

\* Counted as a reader before the writer's byte is cleared.
downgrade_write(t) == Bias(t, 1, "wr", "downgrade") \/ up_write(t, "downgrade", "rd")

rwsem(t) ==
  \/ CallLock(t) \/ Read(t, "idle", "rdlock")
  \/ down_read(t) \/ down_read_trylock(t) \/ down_write(t) \/ down_write_trylock(t)
  \/ up_read(t) \/ up_write(t, "wr", "idle") \/ downgrade_write(t)
=============================================================================
