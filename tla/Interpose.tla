------------------------------ MODULE Interpose ------------------------------
(***************************************************************************)
(* interpose.c: the pthread functions the library puts in front of the     *)
(* real ones.  A hash table maps the address of a pthread lock to the lock *)
(* that stands for it, made when the lock is initialised or first used.    *)
(* Spin locks are treated like mutexes; reader-writer locks get a          *)
(* reader-writer lock in the TTASRW and HMCSRW builds and a mutex in all   *)
(* others.  The algorithms are taken for what the other modules show them  *)
(* to be: a lock with one owner, or with many readers.                     *)
(***************************************************************************)
EXTENDS Naturals, FiniteSets

CONSTANTS
  Threads, Main,      \* the threads, and the one the program starts with
  Mutexes, RwLocks,   \* the addresses of pthread mutexes or spin locks and of rwlocks
  Impls,              \* the memory for locks
  MAX_THREADS,        \* how many threads can ever be started
  NULL

Locks == Mutexes \cup RwLocks

ASSUME InterposeAssumption ==
  /\ Main \in Threads
  /\ Mutexes \cap RwLocks = {}
  /\ MAX_THREADS \in Nat \ {0}
  /\ IsFiniteSet(Threads) /\ IsFiniteSet(Locks)
  /\ Cardinality(Impls) >= Cardinality(Threads) + Cardinality(Locks)
  /\ NULL \notin Threads \cup Locks \cup Impls

VARIABLES
  build,              \* which locks the library was built with: "mutex" or "rw"
  pthread_to_lock,    \* the hash table
  allocated,          \* the Impls in use
  readers, owner,     \* of each Impl: who has the lock
  real,               \* of each rwlock: how the real one is locked
  last_thread_id,
  cur_thread_id,      \* of each thread, NULL when it does not run
  pc,
  call,               \* of each thread: the pthread function, the lock and its Impl
  held,               \* of each thread: the locks it has acquired, and how, as it knows
  exited              \* the process has given up

vars == <<build, pthread_to_lock, allocated, readers, owner, real, last_thread_id,
          cur_thread_id, pc, call, held, exited>>

NoCall == [fn |-> "none", l |-> NULL, impl |-> NULL]

\* Before the constructor no thread has an id and no lock an entry.
Init ==
  /\ build \in {"mutex", "rw"}
  /\ pthread_to_lock = [l \in Locks |-> NULL] /\ allocated = {}
  /\ readers = [k \in Impls |-> {}] /\ owner = [k \in Impls |-> NULL]
  /\ real = [l \in RwLocks |-> "free"]
  /\ last_thread_id = 0 /\ cur_thread_id = [t \in Threads |-> NULL]
  /\ pc = [t \in Threads |-> IF t = Main THEN "load" ELSE "none"]
  /\ call = [t \in Threads |-> NoCall] /\ held = [t \in Threads |-> {}]
  /\ exited = FALSE

memory == <<pthread_to_lock, allocated, readers, owner, real>>
threads == <<last_thread_id, cur_thread_id, exited>>

-----------------------------------------------------------------------------
(* Threads.  An id is drawn once and never given back.                      *)

\* MUTANT: the limit is an id too far.
TakeId_TooFar(t) ==
  IF last_thread_id > MAX_THREADS
  THEN exited' = TRUE /\ UNCHANGED <<cur_thread_id, pc>> /\ last_thread_id' = last_thread_id + 1
  ELSE /\ cur_thread_id' = [cur_thread_id EXCEPT ![t] = last_thread_id]
       /\ last_thread_id' = last_thread_id + 1
       /\ pc' = [pc EXCEPT ![t] = "idle"]
       /\ UNCHANGED exited

TakeId(t) ==
  IF last_thread_id >= MAX_THREADS
  THEN exited' = TRUE /\ UNCHANGED <<cur_thread_id, pc>> /\ last_thread_id' = last_thread_id + 1
  ELSE /\ cur_thread_id' = [cur_thread_id EXCEPT ![t] = last_thread_id]
       /\ last_thread_id' = last_thread_id + 1
       /\ pc' = [pc EXCEPT ![t] = "idle"]
       /\ UNCHANGED exited

interpose_init == pc[Main] = "load" /\ TakeId(Main) /\ UNCHANGED <<build, memory, call, held>>

pthread_create(t, u) ==
  /\ pc[t] = "idle" /\ pc[u] = "none"
  /\ pc' = [pc EXCEPT ![u] = "start"]
  /\ UNCHANGED <<build, memory, threads, call, held>>

lp_start_routine(t) == pc[t] = "start" /\ TakeId(t) /\ UNCHANGED <<build, memory, call, held>>

\* The routine returns; the same thread structure may serve another thread.
ThreadReturns(t) ==
  /\ t # Main /\ pc[t] = "idle" /\ held[t] = {}
  /\ pc' = [pc EXCEPT ![t] = "none"]
  /\ cur_thread_id' = [cur_thread_id EXCEPT ![t] = NULL]
  /\ UNCHANGED <<build, memory, last_thread_id, exited, call, held>>

-----------------------------------------------------------------------------
(* The lookup every function starts with.                                   *)

Goto(t, label) == pc' = [pc EXCEPT ![t] = label]

Has(t, l) == \E mode \in {"rd", "wr"} : <<l, mode>> \in held[t]

\* How a function acquires its lock.
Mode(fn) == IF fn \in {"rdlock", "tryrdlock"} THEN "rd" ELSE "wr"

\* A program initialises or destroys a lock only while no one else uses it.
Unused(l) == \A u \in Threads : ~Has(u, l) /\ call[u].l # l

Call(t, fn, l) ==
  /\ pc[t] = "idle"
  /\ CASE fn \in {"unlock", "rwunlock", "cond_wait"} -> Has(t, l)
       [] fn \in {"init", "destroy"} -> Unused(l)
       [] OTHER -> ~Has(t, l)
  /\ \A u \in Threads : call[u].l = l => call[u].fn \notin {"init", "destroy"}
  /\ call' = [call EXCEPT ![t] = [fn |-> fn, l |-> l, impl |-> NULL]]
  /\ Goto(t, CASE fn = "init" -> "create" [] fn = "destroy" -> "remove"
               [] build = "mutex" /\ fn \in {"tryrdlock", "trywrlock"} -> "real" [] OTHER -> "get")
  /\ UNCHANGED <<build, memory, threads, held>>

\* Where a call goes on when it has its Impl.
Found(t) == IF call[t].fn = "init" THEN "return" ELSE "locked"

ht_lock_get(t) ==
  /\ pc[t] = "get"
  /\ LET k == pthread_to_lock[call[t].l]
     IN  /\ call' = [call EXCEPT ![t].impl = k]
         /\ Goto(t, IF k = NULL THEN "create" ELSE Found(t))
  /\ UNCHANGED <<build, memory, threads, held>>

\* The first half of ht_lock_create.
CreateImpl(t) ==
  /\ pc[t] = "create"
  /\ LET k == CHOOSE k \in Impls \ allocated : TRUE
     IN  /\ allocated' = allocated \cup {k}
         /\ owner' = [owner EXCEPT ![k] = NULL] /\ readers' = [readers EXCEPT ![k] = {}]
         /\ call' = [call EXCEPT ![t].impl = k]
  /\ Goto(t, "put")
  /\ UNCHANGED <<build, pthread_to_lock, real, threads, held>>

\* MUTANT: the result of clht_put is not looked at.
PutImpl_Unchecked(t) ==
  /\ pc[t] = "put"
  /\ pthread_to_lock' = [pthread_to_lock EXCEPT ![call[t].l] = IF @ = NULL THEN call[t].impl ELSE @]
  /\ Goto(t, Found(t))
  /\ UNCHANGED <<build, allocated, readers, owner, real, threads, call, held>>

\* Only the first of several calls of clht_put succeeds.
PutImpl(t) ==
  /\ pc[t] = "put"
  /\ IF pthread_to_lock[call[t].l] = NULL
     THEN /\ pthread_to_lock' = [pthread_to_lock EXCEPT ![call[t].l] = call[t].impl]
          /\ Goto(t, Found(t))
          /\ UNCHANGED <<allocated, call>>
     ELSE /\ allocated' = allocated \ {call[t].impl}
          /\ call' = [call EXCEPT ![t].impl = NULL]
          /\ Goto(t, "get2")
          /\ UNCHANGED pthread_to_lock
  /\ UNCHANGED <<build, readers, owner, real, threads, held>>

GetAfterPut(t) ==
  /\ pc[t] = "get2"
  /\ call' = [call EXCEPT ![t].impl = pthread_to_lock[call[t].l]]
  /\ Goto(t, Found(t))
  /\ UNCHANGED <<build, memory, threads, held>>

ht_lock_create(t) == CreateImpl(t) \/ PutImpl(t) \/ GetAfterPut(t)

-----------------------------------------------------------------------------
(* The calls of the algorithm.                                              *)

Return(t) == Goto(t, "idle") /\ call' = [call EXCEPT ![t] = NoCall]

ReturnsFrom(t, fns) == pc[t] = "locked" /\ call[t].fn \in fns /\ Return(t)

Shared(t) == build = "rw" /\ Mode(call[t].fn) = "rd"

Free(t) == owner[call[t].impl] = NULL /\ (Shared(t) \/ readers[call[t].impl] = {})

Acquire(t) ==
  /\ Free(t)
  /\ IF Shared(t)
     THEN readers' = [readers EXCEPT ![call[t].impl] = @ \cup {t}] /\ UNCHANGED owner
     ELSE owner' = [owner EXCEPT ![call[t].impl] = t] /\ UNCHANGED readers
  /\ held' = [held EXCEPT ![t] = @ \cup {<<call[t].l, Mode(call[t].fn)>>}]

Others == <<build, pthread_to_lock, allocated, threads>>

Locked(t, fn) == ReturnsFrom(t, {fn}) /\ Acquire(t) /\ UNCHANGED <<Others, real>>

Tried(t, fn) ==
  /\ ReturnsFrom(t, {fn})
  /\ Acquire(t) \/ (~Free(t) /\ UNCHANGED <<readers, owner, held>>)
  /\ UNCHANGED <<Others, real>>

pthread_mutex_lock(t) == Locked(t, "lock")
pthread_mutex_trylock(t) == Tried(t, "trylock")
pthread_rwlock_rdlock(t) == Locked(t, "rdlock")
pthread_rwlock_wrlock(t) == Locked(t, "wrlock")
pthread_rwlock_tryrdlock(t) == Tried(t, "tryrdlock")
pthread_rwlock_trywrlock(t) == Tried(t, "trywrlock")

\* The algorithms do not ask who unlocks.
Release(t, k) ==
  IF t \in readers[k] THEN readers' = [readers EXCEPT ![k] = @ \ {t}] /\ UNCHANGED owner
  ELSE owner' = [owner EXCEPT ![k] = NULL] /\ UNCHANGED readers

Unlocked(t, fn) ==
  /\ ReturnsFrom(t, {fn}) /\ Release(t, call[t].impl)
  /\ held' = [held EXCEPT ![t] = @ \ ({call[t].l} \X {"rd", "wr"})]
  /\ UNCHANGED <<Others, real>>

pthread_mutex_unlock(t) == Unlocked(t, "unlock")
pthread_rwlock_unlock(t) == Unlocked(t, "rwunlock")

\* lock_cond_wait gives up the lock and takes it again.
pthread_cond_wait(t) ==
  /\ pc[t] = "locked" /\ call[t].fn = "cond_wait"
  /\ Release(t, call[t].impl)
  /\ held' = [held EXCEPT ![t] = @ \ ({call[t].l} \X {"rd", "wr"})]
  /\ call' = [call EXCEPT ![t].fn = "lock"]
  /\ UNCHANGED <<Others, real, pc>>

Initialised(t, addresses) ==
  /\ pc[t] = "return" /\ call[t].l \in addresses /\ Return(t)
  /\ UNCHANGED <<build, memory, threads, held>>

pthread_mutex_init(t) == Initialised(t, Mutexes)
pthread_rwlock_init(t) == Initialised(t, RwLocks)

Destroyed(t, addresses) ==
  /\ pc[t] = "remove" /\ call[t].l \in addresses /\ Return(t)
  /\ pthread_to_lock' = [pthread_to_lock EXCEPT ![call[t].l] = NULL]
  /\ allocated' = allocated \ {pthread_to_lock[call[t].l]}
  /\ UNCHANGED <<build, readers, owner, real, threads, held>>

pthread_mutex_destroy(t) == Destroyed(t, Mutexes)
pthread_rwlock_destroy(t) == Destroyed(t, RwLocks)

\* In the builds without reader-writer locks the library's functions are called
\* pthread_rwlock_rdtrylock and pthread_rwlock_wrtrylock: the program's calls of
\* tryrdlock and trywrlock go to the real lock, which the other functions do not
\* lock and pthread_rwlock_unlock does not unlock.
RealTry(t) ==
  /\ pc[t] = "real" /\ Return(t)
  /\ LET l == call[t].l
         mode == Mode(call[t].fn)
         free == real[l] = "free" \/ {real[l], mode} = {"rd"}
     IN  /\ real' = [real EXCEPT ![l] = IF free THEN mode ELSE @]
         /\ held' = [held EXCEPT ![t] = IF free THEN @ \cup {<<l, mode>>} ELSE @]
  /\ UNCHANGED <<Others, readers, owner>>

Fns(l) ==
  {"init", "destroy"} \cup
  IF l \in Mutexes THEN {"lock", "trylock", "unlock", "cond_wait"}
                   ELSE {"rdlock", "wrlock", "tryrdlock", "trywrlock", "rwunlock"}

ThreadStep(t) ==
  \/ (\E u \in Threads : pthread_create(t, u)) \/ lp_start_routine(t) \/ ThreadReturns(t)
  \/ \E l \in Locks : \E fn \in Fns(l) : Call(t, fn, l)
  \/ ht_lock_get(t) \/ ht_lock_create(t)
  \/ pthread_mutex_lock(t) \/ pthread_mutex_trylock(t) \/ pthread_mutex_unlock(t)
  \/ pthread_rwlock_rdlock(t) \/ pthread_rwlock_wrlock(t) \/ pthread_rwlock_tryrdlock(t)
  \/ pthread_rwlock_trywrlock(t) \/ pthread_rwlock_unlock(t) \/ RealTry(t) \/ pthread_cond_wait(t)
  \/ pthread_mutex_init(t) \/ pthread_mutex_destroy(t)
  \/ pthread_rwlock_init(t) \/ pthread_rwlock_destroy(t)

Next == ~exited /\ (interpose_init \/ \E t \in Threads : ThreadStep(t))

Spec == Init /\ [][Next]_vars

-----------------------------------------------------------------------------
(* Properties *)

Exclusive(l) == \A t, u \in Threads : <<l, "wr">> \in held[t] /\ Has(u, l) => t = u

\* However many threads use a lock for the first time together, and however often
\* it is destroyed and made again, whoever has it, other than for reading, has it
\* alone.
LockExclusion == \A l \in Locks : l \in Mutexes \/ build = "rw" => Exclusive(l)

\* The Impl a thread has found stays the one the lock's address leads to, and is
\* not freed, until its call returns; and who has a lock finds the one to unlock.
ImplStable ==
  /\ \A t \in Threads : pc[t] = "locked" =>
       call[t].impl \in allocated /\ pthread_to_lock[call[t].l] = call[t].impl
  /\ \A t \in Threads, l \in Mutexes : Has(t, l) =>
       pthread_to_lock[l] # NULL /\ owner[pthread_to_lock[l]] = t

\* Two running threads never use the same context of a lock, which their ids
\* choose, and no id is beyond the contexts there are.
ContextsDistinct ==
  \A t, u \in Threads :
    cur_thread_id[t] # NULL =>
      cur_thread_id[t] < MAX_THREADS /\ (t # u => cur_thread_id[t] # cur_thread_id[u])

\* The same for reader-writer locks, whatever the build.
RwExclusion == \A l \in RwLocks : Exclusive(l)
==============================================================================
