---------------------------- MODULE InterposeProof ----------------------------
(***************************************************************************)
(* Theorems about Interpose for any number of threads, locks and thread    *)
(* ids: who has a lock has it alone, a call in progress keeps the Impl it  *)
(* has found, and no two threads share a context.                          *)
(***************************************************************************)
EXTENDS Interpose, FiniteSetTheorems, TLAPS

Pcs == {"load", "none", "start", "idle", "get", "create", "put", "get2", "locked", "return",
        "remove", "real"}

\* The program points inside a call.
CallPcs == {"get", "create", "put", "get2", "locked", "return", "remove", "real"}

Modes == {"rd", "wr"}

AllFns == UNION {Fns(l) : l \in Locks}

CallRec == [fn : AllFns \cup {"none"}, l : Locks \cup {NULL}, impl : Impls \cup {NULL}]

TypeInv ==
  /\ build \in {"mutex", "rw"}
  /\ pthread_to_lock \in [Locks -> Impls \cup {NULL}]
  /\ allocated \in SUBSET Impls
  /\ readers \in [Impls -> SUBSET Threads]
  /\ owner \in [Impls -> Threads \cup {NULL}]
  /\ last_thread_id \in Nat
  /\ pc \in [Threads -> Pcs]
  /\ call \in [Threads -> CallRec]
  /\ held \in [Threads -> SUBSET (Locks \X Modes)]
  /\ DOMAIN cur_thread_id = Threads

\* Ids are drawn from a counter that is never set back.
IdInv ==
  \A t \in Threads : cur_thread_id[t] # NULL =>
    /\ cur_thread_id[t] \in Nat /\ cur_thread_id[t] < last_thread_id
    /\ cur_thread_id[t] < MAX_THREADS
    /\ \A u \in Threads : t # u => cur_thread_id[t] # cur_thread_id[u]

\* What is known of a call at its program points.
CallInv ==
  \A t \in Threads :
    /\ pc[t] \in CallPcs => call[t].l \in Locks /\ call[t].fn \in Fns(call[t].l)
    /\ pc[t] \notin CallPcs => call[t] = NoCall
    /\ pc[t] \in {"get", "locked", "real"} => call[t].fn \notin {"init", "destroy"}
    /\ pc[t] \in {"create", "put", "get2"} => call[t].fn # "destroy"
    /\ pc[t] = "real" => build = "mutex" /\ call[t].l \in RwLocks
    /\ pc[t] = "return" => call[t].fn = "init"
    /\ pc[t] = "remove" => call[t].fn = "destroy"

\* A lock is initialised or destroyed by one thread while nobody else uses it.
AloneInv ==
  \A t \in Threads : call[t].fn \in {"init", "destroy"} =>
    \A u \in Threads : ~Has(u, call[t].l) /\ (u # t => call[u].l # call[t].l)

\* The table leads different locks to different allocated Impls, and an Impl that
\* is about to be put into it is in nobody else's hands.
TableInv ==
  /\ \A l \in Locks : pthread_to_lock[l] # NULL => pthread_to_lock[l] \in allocated
  /\ \A l, m \in Locks : pthread_to_lock[l] = pthread_to_lock[m] /\ pthread_to_lock[l] # NULL => l = m
  /\ \A t \in Threads : pc[t] = "put" =>
       /\ call[t].impl \in allocated
       /\ owner[call[t].impl] = NULL /\ readers[call[t].impl] = {}
       /\ \A l \in Locks : pthread_to_lock[l] # call[t].impl
       /\ \A u \in Threads : u # t /\ pc[u] = "put" => call[u].impl # call[t].impl
  /\ \A t \in Threads : pc[t] = "get2" => pthread_to_lock[call[t].l] # NULL
  /\ \A t \in Threads : pc[t] = "locked" =>
       call[t].impl # NULL /\ pthread_to_lock[call[t].l] = call[t].impl

\* Every allocated Impl is accounted for.
AllocInv ==
  allocated \subseteq {pthread_to_lock[l] : l \in Locks}
                      \cup {call[t].impl : t \in {u \in Threads : pc[u] = "put"}}

\* The locks that the library stands for with every function.
Sound(l) == l \in Mutexes \/ build = "rw"

\* Who has a lock has its Impl in the same mode, and the Impl excludes.
HeldInv ==
  /\ \A k \in Impls : owner[k] # NULL => readers[k] = {}
  /\ \A t \in Threads, l \in Mutexes : <<l, "rd">> \notin held[t]
  /\ \A t \in Threads, l \in Locks : Sound(l) /\ <<l, "wr">> \in held[t] =>
       pthread_to_lock[l] # NULL /\ owner[pthread_to_lock[l]] = t
  /\ \A t \in Threads, l \in Locks : Sound(l) /\ <<l, "rd">> \in held[t] =>
       pthread_to_lock[l] # NULL /\ t \in readers[pthread_to_lock[l]]
  /\ \A t \in Threads : call[t].fn \in {"unlock", "rwunlock", "cond_wait"} => Has(t, call[t].l)

IInv == TypeInv /\ IdInv /\ CallInv /\ AloneInv /\ TableInv /\ AllocInv /\ HeldInv
-----------------------------------------------------------------------------
(* Lemmas about a step of one thread.                                        *)

\* t's call becomes r and t goes to l; the other threads' calls stay.
LEMMA CallUpdate ==
  ASSUME TypeInv, NEW t \in Threads, NEW r \in CallRec, NEW l \in Pcs,
         call' = [call EXCEPT ![t] = r], pc' = [pc EXCEPT ![t] = l]
  PROVE  /\ call' \in [Threads -> CallRec] /\ call'[t] = r
         /\ pc' \in [Threads -> Pcs] /\ pc'[t] = l
         /\ \A u \in Threads \ {t} : call'[u] = call[u] /\ pc'[u] = pc[u]
  BY DEF TypeInv

\* What a thread between calls looks like.
LEMMA NoCallType == NoCall \in CallRec /\ NoCall.l = NULL /\ NoCall.fn = "none" /\ NoCall.impl = NULL
  BY DEF NoCall, CallRec

\* No lock is NULL, nor any Impl.
LEMMA NoNull == NULL \notin Locks /\ NULL \notin Impls /\ NULL \notin Threads
  BY InterposeAssumption DEF Locks

\* A step that changes only calls keeps what is said about Impls and ids.
LEMMA IdKept ==
  ASSUME IdInv, UNCHANGED <<cur_thread_id, last_thread_id>>
  PROVE  IdInv'
  BY DEF IdInv

\* A call that is about an initialisation or a destruction is about a lock.
LEMMA InitOnLock ==
  ASSUME CallInv, NEW t \in Threads, call[t].fn \in {"init", "destroy"}
  PROVE  call[t].l \in Locks
  BY NoCallType DEF CallInv

\* A function returns.
LEMMA ReturnKeeps ==
  ASSUME TypeInv, CallInv, NEW t \in Threads, Return(t), UNCHANGED build
  PROVE  /\ call' \in [Threads -> CallRec] /\ pc' \in [Threads -> Pcs]
         /\ call'[t] = NoCall /\ pc'[t] = "idle"
         /\ \A u \in Threads \ {t} : call'[u] = call[u] /\ pc'[u] = pc[u]
         /\ CallInv'
  <1>1. "idle" \in Pcs
    BY DEF Pcs
  <1>2. /\ call' \in [Threads -> CallRec] /\ pc' \in [Threads -> Pcs]
        /\ call'[t] = NoCall /\ pc'[t] = "idle"
        /\ \A u \in Threads \ {t} : call'[u] = call[u] /\ pc'[u] = pc[u]
    BY <1>1, NoCallType, CallUpdate DEF Return, Goto
  <1>3. CallInv'
    BY <1>2 DEF CallInv, CallPcs
  <1> QED
    BY <1>2, <1>3

-----------------------------------------------------------------------------
(* Threads start and end.                                                    *)

\* A thread gets its id, or the process gives up.
LEMMA TakeIdStep ==
  ASSUME IInv, NEW t \in Threads, TakeId(t), pc[t] \in {"load", "start"},
         UNCHANGED <<build, memory, call, held>>
  PROVE  IInv'
  <1> USE InterposeAssumption DEF IInv, TakeId, memory
  <1>1. TypeInv'
    BY DEF TypeInv, Pcs
  <1>2. IdInv'
    BY DEF IdInv, TypeInv
  <1>3. CallInv'
    BY DEF CallInv, CallPcs, TypeInv
  <1>4. AloneInv'
    BY DEF AloneInv, Has
  <1>5. TableInv'
    BY DEF TableInv, TypeInv
  <1>6. AllocInv'
    BY DEF AllocInv, TypeInv
  <1>7. HeldInv'
    BY DEF HeldInv, Has, Sound
  <1> QED
    BY <1>1, <1>2, <1>3, <1>4, <1>5, <1>6, <1>7

\* A thread is started.
LEMMA CreateStep ==
  ASSUME IInv, NEW t \in Threads, NEW u \in Threads, pthread_create(t, u)
  PROVE  IInv'
  <1> USE DEF IInv, pthread_create, memory, threads
  <1>1. TypeInv'
    BY DEF TypeInv, Pcs
  <1>2. IdInv'
    BY IdKept
  <1>3. CallInv'
    BY DEF CallInv, CallPcs, TypeInv
  <1>4. AloneInv'
    BY DEF AloneInv, Has
  <1>5. TableInv'
    BY DEF TableInv, TypeInv
  <1>6. AllocInv'
    BY DEF AllocInv, TypeInv
  <1>7. HeldInv'
    BY DEF HeldInv, Has, Sound
  <1> QED
    BY <1>1, <1>2, <1>3, <1>4, <1>5, <1>6, <1>7

\* A thread ends.
LEMMA ReturnsStep ==
  ASSUME IInv, NEW t \in Threads, ThreadReturns(t)
  PROVE  IInv'
  <1> USE DEF IInv, ThreadReturns, memory
  <1>1. TypeInv'
    BY DEF TypeInv, Pcs
  <1>2. IdInv'
    BY DEF IdInv, TypeInv
  <1>3. CallInv'
    BY DEF CallInv, CallPcs, TypeInv
  <1>4. AloneInv'
    BY DEF AloneInv, Has
  <1>5. TableInv'
    BY DEF TableInv, TypeInv
  <1>6. AllocInv'
    BY DEF AllocInv, TypeInv
  <1>7. HeldInv'
    BY DEF HeldInv, Has, Sound
  <1> QED
    BY <1>1, <1>2, <1>3, <1>4, <1>5, <1>6, <1>7

-----------------------------------------------------------------------------
(* The lookup.                                                               *)

\* A function is called.
LEMMA CallStep ==
  ASSUME IInv, NEW t \in Threads, NEW l \in Locks, NEW fn \in Fns(l), Call(t, fn, l)
  PROVE  IInv'
  <1> USE DEF IInv
  <1> DEFINE r == [fn |-> fn, l |-> l, impl |-> NULL]
  <1>1. PICK p \in {"create", "remove", "real", "get"} :
          /\ pc' = [pc EXCEPT ![t] = p]
          /\ p = "create" <=> fn = "init"
          /\ p = "remove" <=> fn = "destroy"
          /\ p = "real" => build = "mutex" /\ fn \in {"tryrdlock", "trywrlock"}
    BY DEF Call, Goto
  <1>2. r \in CallRec /\ p \in Pcs /\ p \in CallPcs
    BY DEF CallRec, AllFns, Pcs, CallPcs
  <1>3. /\ call' \in [Threads -> CallRec] /\ call'[t] = r
        /\ pc' \in [Threads -> Pcs] /\ pc'[t] = p
        /\ \A u \in Threads \ {t} : call'[u] = call[u] /\ pc'[u] = pc[u]
    BY <1>1, <1>2, CallUpdate DEF Call
  <1>4. UNCHANGED <<build, pthread_to_lock, allocated, readers, owner, held, cur_thread_id, last_thread_id>>
    BY DEF Call, memory, threads
  <1>5. pc[t] = "idle" /\ call[t] = NoCall
    BY DEF Call, CallInv, CallPcs
  <1>6. r.fn = fn /\ r.l = l /\ r.impl = NULL
    OBVIOUS
  <1> HIDE DEF r
  <1>7. TypeInv'
    BY <1>3, <1>4 DEF TypeInv
  <1>8. IdInv'
    BY <1>4, IdKept
  <1>9. CallInv'
    <2>1. fn \in {"tryrdlock", "trywrlock"} => l \in RwLocks
      BY DEF Fns, Locks
    <2> QED
      BY <1>1, <1>2, <1>3, <1>4, <1>6, <2>1 DEF CallInv
  <1>10. AloneInv'
    <2>1. fn \in {"init", "destroy"} => Unused(l)
      BY DEF Call
    <2>2. \A u \in Threads : call[u].l = l => call[u].fn \notin {"init", "destroy"}
      BY DEF Call
    <2>3. \A u, v \in Threads : Has(u, call[v].l)' <=> Has(u, call'[v].l)
      BY <1>4 DEF Has
    <2> QED
      BY <1>3, <1>4, <1>6, <2>1, <2>2, <2>3 DEF AloneInv, Unused
  <1>11. TableInv'
    <2>1. \A u \in Threads : pc'[u] \in {"put", "get2", "locked"} =>
            u # t /\ pc[u] = pc'[u] /\ call'[u] = call[u]
      BY <1>1, <1>3
    <2>2. /\ \A m \in Locks : pthread_to_lock'[m] # NULL => pthread_to_lock'[m] \in allocated'
          /\ \A m, k \in Locks : pthread_to_lock'[m] = pthread_to_lock'[k] /\ pthread_to_lock'[m] # NULL => m = k
      BY <1>4 DEF TableInv
    <2>3. ASSUME NEW u \in Threads, pc'[u] = "put"
          PROVE  /\ call'[u].impl \in allocated'
                 /\ owner'[call'[u].impl] = NULL /\ readers'[call'[u].impl] = {}
                 /\ \A m \in Locks : pthread_to_lock'[m] # call'[u].impl
                 /\ \A v \in Threads : v # u /\ pc'[v] = "put" => call'[v].impl # call'[u].impl
      BY <1>4, <2>1, <2>3 DEF TableInv
    <2>4. \A u \in Threads : pc'[u] = "get2" => pthread_to_lock'[call'[u].l] # NULL
      BY <1>4, <2>1 DEF TableInv
    <2>5. \A u \in Threads : pc'[u] = "locked" =>
            call'[u].impl # NULL /\ pthread_to_lock'[call'[u].l] = call'[u].impl
      BY <1>4, <2>1 DEF TableInv
    <2> QED
      BY <2>2, <2>3, <2>4, <2>5 DEF TableInv
  <1>12. AllocInv'
    BY <1>1, <1>3, <1>4, <1>5 DEF AllocInv
  <1>13. HeldInv'
    <2>1. fn \in {"unlock", "rwunlock", "cond_wait"} => Has(t, l)
      BY DEF Call
    <2> QED
      BY <1>3, <1>4, <1>6, <2>1 DEF HeldInv, Has, Sound
  <1> QED
    BY <1>7, <1>8, <1>9, <1>10, <1>11, <1>12, <1>13

\* Only the Impl of t's call changes.
LEMMA ImplUpdate ==
  ASSUME TypeInv, NEW t \in Threads, NEW k \in Impls \cup {NULL}, NEW l \in Pcs,
         call' = [call EXCEPT ![t].impl = k], pc' = [pc EXCEPT ![t] = l]
  PROVE  /\ call' \in [Threads -> CallRec]
         /\ call'[t].impl = k
         /\ pc' \in [Threads -> Pcs] /\ pc'[t] = l
         /\ \A u \in Threads \ {t} : call'[u] = call[u] /\ pc'[u] = pc[u]
         /\ \A u \in Threads : call'[u].fn = call[u].fn /\ call'[u].l = call[u].l
  <1> DEFINE r == [call[t] EXCEPT !.impl = k]
  <1>1. call[t] \in CallRec
    BY DEF TypeInv
  <1>2. r \in CallRec /\ r.impl = k /\ r.fn = call[t].fn /\ r.l = call[t].l
    BY <1>1 DEF CallRec
  <1>3. call' = [call EXCEPT ![t] = r]
    OBVIOUS
  <1> HIDE DEF r
  <1> QED
    BY <1>2, <1>3, CallUpdate

\* Who initialises or destroys a lock stays alone while no call is exchanged for
\* another.
LEMMA AloneKept ==
  ASSUME AloneInv, UNCHANGED held,
         \A u \in Threads : call'[u].fn = call[u].fn /\ call'[u].l = call[u].l
  PROVE  AloneInv'
  BY DEF AloneInv, Has

\* A call that goes on from one point to another stays what it is.
LEMMA CallKept ==
  ASSUME CallInv, UNCHANGED build, NEW t \in Threads, NEW p \in CallPcs \ {"remove", "real"},
         pc[t] \in CallPcs, pc'[t] = p,
         \A u \in Threads \ {t} : call'[u] = call[u] /\ pc'[u] = pc[u],
         call'[t].fn = call[t].fn, call'[t].l = call[t].l,
         p \in {"get", "locked"} => call[t].fn \notin {"init", "destroy"},
         p \in {"create", "put", "get2"} => call[t].fn # "destroy",
         p = "return" => call[t].fn = "init"
  PROVE  CallInv'
  <1> SUFFICES ASSUME NEW u \in Threads
               PROVE  /\ pc'[u] \in CallPcs => call'[u].l \in Locks /\ call'[u].fn \in Fns(call'[u].l)
                      /\ pc'[u] \notin CallPcs => call'[u] = NoCall
                      /\ pc'[u] \in {"get", "locked", "real"} => call'[u].fn \notin {"init", "destroy"}
                      /\ pc'[u] \in {"create", "put", "get2"} => call'[u].fn # "destroy"
                      /\ pc'[u] = "real" => build' = "mutex" /\ call'[u].l \in RwLocks
                      /\ pc'[u] = "return" => call'[u].fn = "init"
                      /\ pc'[u] = "remove" => call'[u].fn = "destroy"
    BY DEF CallInv, Locks, Fns
  <1>1. CASE u # t
    BY <1>1 DEF CallInv
  <1>2. CASE u = t
    <2>1. call[t].l \in Locks /\ call[t].fn \in Fns(call[t].l)
      BY DEF CallInv
    <2> QED
      BY <1>2, <2>1
  <1> QED
    BY <1>1, <1>2

\* What is said about who has which lock depends on these variables alone.
LEMMA HeldKept ==
  ASSUME HeldInv, UNCHANGED <<build, pthread_to_lock, readers, owner, held>>,
         \A u \in Threads : call'[u].fn = call[u].fn /\ call'[u].l = call[u].l
  PROVE  HeldInv'
  <1>1. \A l : Sound(l)' = Sound(l)
    BY DEF Sound
  <1>2. \A u \in Threads : Has(u, call[u].l)' <=> Has(u, call[u].l)
    BY DEF Has
  <1> QED
    BY <1>1, <1>2 DEF HeldInv, Sound

\* The table is as good as before when t leaves another point than "put" and only
\* the Impls that are in the table change hands.
LEMMA TableKept ==
  ASSUME TypeInv, TableInv, NEW t \in Threads, UNCHANGED <<pthread_to_lock, allocated>>,
         pc[t] # "put", pc'[t] \notin {"put", "get2"},
         \A u \in Threads \ {t} : call'[u] = call[u] /\ pc'[u] = pc[u],
         pc'[t] = "locked" => call'[t].impl # NULL /\ pthread_to_lock[call'[t].l] = call'[t].impl,
         \A j \in Impls : (\A l \in Locks : pthread_to_lock[l] # j) =>
           owner'[j] = owner[j] /\ readers'[j] = readers[j]
  PROVE  TableInv'
  <1>1. ASSUME NEW u \in Threads, pc'[u] = "put"
        PROVE  /\ call'[u].impl \in allocated'
               /\ owner'[call'[u].impl] = NULL /\ readers'[call'[u].impl] = {}
               /\ \A l \in Locks : pthread_to_lock'[l] # call'[u].impl
               /\ \A v \in Threads : v # u /\ pc'[v] = "put" => call'[v].impl # call'[u].impl
    <2>1. u # t /\ pc[u] = "put" /\ call'[u] = call[u]
      BY <1>1
    <2>2. call[u].impl \in Impls /\ \A l \in Locks : pthread_to_lock[l] # call[u].impl
      BY <2>1 DEF TableInv, TypeInv
    <2>3. \A v \in Threads : v # u /\ pc'[v] = "put" => pc[v] = "put" /\ call'[v] = call[v]
      OBVIOUS
    <2> QED
      BY <2>1, <2>2, <2>3 DEF TableInv
  <1>2. \A u \in Threads : pc'[u] = "get2" => pthread_to_lock'[call'[u].l] # NULL
    BY DEF TableInv
  <1>3. \A u \in Threads : pc'[u] = "locked" =>
          call'[u].impl # NULL /\ pthread_to_lock'[call'[u].l] = call'[u].impl
    BY DEF TableInv
  <1> QED
    BY <1>1, <1>2, <1>3 DEF TableInv

\* The table is read.
LEMMA GetStep ==
  ASSUME IInv, NEW t \in Threads, ht_lock_get(t)
  PROVE  IInv'
  <1> USE DEF IInv
  <1> DEFINE k == pthread_to_lock[call[t].l]
  <1>1. pc[t] = "get" /\ call[t].l \in Locks /\ call[t].fn \notin {"init", "destroy"}
       /\ pc[t] \in CallPcs
    BY DEF ht_lock_get, CallInv, CallPcs
  <1>2. k \in Impls \cup {NULL}
    BY <1>1 DEF TypeInv
  <1>3. PICK p \in {"create", "locked"} :
          pc' = [pc EXCEPT ![t] = p] /\ (p = "locked" => k # NULL)
    BY <1>1 DEF ht_lock_get, Goto, Found
  <1>4. call' = [call EXCEPT ![t].impl = k] /\ p \in Pcs /\ p \in CallPcs
    BY DEF ht_lock_get, Pcs, CallPcs
  <1>5. UNCHANGED <<build, pthread_to_lock, allocated, readers, owner, held, cur_thread_id, last_thread_id>>
    BY DEF ht_lock_get, memory, threads
  <1> HIDE DEF k
  <1>6. /\ call' \in [Threads -> CallRec] /\ call'[t].impl = k
        /\ pc' \in [Threads -> Pcs] /\ pc'[t] = p
        /\ \A u \in Threads \ {t} : call'[u] = call[u] /\ pc'[u] = pc[u]
        /\ \A u \in Threads : call'[u].fn = call[u].fn /\ call'[u].l = call[u].l
    BY <1>2, <1>3, <1>4, ImplUpdate
  <1>7. TypeInv'
    BY <1>5, <1>6 DEF TypeInv
  <1>8. IdInv'
    BY <1>5, IdKept
  <1>9. CallInv'
    BY <1>1, <1>4, <1>5, <1>6, CallKept
  <1>10. AloneInv'
    BY <1>5, <1>6, AloneKept
  <1>11. TableInv'
    <2>1. k = pthread_to_lock[call[t].l]
      BY DEF k
    <2> QED
      BY <1>3, <1>5, <1>6, <2>1 DEF TableInv
  <1>12. AllocInv'
    BY <1>1, <1>5, <1>6 DEF AllocInv
  <1>13. HeldInv'
    BY <1>5, <1>6, HeldKept
  <1> QED
    BY <1>7, <1>8, <1>9, <1>10, <1>11, <1>12, <1>13

\* There is memory for a lock for every thread that needs one.
LEMMA FreshImpl ==
  ASSUME TypeInv, AllocInv, NEW t \in Threads, pc[t] = "create"
  PROVE  \E k \in Impls : k \notin allocated
  <1> DEFINE Puts == {u \in Threads : pc[u] = "put"}
             A == {pthread_to_lock[l] : l \in Locks}
             B == {call[u].impl : u \in Puts}
             f == [l \in Locks |-> pthread_to_lock[l]]
             g == [u \in Puts |-> call[u].impl]
  <1>1. IsFiniteSet(A) /\ Cardinality(A) <= Cardinality(Locks)
    <2>1. f \in Surjection(Locks, A)
      BY DEF Surjection
    <2> QED
      BY <2>1, FS_Surjection, InterposeAssumption
  <1>2. /\ IsFiniteSet(Puts) /\ Cardinality(Puts) <= Cardinality(Threads) - 1
    <2>1. Puts \in SUBSET (Threads \ {t})
      OBVIOUS
    <2>2. IsFiniteSet(Threads \ {t}) /\ Cardinality(Threads \ {t}) = Cardinality(Threads) - 1
      BY FS_RemoveElement, InterposeAssumption
    <2> QED
      BY <2>1, <2>2, FS_Subset
  <1>3. IsFiniteSet(B) /\ Cardinality(B) <= Cardinality(Puts)
    <2>1. g \in Surjection(Puts, B)
      BY DEF Surjection
    <2> QED
      BY <1>2, <2>1, FS_Surjection
  <1>4. IsFiniteSet(A \cup B) /\ Cardinality(A \cup B) <= Cardinality(A) + Cardinality(B)
    <2>1. /\ IsFiniteSet(A \cup B)
          /\ Cardinality(A \cup B) = Cardinality(A) + Cardinality(B) - Cardinality(A \cap B)
      BY <1>1, <1>3, FS_Union
    <2>2. IsFiniteSet(A \cap B)
      BY <1>1, FS_Intersection
    <2> QED
      BY <1>1, <1>3, <2>1, <2>2, FS_CardinalityType
  <1>5. SUFFICES ASSUME Impls \subseteq allocated
                 PROVE  FALSE
    OBVIOUS
  <1>6. Impls \in SUBSET (A \cup B)
    BY <1>5 DEF AllocInv
  <1>7. Cardinality(Impls) <= Cardinality(A \cup B)
    BY <1>4, <1>6, FS_Subset
  <1> HIDE DEF A, B, Puts
  <1>8. /\ Cardinality(Threads) \in Nat /\ Cardinality(Locks) \in Nat /\ Cardinality(A) \in Nat
        /\ Cardinality(B) \in Nat /\ Cardinality(A \cup B) \in Nat /\ Cardinality(Puts) \in Nat
    BY <1>1, <1>2, <1>3, <1>4, InterposeAssumption, FS_CardinalityType
  <1>9. Cardinality(Impls) \in Nat
    BY <1>4, <1>6, FS_Subset, FS_CardinalityType
  <1> QED
    BY <1>1, <1>2, <1>3, <1>4, <1>7, <1>8, <1>9, InterposeAssumption

\* A new Impl is made.
LEMMA CreateImplStep ==
  ASSUME IInv, NEW t \in Threads, CreateImpl(t)
  PROVE  IInv'
  <1> USE DEF IInv
  <1> DEFINE k == CHOOSE j \in Impls \ allocated : TRUE
  <1>1. pc[t] = "create" /\ call[t].l \in Locks /\ call[t].fn # "destroy" /\ pc[t] \in CallPcs
    BY DEF CreateImpl, CallInv, CallPcs
  <1>2. k \in Impls /\ k \notin allocated
    BY <1>1, FreshImpl
  <1>3. /\ allocated' = allocated \cup {k}
        /\ owner' = [owner EXCEPT ![k] = NULL] /\ readers' = [readers EXCEPT ![k] = {}]
        /\ call' = [call EXCEPT ![t].impl = k] /\ pc' = [pc EXCEPT ![t] = "put"]
    BY DEF CreateImpl, Goto
  <1> HIDE DEF k
  <1>4. "put" \in Pcs /\ "put" \in CallPcs
    BY DEF Pcs, CallPcs
  <1>5. UNCHANGED <<build, pthread_to_lock, held, cur_thread_id, last_thread_id>>
    BY DEF CreateImpl, threads
  <1>6. /\ call' \in [Threads -> CallRec] /\ call'[t].impl = k
        /\ pc' \in [Threads -> Pcs] /\ pc'[t] = "put"
        /\ \A u \in Threads \ {t} : call'[u] = call[u] /\ pc'[u] = pc[u]
        /\ \A u \in Threads : call'[u].fn = call[u].fn /\ call'[u].l = call[u].l
    BY <1>2, <1>3, <1>4, ImplUpdate
  <1>7. /\ owner'[k] = NULL /\ readers'[k] = {}
        /\ \A j \in Impls \ {k} : owner'[j] = owner[j] /\ readers'[j] = readers[j]
    BY <1>2, <1>3 DEF TypeInv
  <1>8. TypeInv'
    BY <1>2, <1>3, <1>5, <1>6 DEF TypeInv
  <1>9. IdInv'
    BY <1>5, IdKept
  <1>10. CallInv'
    BY <1>1, <1>4, <1>5, <1>6, CallKept
  <1>11. AloneInv'
    BY <1>5, <1>6, AloneKept
  <1>12. TableInv'
    <2>0. \A l \in Locks : pthread_to_lock[l] # k
      BY <1>2, NoNull DEF TableInv
    <2>1. \A u \in Threads \ {t} : pc[u] = "put" => call[u].impl \in allocated /\ call[u].impl \in Impls /\ call[u].impl # k
      BY <1>2 DEF TableInv, TypeInv
    <2>2. \A l \in Locks : pthread_to_lock'[l] # NULL => pthread_to_lock'[l] \in allocated'
      BY <1>3, <1>5 DEF TableInv
    <2>3. \A l, m \in Locks : pthread_to_lock'[l] = pthread_to_lock'[m] /\ pthread_to_lock'[l] # NULL => l = m
      BY <1>5 DEF TableInv
    <2>4. ASSUME NEW u \in Threads, pc'[u] = "put"
          PROVE  /\ call'[u].impl \in allocated'
                 /\ owner'[call'[u].impl] = NULL /\ readers'[call'[u].impl] = {}
                 /\ \A l \in Locks : pthread_to_lock'[l] # call'[u].impl
                 /\ \A v \in Threads : v # u /\ pc'[v] = "put" => call'[v].impl # call'[u].impl
      <3>1. CASE u = t
        BY <1>3, <1>5, <1>6, <1>7, <2>0, <2>1, <3>1
      <3>2. CASE u # t
        <4>1. pc[u] = "put" /\ call'[u] = call[u]
          BY <1>6, <2>4, <3>2
        <4> QED
          BY <1>3, <1>5, <1>6, <1>7, <2>1, <3>2, <4>1 DEF TableInv
      <3> QED
        BY <3>1, <3>2
    <2>5. \A u \in Threads : pc'[u] = "get2" => pthread_to_lock'[call'[u].l] # NULL
      BY <1>5, <1>6 DEF TableInv
    <2>6. \A u \in Threads : pc'[u] = "locked" =>
            call'[u].impl # NULL /\ pthread_to_lock'[call'[u].l] = call'[u].impl
      BY <1>5, <1>6 DEF TableInv
    <2>7. \A u \in Threads : pc'[u] = "put" =>
                 /\ call'[u].impl \in allocated'
                 /\ owner'[call'[u].impl] = NULL /\ readers'[call'[u].impl] = {}
                 /\ \A l \in Locks : pthread_to_lock'[l] # call'[u].impl
                 /\ \A v \in Threads : v # u /\ pc'[v] = "put" => call'[v].impl # call'[u].impl
      BY <2>4
    <2> QED
      BY <2>2, <2>3, <2>5, <2>6, <2>7 DEF TableInv
  <1>13. AllocInv'
    BY <1>1, <1>3, <1>5, <1>6 DEF AllocInv
  <1>14. HeldInv'
    <2>1. \A l \in Locks : pthread_to_lock[l] # NULL => pthread_to_lock[l] \in Impls \ {k}
      BY <1>2 DEF TableInv, TypeInv
    <2>2. \A m \in Impls : owner'[m] # NULL => readers'[m] = {}
      BY <1>5, <1>7 DEF HeldInv
    <2>3. \A u \in Threads, l \in Locks : Sound(l)' /\ <<l, "wr">> \in held'[u] =>
            pthread_to_lock'[l] # NULL /\ owner'[pthread_to_lock'[l]] = u
      BY <1>5, <1>7, <2>1 DEF HeldInv, Sound
    <2>4. \A u \in Threads, l \in Locks : Sound(l)' /\ <<l, "rd">> \in held'[u] =>
            pthread_to_lock'[l] # NULL /\ u \in readers'[pthread_to_lock'[l]]
      BY <1>5, <1>7, <2>1 DEF HeldInv, Sound
    <2>5. \A u \in Threads : call'[u].fn \in {"unlock", "rwunlock", "cond_wait"} => Has(u, call[u].l)'
      BY <1>5, <1>6 DEF HeldInv, Has
    <2> QED
      BY <1>5, <2>2, <2>3, <2>4, <2>5 DEF HeldInv
  <1> QED
    BY <1>8, <1>9, <1>10, <1>11, <1>12, <1>13, <1>14

\* The new Impl is put into the table.
LEMMA PutStep ==
  ASSUME IInv, NEW t \in Threads, PutImpl(t), pthread_to_lock[call[t].l] = NULL
  PROVE  IInv'
  <1> USE DEF IInv
  <1> DEFINE k == call[t].impl
             m == call[t].l
  <1>1. pc[t] = "put" /\ m \in Locks /\ call[t].fn # "destroy" /\ call[t].fn \in Fns(m)
    BY DEF PutImpl, CallInv, CallPcs
  <1>2. k \in allocated /\ k \in Impls
    BY <1>1 DEF TableInv, TypeInv
  <1>3. PICK p \in {"return", "locked"} :
          pc' = [pc EXCEPT ![t] = p] /\ (p = "return" <=> call[t].fn = "init")
    BY DEF PutImpl, Goto, Found
  <1>4. p \in Pcs /\ p \in CallPcs
    BY DEF Pcs, CallPcs
  <1>5. /\ pthread_to_lock' = [pthread_to_lock EXCEPT ![m] = k]
        /\ UNCHANGED <<build, allocated, readers, owner, held, call, cur_thread_id, last_thread_id>>
    BY DEF PutImpl, threads
  <1>6. /\ pthread_to_lock'[m] = k
        /\ \A l \in Locks \ {m} : pthread_to_lock'[l] = pthread_to_lock[l]
        /\ pthread_to_lock' \in [Locks -> Impls \cup {NULL}]
    BY <1>1, <1>2, <1>5 DEF TypeInv
  <1>7. /\ pc' \in [Threads -> Pcs] /\ pc'[t] = p
        /\ \A u \in Threads \ {t} : pc'[u] = pc[u]
    BY <1>3, <1>4 DEF TypeInv
  <1>8. TypeInv'
    BY <1>5, <1>6, <1>7 DEF TypeInv
  <1>9. IdInv'
    BY <1>5, IdKept
  <1>10. CallInv'
    BY <1>1, <1>3, <1>4, <1>5, <1>7 DEF CallInv
  <1>11. AloneInv'
    BY <1>5, AloneKept
  <1>12. TableInv'
    <2>1. \A l \in Locks : pthread_to_lock[l] # k
      BY <1>1 DEF TableInv
    <2>2. k # NULL
      BY <1>2, NoNull
    <2> QED
      BY <1>1, <1>2, <1>5, <1>6, <1>7, <2>1, <2>2 DEF TableInv
  <1>13. AllocInv'
    <2>1. \A j \in allocated : j # k =>
            (\E l \in Locks : l # m /\ pthread_to_lock[l] = j)
            \/ (\E u \in Threads : u # t /\ pc[u] = "put" /\ call[u].impl = j)
      BY <1>2, NoNull DEF AllocInv, TypeInv
    <2> QED
      BY <1>1, <1>5, <1>6, <1>7, <2>1 DEF AllocInv
  <1>14. HeldInv'
    <2>1. \A u \in Threads : Sound(m) => ~Has(u, m)
      BY DEF HeldInv, Has, Sound, TypeInv, Modes
    <2> QED
      BY <1>5, <1>6, <2>1 DEF HeldInv, Has, Sound, Locks
  <1> QED
    BY <1>8, <1>9, <1>10, <1>11, <1>12, <1>13, <1>14

\* Somebody else has put an Impl into the table, and this one is thrown away.
LEMMA PutFailsStep ==
  ASSUME IInv, NEW t \in Threads, PutImpl(t), pthread_to_lock[call[t].l] # NULL
  PROVE  IInv'
  <1> USE DEF IInv
  <1> DEFINE k == call[t].impl
  <1>1. pc[t] = "put" /\ call[t].l \in Locks /\ call[t].fn # "destroy" /\ pc[t] \in CallPcs
    BY DEF PutImpl, CallInv, CallPcs
  <1>2. k \in allocated /\ k \in Impls
    BY <1>1 DEF TableInv, TypeInv
  <1>3. allocated' = allocated \ {k}
    BY DEF PutImpl
  <1>4. "get2" \in Pcs /\ "get2" \in CallPcs
    BY DEF Pcs, CallPcs
  <1>5. UNCHANGED <<build, pthread_to_lock, readers, owner, held, cur_thread_id, last_thread_id>>
    BY DEF PutImpl, threads
  <1>6. /\ call' \in [Threads -> CallRec] /\ call'[t].impl = NULL
        /\ pc' \in [Threads -> Pcs] /\ pc'[t] = "get2"
        /\ \A u \in Threads \ {t} : call'[u] = call[u] /\ pc'[u] = pc[u]
        /\ \A u \in Threads : call'[u].fn = call[u].fn /\ call'[u].l = call[u].l
    BY <1>4, ImplUpdate DEF PutImpl, Goto
  <1>7. TypeInv'
    BY <1>3, <1>5, <1>6 DEF TypeInv
  <1>8. IdInv'
    BY <1>5, IdKept
  <1>9. CallInv'
    BY <1>1, <1>4, <1>5, <1>6, CallKept
  <1>10. AloneInv'
    BY <1>5, <1>6, AloneKept
  <1>11. TableInv'
    <2>1. \A l \in Locks : pthread_to_lock[l] # k
      BY <1>1 DEF TableInv
    <2>2. \A u \in Threads \ {t} : pc[u] = "put" => call[u].impl # k
      BY <1>1 DEF TableInv
    <2>3. \A l \in Locks : pthread_to_lock'[l] # NULL => pthread_to_lock'[l] \in allocated'
      BY <1>3, <1>5, <2>1 DEF TableInv
    <2>4. \A u \in Threads : pc'[u] = "get2" => pthread_to_lock'[call'[u].l] # NULL
      <3>1. pthread_to_lock[call[t].l] # NULL
        OBVIOUS
      <3>2. pthread_to_lock'[call'[t].l] # NULL
        BY <1>5, <1>6, <3>1
      <3> QED
        BY <1>5, <1>6, <3>2 DEF TableInv
    <2>5. \A u \in Threads : pc'[u] = "locked" =>
            call'[u].impl # NULL /\ pthread_to_lock'[call'[u].l] = call'[u].impl
      BY <1>5, <1>6 DEF TableInv
    <2>6. ASSUME NEW u \in Threads, pc'[u] = "put"
          PROVE  /\ call'[u].impl \in allocated'
                 /\ owner'[call'[u].impl] = NULL /\ readers'[call'[u].impl] = {}
                 /\ \A l \in Locks : pthread_to_lock'[l] # call'[u].impl
                 /\ \A v \in Threads : v # u /\ pc'[v] = "put" => call'[v].impl # call'[u].impl
      <3>1. u # t /\ pc[u] = "put" /\ call'[u] = call[u]
        BY <1>6, <2>6
      <3> QED
        BY <1>3, <1>5, <1>6, <2>2, <3>1 DEF TableInv
    <2> QED
      BY <1>5, <2>3, <2>4, <2>5, <2>6 DEF TableInv
  <1>12. AllocInv'
    BY <1>1, <1>3, <1>5, <1>6 DEF AllocInv
  <1>13. HeldInv'
    BY <1>5, <1>6, HeldKept
  <1> QED
    BY <1>7, <1>8, <1>9, <1>10, <1>11, <1>12, <1>13

\* The winner's Impl is found.
LEMMA GetAfterPutStep ==
  ASSUME IInv, NEW t \in Threads, GetAfterPut(t)
  PROVE  IInv'
  <1> USE DEF IInv
  <1> DEFINE k == pthread_to_lock[call[t].l]
  <1>1. pc[t] = "get2" /\ call[t].l \in Locks /\ call[t].fn # "destroy" /\ pc[t] \in CallPcs
    BY DEF GetAfterPut, CallInv, CallPcs
  <1>2. k \in Impls \cup {NULL} /\ k # NULL
    BY <1>1 DEF TypeInv, TableInv
  <1>3. PICK p \in {"return", "locked"} :
          pc' = [pc EXCEPT ![t] = p] /\ (p = "return" <=> call[t].fn = "init")
    BY DEF GetAfterPut, Goto, Found
  <1>4. p \in Pcs /\ p \in CallPcs
    BY DEF Pcs, CallPcs
  <1>5. UNCHANGED <<build, pthread_to_lock, allocated, readers, owner, held, cur_thread_id, last_thread_id>>
    BY DEF GetAfterPut, memory, threads
  <1>0. call' = [call EXCEPT ![t].impl = k]
    BY DEF GetAfterPut
  <1> HIDE DEF k
  <1>6. /\ call' \in [Threads -> CallRec] /\ call'[t].impl = k
        /\ pc' \in [Threads -> Pcs] /\ pc'[t] = p
        /\ \A u \in Threads \ {t} : call'[u] = call[u] /\ pc'[u] = pc[u]
        /\ \A u \in Threads : call'[u].fn = call[u].fn /\ call'[u].l = call[u].l
    BY <1>0, <1>2, <1>3, <1>4, ImplUpdate
  <1>7. TypeInv'
    BY <1>5, <1>6 DEF TypeInv
  <1>8. IdInv'
    BY <1>5, IdKept
  <1>9. CallInv'
    BY <1>1, <1>3, <1>4, <1>5, <1>6, CallKept
  <1>10. AloneInv'
    BY <1>5, <1>6, AloneKept
  <1>11. TableInv'
    <2>1. k = pthread_to_lock[call[t].l]
      BY DEF k
    <2>2. call'[t].impl # NULL /\ pthread_to_lock'[call'[t].l] = call'[t].impl
      BY <1>2, <1>5, <1>6, <2>1
    <2> QED
      BY <1>1, <1>3, <1>5, <1>6, <2>2, TableKept
  <1>12. AllocInv'
    BY <1>1, <1>5, <1>6 DEF AllocInv
  <1>13. HeldInv'
    BY <1>5, <1>6, HeldKept
  <1> QED
    BY <1>7, <1>8, <1>9, <1>10, <1>11, <1>12, <1>13

-----------------------------------------------------------------------------
(* The calls of the algorithm.                                               *)

\* A thread whose call has ended, and who at most got the lock it was about, is in
\* nobody's way.
LEMMA AloneAfterReturn ==
  ASSUME CallInv, AloneInv, NEW t \in Threads, call'[t] = NoCall,
         \A u \in Threads \ {t} : call'[u] = call[u] /\ held'[u] = held[u],
         \A l, mode : <<l, mode>> \in held'[t] => <<l, mode>> \in held[t] \/ l = call[t].l
  PROVE  AloneInv'
  <1> SUFFICES ASSUME NEW u \in Threads, call'[u].fn \in {"init", "destroy"}, NEW v \in Threads
               PROVE  /\ \A mode \in {"rd", "wr"} : <<call'[u].l, mode>> \notin held'[v]
                      /\ v # u => call'[v].l # call'[u].l
    BY DEF AloneInv, Has
  <1>1. u # t /\ call'[u] = call[u]
    BY NoCallType
  <1>2. call[u].l \in Locks /\ call[u].l # NULL
    BY <1>1, InitOnLock, NoNull
  <1>3. call[t].l # call[u].l
    BY <1>1 DEF AloneInv
  <1>4. \A mode \in {"rd", "wr"} : <<call[u].l, mode>> \notin held[v]
    BY <1>1 DEF AloneInv, Has
  <1>5. CASE v = t
    BY <1>1, <1>2, <1>3, <1>4, <1>5, NoCallType
  <1>6. CASE v # t
    BY <1>1, <1>4, <1>6 DEF AloneInv
  <1> QED
    BY <1>5, <1>6

\* Only the Impls that wait to be put into the table are held by calls.
LEMMA AllocKept ==
  ASSUME AllocInv, NEW t \in Threads, pc[t] # "put", UNCHANGED <<pthread_to_lock, allocated>>,
         \A u \in Threads \ {t} : call'[u] = call[u] /\ pc'[u] = pc[u]
  PROVE  AllocInv'
  BY DEF AllocInv

\* A thread at the algorithm's door.
LEMMA LockedCall ==
  ASSUME IInv, NEW t \in Threads, pc[t] = "locked"
  PROVE  /\ call[t].l \in Locks /\ call[t].fn \in Fns(call[t].l)
         /\ call[t].impl \in Impls /\ call[t].impl \in allocated
         /\ pthread_to_lock[call[t].l] = call[t].impl /\ call[t].impl # NULL
  BY NoNull DEF IInv, CallInv, CallPcs, TableInv, TypeInv

\* The modes and the locks that go with the functions.
LEMMA FnsOfLocks ==
  ASSUME NEW l \in Locks, NEW fn \in Fns(l)
  PROVE  /\ fn \in {"lock", "trylock", "unlock", "cond_wait"} => l \in Mutexes
         /\ fn \in {"rdlock", "tryrdlock", "wrlock", "trywrlock", "rwunlock"} => l \in RwLocks
         /\ Mode(fn) \in Modes /\ (Mode(fn) = "rd" => l \in RwLocks)
  BY DEF Fns, Locks, Mode, Modes

\* A function acquires its lock.
LEMMA AcquireStep ==
  ASSUME IInv, NEW t \in Threads, NEW fn, ReturnsFrom(t, {fn}), Acquire(t),
         fn \notin {"init", "destroy"}, UNCHANGED <<Others, real>>
  PROVE  IInv'
  <1> USE DEF IInv
  <1> DEFINE k == call[t].impl
             l == call[t].l
             mode == Mode(call[t].fn)
  <1>1. pc[t] = "locked"
    BY DEF ReturnsFrom
  <1>2. l \in Locks /\ k \in Impls /\ k # NULL /\ pthread_to_lock[l] = k /\ call[t].fn \in Fns(l)
    BY <1>1, LockedCall
  <1>3. mode \in Modes /\ (mode = "rd" => l \in RwLocks)
    BY <1>2, FnsOfLocks
  <1>4. UNCHANGED <<build, pthread_to_lock, allocated, cur_thread_id, last_thread_id>>
    BY DEF Others, threads
  <1>5. /\ call' \in [Threads -> CallRec] /\ pc' \in [Threads -> Pcs]
        /\ call'[t] = NoCall /\ pc'[t] = "idle"
        /\ \A u \in Threads \ {t} : call'[u] = call[u] /\ pc'[u] = pc[u]
        /\ CallInv'
    BY <1>4, ReturnKeeps DEF ReturnsFrom
  <1>6. /\ held' \in [Threads -> SUBSET (Locks \X Modes)]
        /\ held'[t] = held[t] \cup {<<l, mode>>}
        /\ \A u \in Threads \ {t} : held'[u] = held[u]
    BY <1>2, <1>3 DEF Acquire, TypeInv
  <1>7. Shared(t) <=> build = "rw" /\ mode = "rd"
    BY DEF Shared
  <1>8. owner[k] = NULL
    BY DEF Acquire, Free
  <1>9. \/ /\ Shared(t) /\ owner' = owner /\ readers' = [readers EXCEPT ![k] = @ \cup {t}]
        \/ /\ ~Shared(t) /\ readers[k] = {} /\ readers' = readers /\ owner' = [owner EXCEPT ![k] = t]
    BY DEF Acquire, Free
  <1> HIDE DEF k, l, mode
  <1>10. /\ owner' \in [Impls -> Threads \cup {NULL}] /\ readers' \in [Impls -> SUBSET Threads]
         /\ \A j \in Impls \ {k} : owner'[j] = owner[j] /\ readers'[j] = readers[j]
         /\ Shared(t) => owner'[k] = NULL /\ readers'[k] = readers[k] \cup {t}
         /\ ~Shared(t) => owner'[k] = t /\ readers'[k] = {} /\ readers[k] = {}
    BY <1>2, <1>8, <1>9 DEF TypeInv
  <1>11. TypeInv'
    BY <1>4, <1>5, <1>6, <1>10 DEF TypeInv
  <1>12. IdInv'
    BY <1>4, IdKept
  <1>13. AloneInv'
    <2>1. \A m, o : <<m, o>> \in held'[t] => <<m, o>> \in held[t] \/ m = call[t].l
      BY <1>6 DEF l
    <2> QED
      BY <1>5, <1>6, <2>1, AloneAfterReturn
  <1>14. TableInv'
    BY <1>1, <1>2, <1>4, <1>5, <1>10, TableKept
  <1>15. AllocInv'
    BY <1>1, <1>4, <1>5, AllocKept
  <1>16. HeldInv'
    <2>1. \A j \in Impls : owner'[j] # NULL => readers'[j] = {}
      BY <1>10 DEF HeldInv
    <2>2. \A u \in Threads, m \in Mutexes : <<m, "rd">> \notin held'[u]
      <3>1. mode = "rd" => l \notin Mutexes
        BY <1>3, InterposeAssumption
      <3>2. \A u \in Threads, m \in Mutexes : <<m, "rd">> \notin held[u]
        BY DEF HeldInv
      <3>3. \A m \in Mutexes : <<m, "rd">> # <<l, mode>>
        BY <3>1
      <3> QED
        BY <1>6, <3>2, <3>3
    <2>3. ASSUME NEW u \in Threads, NEW m \in Locks, Sound(m), <<m, "wr">> \in held'[u]
          PROVE  pthread_to_lock'[m] # NULL /\ owner'[pthread_to_lock'[m]] = u
      <3>1. CASE u = t /\ m = l /\ mode = "wr"
        BY <1>2, <1>4, <1>7, <1>10, <3>1
      <3>2. CASE ~(u = t /\ m = l /\ mode = "wr")
        <4>1. <<m, "wr">> \in held[u]
          BY <1>6, <2>3, <3>2
        <4>2. pthread_to_lock[m] # NULL /\ owner[pthread_to_lock[m]] = u /\ u # NULL
          BY <2>3, <4>1, NoNull DEF HeldInv
        <4>3. pthread_to_lock[m] \in Impls \ {k}
          BY <1>8, <4>2 DEF TypeInv, k
        <4> QED
          BY <1>4, <1>10, <4>2, <4>3
      <3> QED
        BY <3>1, <3>2
    <2>4. ASSUME NEW u \in Threads, NEW m \in Locks, Sound(m), <<m, "rd">> \in held'[u]
          PROVE  pthread_to_lock'[m] # NULL /\ u \in readers'[pthread_to_lock'[m]]
      <3>1. CASE u = t /\ m = l /\ mode = "rd"
        <4>1. build = "rw"
          BY <1>3, <2>4, <3>1, InterposeAssumption DEF Sound
        <4> QED
          BY <1>2, <1>4, <1>7, <1>10, <3>1, <4>1
      <3>2. CASE ~(u = t /\ m = l /\ mode = "rd")
        <4>1. <<m, "rd">> \in held[u]
          BY <1>6, <2>4, <3>2
        <4>2. pthread_to_lock[m] # NULL /\ u \in readers[pthread_to_lock[m]]
          BY <2>4, <4>1 DEF HeldInv
        <4>3. pthread_to_lock[m] \in Impls
          BY <4>2 DEF TypeInv
        <4> QED
          BY <1>4, <1>10, <4>2, <4>3
      <3> QED
        BY <3>1, <3>2
    <2>5. ASSUME NEW u \in Threads, call'[u].fn \in {"unlock", "rwunlock", "cond_wait"}
          PROVE  \E o \in {"rd", "wr"} : <<call'[u].l, o>> \in held'[u]
      <3>1. u # t
        BY <1>5, <2>5, NoCallType
      <3> QED
        BY <1>5, <1>6, <2>5, <3>1 DEF HeldInv, Has
    <2>6. \A m : Sound(m)' = Sound(m)
      BY <1>4 DEF Sound
    <2> QED
      BY <2>1, <2>2, <2>3, <2>4, <2>5, <2>6 DEF HeldInv, Has, Sound
  <1> QED
    BY <1>5, <1>11, <1>12, <1>13, <1>14, <1>15, <1>16

\* A trylock finds the lock taken, or an initialisation ends.
LEMMA NothingStep ==
  ASSUME IInv, NEW t \in Threads, pc[t] \in {"locked", "return"}, Return(t),
         UNCHANGED <<build, pthread_to_lock, allocated, readers, owner, held, cur_thread_id,
                     last_thread_id>>
  PROVE  IInv'
  <1> USE DEF IInv
  <1>1. /\ call' \in [Threads -> CallRec] /\ pc' \in [Threads -> Pcs]
        /\ call'[t] = NoCall /\ pc'[t] = "idle"
        /\ \A u \in Threads \ {t} : call'[u] = call[u] /\ pc'[u] = pc[u]
        /\ CallInv'
    BY ReturnKeeps
  <1>2. TypeInv'
    BY <1>1 DEF TypeInv
  <1>3. IdInv'
    BY IdKept
  <1>4. AloneInv'
    BY <1>1, AloneAfterReturn
  <1>5. TableInv'
    BY <1>1, TableKept
  <1>6. AllocInv'
    BY <1>1, AllocKept
  <1>7. HeldInv'
    <2>1. ASSUME NEW u \in Threads, call'[u].fn \in {"unlock", "rwunlock", "cond_wait"}
          PROVE  \E o \in {"rd", "wr"} : <<call'[u].l, o>> \in held'[u]
      <3>1. u # t
        BY <1>1, <2>1, NoCallType
      <3> QED
        BY <1>1, <2>1, <3>1 DEF HeldInv, Has
    <2> QED
      BY <2>1 DEF HeldInv, Has, Sound
  <1> QED
    BY <1>1, <1>2, <1>3, <1>4, <1>5, <1>6, <1>7

\* The lock t gives up is one it has, and nobody else's part in it is touched.
LEMMA ReleaseKeeps ==
  ASSUME IInv, NEW t \in Threads, pc[t] = "locked", Release(t, call[t].impl),
         call[t].fn \in {"unlock", "rwunlock", "cond_wait"},
         held' = [held EXCEPT ![t] = @ \ ({call[t].l} \X {"rd", "wr"})],
         UNCHANGED <<build, pthread_to_lock>>,
         \A u \in Threads \ {t} : call'[u] = call[u],
         call'[t].fn \notin {"unlock", "rwunlock", "cond_wait"}
  PROVE  /\ held' \in [Threads -> SUBSET (Locks \X Modes)]
         /\ \A l, mode : <<l, mode>> \in held'[t] => <<l, mode>> \in held[t]
         /\ \A u \in Threads \ {t} : held'[u] = held[u]
         /\ owner' \in [Impls -> Threads \cup {NULL}] /\ readers' \in [Impls -> SUBSET Threads]
         /\ \A j \in Impls \ {call[t].impl} : owner'[j] = owner[j] /\ readers'[j] = readers[j]
         /\ HeldInv'
  <1> USE DEF IInv
  <1> DEFINE k == call[t].impl
             l == call[t].l
  <1>1. l \in Locks /\ k \in Impls /\ k # NULL /\ pthread_to_lock[l] = k
    BY LockedCall
  <1>2. /\ held' \in [Threads -> SUBSET (Locks \X Modes)]
        /\ held'[t] \subseteq held[t] /\ <<l, "rd">> \notin held'[t] /\ <<l, "wr">> \notin held'[t]
        /\ \A u \in Threads \ {t} : held'[u] = held[u]
    BY DEF TypeInv, Modes
  <1>3. Has(t, l)
    BY DEF HeldInv
  <1> HIDE DEF k, l
  <1>4. /\ owner' \in [Impls -> Threads \cup {NULL}] /\ readers' \in [Impls -> SUBSET Threads]
        /\ \A j \in Impls \ {k} : owner'[j] = owner[j] /\ readers'[j] = readers[j]
        /\ t \in readers[k] => readers'[k] = readers[k] \ {t} /\ owner'[k] = owner[k]
        /\ t \notin readers[k] => readers'[k] = readers[k] /\ owner'[k] = NULL
    <2>1. Release(t, k)
      BY DEF k
    <2> QED
      BY <1>1, <2>1 DEF Release, TypeInv
  <1>5. \A j \in Impls : owner'[j] # NULL => readers'[j] = {}
    BY <1>4 DEF HeldInv
  <1>6. \A u \in Threads, m \in Mutexes : <<m, "rd">> \notin held'[u]
    BY <1>2 DEF HeldInv
  <1>7. ASSUME NEW u \in Threads, NEW m \in Locks, Sound(m), <<m, "wr">> \in held'[u]
        PROVE  pthread_to_lock'[m] # NULL /\ owner'[pthread_to_lock'[m]] = u
    <2>1. <<m, "wr">> \in held[u] /\ ~(u = t /\ m = l)
      BY <1>2, <1>7
    <2>2. pthread_to_lock[m] # NULL /\ owner[pthread_to_lock[m]] = u /\ u # NULL
      BY <1>7, <2>1, NoNull DEF HeldInv
    <2>3. pthread_to_lock[m] # k
      <3>1. SUFFICES ASSUME pthread_to_lock[m] = k PROVE FALSE
        OBVIOUS
      <3>2. m = l /\ u # t
        BY <1>1, <2>1, <2>2, <3>1 DEF TableInv
      <3>3. owner[k] = t \/ t \in readers[k]
        BY <1>1, <1>3, <1>7, <3>2 DEF HeldInv, Has
      <3> QED
        BY <1>1, <2>2, <3>1, <3>2, <3>3 DEF HeldInv
    <2>4. pthread_to_lock[m] \in Impls \ {k}
      BY <2>2, <2>3 DEF TypeInv
    <2> QED
      BY <1>4, <2>2, <2>4
  <1>8. ASSUME NEW u \in Threads, NEW m \in Locks, Sound(m), <<m, "rd">> \in held'[u]
        PROVE  pthread_to_lock'[m] # NULL /\ u \in readers'[pthread_to_lock'[m]]
    <2>1. <<m, "rd">> \in held[u] /\ ~(u = t /\ m = l)
      BY <1>2, <1>8
    <2>2. pthread_to_lock[m] # NULL /\ u \in readers[pthread_to_lock[m]]
      BY <1>8, <2>1 DEF HeldInv
    <2>3. CASE pthread_to_lock[m] = k
      <3>1. m = l /\ u # t
        BY <1>1, <2>1, <2>2, <2>3 DEF TableInv
      <3> QED
        BY <1>4, <2>2, <2>3, <3>1
    <2>4. CASE pthread_to_lock[m] # k
      <3>1. pthread_to_lock[m] \in Impls \ {k}
        BY <2>2, <2>4 DEF TypeInv
      <3> QED
        BY <1>4, <2>2, <3>1
    <2> QED
      BY <2>3, <2>4
  <1>9. ASSUME NEW u \in Threads, call'[u].fn \in {"unlock", "rwunlock", "cond_wait"}
        PROVE  \E o \in {"rd", "wr"} : <<call'[u].l, o>> \in held'[u]
    <2>1. u # t
      BY <1>9
    <2> QED
      BY <1>2, <1>9, <2>1 DEF HeldInv, Has
  <1>10. HeldInv'
    <2>1. \A m : Sound(m)' = Sound(m)
      BY DEF Sound
    <2> QED
      BY <1>5, <1>6, <1>7, <1>8, <1>9, <2>1 DEF HeldInv, Has, Sound
  <1> QED
    BY <1>2, <1>4, <1>10 DEF k

\* A lock is released.
LEMMA UnlockStep ==
  ASSUME IInv, NEW t \in Threads, NEW fn \in {"unlock", "rwunlock"}, Unlocked(t, fn)
  PROVE  IInv'
  <1> USE DEF IInv
  <1>1. /\ pc[t] = "locked" /\ call[t].fn = fn /\ Return(t) /\ Release(t, call[t].impl)
        /\ held' = [held EXCEPT ![t] = @ \ ({call[t].l} \X {"rd", "wr"})]
        /\ UNCHANGED <<build, pthread_to_lock, allocated, cur_thread_id, last_thread_id>>
    BY DEF Unlocked, ReturnsFrom, Others, threads
  <1>2. /\ call' \in [Threads -> CallRec] /\ pc' \in [Threads -> Pcs]
        /\ call'[t] = NoCall /\ pc'[t] = "idle"
        /\ \A u \in Threads \ {t} : call'[u] = call[u] /\ pc'[u] = pc[u]
        /\ CallInv'
    BY <1>1, ReturnKeeps
  <1>3. /\ held' \in [Threads -> SUBSET (Locks \X Modes)]
        /\ \A l, mode : <<l, mode>> \in held'[t] => <<l, mode>> \in held[t]
        /\ \A u \in Threads \ {t} : held'[u] = held[u]
        /\ owner' \in [Impls -> Threads \cup {NULL}] /\ readers' \in [Impls -> SUBSET Threads]
        /\ \A j \in Impls \ {call[t].impl} : owner'[j] = owner[j] /\ readers'[j] = readers[j]
        /\ HeldInv'
    BY <1>1, <1>2, NoCallType, ReleaseKeeps
  <1>4. TypeInv'
    BY <1>1, <1>2, <1>3 DEF TypeInv
  <1>5. IdInv'
    BY <1>1, IdKept
  <1>6. AloneInv'
    BY <1>2, <1>3, AloneAfterReturn
  <1>7. TableInv'
    BY <1>1, <1>2, <1>3, LockedCall, TableKept
  <1>8. AllocInv'
    BY <1>1, <1>2, AllocKept
  <1> QED
    BY <1>2, <1>3, <1>4, <1>5, <1>6, <1>7, <1>8

\* A call at the algorithm's door goes on there as a call of another function.
LEMMA CallMoved ==
  ASSUME CallInv, NEW t \in Threads, pc[t] = "locked", UNCHANGED <<build, pc>>,
         \A u \in Threads \ {t} : call'[u] = call[u],
         call'[t].l \in Locks, call'[t].fn \in Fns(call'[t].l), call'[t].fn \notin {"init", "destroy"}
  PROVE  CallInv'
  <1> SUFFICES ASSUME NEW u \in Threads
               PROVE  /\ pc'[u] \in CallPcs => call'[u].l \in Locks /\ call'[u].fn \in Fns(call'[u].l)
                      /\ pc'[u] \notin CallPcs => call'[u] = NoCall
                      /\ pc'[u] \in {"get", "locked", "real"} => call'[u].fn \notin {"init", "destroy"}
                      /\ pc'[u] \in {"create", "put", "get2"} => call'[u].fn # "destroy"
                      /\ pc'[u] = "real" => build' = "mutex" /\ call'[u].l \in RwLocks
                      /\ pc'[u] = "return" => call'[u].fn = "init"
                      /\ pc'[u] = "remove" => call'[u].fn = "destroy"
    BY DEF CallInv, Locks, Fns
  <1>1. CASE u # t
    BY <1>1 DEF CallInv
  <1>2. CASE u = t
    BY <1>2 DEF CallPcs
  <1> QED
    BY <1>1, <1>2

\* A wait gives up the mutex and goes on as a call of pthread_mutex_lock.
LEMMA WaitStep ==
  ASSUME IInv, NEW t \in Threads, pthread_cond_wait(t)
  PROVE  IInv'
  <1> USE DEF IInv
  <1> DEFINE r == [call[t] EXCEPT !.fn = "lock"]
  <1>1. /\ pc[t] = "locked" /\ call[t].fn = "cond_wait" /\ Release(t, call[t].impl)
        /\ held' = [held EXCEPT ![t] = @ \ ({call[t].l} \X {"rd", "wr"})]
        /\ call' = [call EXCEPT ![t] = r]
        /\ UNCHANGED <<build, pthread_to_lock, allocated, cur_thread_id, last_thread_id, pc>>
    BY DEF pthread_cond_wait, Others, threads
  <1>2. /\ call[t].l \in Locks /\ call[t].fn \in Fns(call[t].l) /\ call[t].impl \in Impls
        /\ pthread_to_lock[call[t].l] = call[t].impl /\ call[t].impl # NULL
    BY <1>1, LockedCall
  <1>3. "lock" \in Fns(call[t].l) /\ "lock" \in AllFns
    BY <1>1, <1>2, FnsOfLocks DEF Fns, AllFns
  <1>4. r \in CallRec /\ r.fn = "lock" /\ r.l = call[t].l /\ r.impl = call[t].impl
    <2>1. call[t] \in CallRec
      BY DEF TypeInv
    <2> QED
      BY <1>3, <2>1 DEF CallRec
  <1> HIDE DEF r
  <1>5. /\ call' \in [Threads -> CallRec] /\ call'[t] = r
        /\ \A u \in Threads \ {t} : call'[u] = call[u] /\ pc'[u] = pc[u]
    BY <1>1, <1>4 DEF TypeInv
  <1>6. /\ held' \in [Threads -> SUBSET (Locks \X Modes)]
        /\ \A l, mode : <<l, mode>> \in held'[t] => <<l, mode>> \in held[t]
        /\ \A u \in Threads \ {t} : held'[u] = held[u]
        /\ owner' \in [Impls -> Threads \cup {NULL}] /\ readers' \in [Impls -> SUBSET Threads]
        /\ \A j \in Impls \ {call[t].impl} : owner'[j] = owner[j] /\ readers'[j] = readers[j]
        /\ HeldInv'
    BY <1>1, <1>4, <1>5, ReleaseKeeps
  <1>7. TypeInv'
    BY <1>1, <1>5, <1>6 DEF TypeInv
  <1>8. IdInv'
    BY <1>1, IdKept
  <1>9. CallInv'
    BY <1>1, <1>2, <1>3, <1>4, <1>5, CallMoved
  <1>10. AloneInv'
    <2>1. \A u \in Threads : call'[u].l = call[u].l
      BY <1>4, <1>5
    <2>2. \A u \in Threads : call'[u].fn \in {"init", "destroy"} => call[u].fn \in {"init", "destroy"}
      BY <1>4, <1>5
    <2>3. \A u \in Threads : \A l, mode : <<l, mode>> \in held'[u] => <<l, mode>> \in held[u]
      BY <1>6
    <2> QED
      BY <2>1, <2>2, <2>3 DEF AloneInv, Has
  <1>11. TableInv'
    BY <1>1, <1>2, <1>4, <1>5, <1>6, TableKept
  <1>12. AllocInv'
    BY <1>1, <1>5, AllocKept
  <1> QED
    BY <1>6, <1>7, <1>8, <1>9, <1>10, <1>11, <1>12

\* The real pthread_rwlock_tryrdlock or trywrlock is called instead of the library's.
LEMMA RealStep ==
  ASSUME IInv, NEW t \in Threads, RealTry(t)
  PROVE  IInv'
  <1> USE DEF IInv
  <1> DEFINE l == call[t].l
             mode == Mode(call[t].fn)
  <1>1. /\ pc[t] = "real" /\ Return(t)
        /\ UNCHANGED <<build, pthread_to_lock, allocated, readers, owner, cur_thread_id, last_thread_id>>
    BY DEF RealTry, Others, threads
  <1>2. build = "mutex" /\ l \in RwLocks /\ l \in Locks /\ call[t].fn \in Fns(l)
    BY <1>1 DEF CallInv, CallPcs
  <1>3. mode \in Modes
    BY <1>2, FnsOfLocks
  <1>4. held' = held \/ held' = [held EXCEPT ![t] = @ \cup {<<l, mode>>}]
    <2> DEFINE free == real[l] = "free" \/ {real[l], mode} = {"rd"}
    <2>1. held' = [held EXCEPT ![t] = IF free THEN @ \cup {<<l, mode>>} ELSE @]
      BY DEF RealTry
    <2> QED
      BY <2>1 DEF TypeInv
  <1> HIDE DEF mode
  <1>5. /\ held' \in [Threads -> SUBSET (Locks \X Modes)]
        /\ held'[t] \in {held[t], held[t] \cup {<<l, mode>>}}
        /\ \A u \in Threads \ {t} : held'[u] = held[u]
    BY <1>2, <1>3, <1>4 DEF TypeInv
  <1>6. /\ call' \in [Threads -> CallRec] /\ pc' \in [Threads -> Pcs]
        /\ call'[t] = NoCall /\ pc'[t] = "idle"
        /\ \A u \in Threads \ {t} : call'[u] = call[u] /\ pc'[u] = pc[u]
        /\ CallInv'
    BY <1>1, ReturnKeeps
  <1>7. TypeInv'
    BY <1>1, <1>5, <1>6 DEF TypeInv
  <1>8. IdInv'
    BY <1>1, IdKept
  <1>9. AloneInv'
    <2>1. \A m, o : <<m, o>> \in held'[t] => <<m, o>> \in held[t] \/ m = call[t].l
      BY <1>5
    <2> QED
      BY <1>5, <1>6, <2>1, AloneAfterReturn
  <1>10. TableInv'
    BY <1>1, <1>6, TableKept
  <1>11. AllocInv'
    BY <1>1, <1>6, AllocKept
  <1>12. HeldInv'
    <2>1. ~Sound(l) /\ l \notin Mutexes
      BY <1>2, InterposeAssumption DEF Sound
    <2> HIDE DEF l
    <2>2. \A u \in Threads : \A m, o : <<m, o>> \in held'[u] /\ m # l => <<m, o>> \in held[u]
      BY <1>5
    <2>3. ASSUME NEW u \in Threads, call'[u].fn \in {"unlock", "rwunlock", "cond_wait"}
          PROVE  \E o \in {"rd", "wr"} : <<call'[u].l, o>> \in held'[u]
      <3>1. u # t
        BY <1>6, <2>3, NoCallType
      <3> QED
        BY <1>5, <1>6, <2>3, <3>1 DEF HeldInv, Has
    <2>4. \A m : Sound(m)' = Sound(m)
      BY <1>1 DEF Sound
    <2>5. \A j \in Impls : owner'[j] # NULL => readers'[j] = {}
      BY <1>1 DEF HeldInv
    <2>6. \A u \in Threads, m \in Mutexes : <<m, "rd">> \notin held'[u]
      BY <2>1, <2>2 DEF HeldInv
    <2>7. \A u \in Threads, m \in Locks : Sound(m) /\ <<m, "wr">> \in held'[u] =>
            pthread_to_lock'[m] # NULL /\ owner'[pthread_to_lock'[m]] = u
      BY <1>1, <2>1, <2>2 DEF HeldInv
    <2>8. \A u \in Threads, m \in Locks : Sound(m) /\ <<m, "rd">> \in held'[u] =>
            pthread_to_lock'[m] # NULL /\ u \in readers'[pthread_to_lock'[m]]
      BY <1>1, <2>1, <2>2 DEF HeldInv
    <2> QED
      BY <2>3, <2>4, <2>5, <2>6, <2>7, <2>8 DEF HeldInv, Has, Sound
  <1> QED
    BY <1>6, <1>7, <1>8, <1>9, <1>10, <1>11, <1>12

\* A lock is taken out of the table and its memory freed.
LEMMA DestroyStep ==
  ASSUME IInv, NEW t \in Threads, NEW addresses, Destroyed(t, addresses)
  PROVE  IInv'
  <1> USE DEF IInv
  <1> DEFINE l == call[t].l
             k == pthread_to_lock[l]
  <1>1. /\ pc[t] = "remove" /\ Return(t) /\ allocated' = allocated \ {k}
        /\ pthread_to_lock' = [pthread_to_lock EXCEPT ![l] = NULL]
        /\ UNCHANGED <<build, readers, owner, held, cur_thread_id, last_thread_id>>
    BY DEF Destroyed, threads
  <1>2. l \in Locks /\ call[t].fn = "destroy"
    BY <1>1 DEF CallInv, CallPcs
  <1>3. \A u \in Threads : ~Has(u, l) /\ (u # t => call[u].l # l)
    BY <1>2 DEF AloneInv
  <1>4. /\ call' \in [Threads -> CallRec] /\ pc' \in [Threads -> Pcs]
        /\ call'[t] = NoCall /\ pc'[t] = "idle"
        /\ \A u \in Threads \ {t} : call'[u] = call[u] /\ pc'[u] = pc[u]
        /\ CallInv'
    BY <1>1, ReturnKeeps
  <1>5. /\ pthread_to_lock' \in [Locks -> Impls \cup {NULL}] /\ pthread_to_lock'[l] = NULL
        /\ \A m \in Locks \ {l} : pthread_to_lock'[m] = pthread_to_lock[m]
    BY <1>1, <1>2 DEF TypeInv
  <1>6. \A m \in Locks \ {l} : pthread_to_lock[m] # NULL => pthread_to_lock[m] # k
    BY <1>2 DEF TableInv
  <1> HIDE DEF k
  <1>7. TypeInv'
    BY <1>1, <1>4, <1>5 DEF TypeInv
  <1>8. IdInv'
    BY <1>1, IdKept
  <1>9. AloneInv'
    BY <1>1, <1>4, AloneAfterReturn
  <1>10. TableInv'
    <2>1. \A m \in Locks : pthread_to_lock'[m] # NULL => pthread_to_lock'[m] \in allocated'
      BY <1>1, <1>5, <1>6 DEF TableInv
    <2>2. \A m, n \in Locks : pthread_to_lock'[m] = pthread_to_lock'[n] /\ pthread_to_lock'[m] # NULL => m = n
      BY <1>5 DEF TableInv
    <2>3. ASSUME NEW u \in Threads, pc'[u] = "put"
          PROVE  /\ call'[u].impl \in allocated'
                 /\ owner'[call'[u].impl] = NULL /\ readers'[call'[u].impl] = {}
                 /\ \A m \in Locks : pthread_to_lock'[m] # call'[u].impl
                 /\ \A v \in Threads : v # u /\ pc'[v] = "put" => call'[v].impl # call'[u].impl
      <3>1. u # t /\ pc[u] = "put" /\ call'[u] = call[u]
        BY <1>4, <2>3
      <3>2. call[u].impl # k /\ call[u].impl # NULL
        BY <1>2, <3>1, NoNull DEF TableInv, TypeInv, k
      <3>3. \A v \in Threads : v # u /\ pc'[v] = "put" => pc[v] = "put" /\ call'[v] = call[v]
        BY <1>4
      <3> QED
        BY <1>1, <1>5, <3>1, <3>2, <3>3 DEF TableInv
    <2>4. ASSUME NEW u \in Threads, pc'[u] \in {"get2", "locked"}
          PROVE  /\ pc'[u] = "get2" => pthread_to_lock'[call'[u].l] # NULL
                 /\ pc'[u] = "locked" =>
                      call'[u].impl # NULL /\ pthread_to_lock'[call'[u].l] = call'[u].impl
      <3>1. u # t /\ pc'[u] = pc[u] /\ call'[u] = call[u]
        BY <1>4, <2>4
      <3>2. call[u].l \in Locks \ {l}
        BY <1>3, <2>4, <3>1 DEF CallInv, CallPcs
      <3> QED
        BY <1>5, <3>1, <3>2 DEF TableInv
    <2> QED
      BY <2>1, <2>2, <2>3, <2>4 DEF TableInv
  <1>11. AllocInv'
    <2>1. \A j \in allocated : j # k =>
            (\E m \in Locks : m # l /\ pthread_to_lock[m] = j)
            \/ (\E u \in Threads : u # t /\ pc[u] = "put" /\ call[u].impl = j)
      BY <1>1 DEF AllocInv, k
    <2> QED
      BY <1>1, <1>4, <1>5, <2>1 DEF AllocInv
  <1>12. HeldInv'
    <2>1. \A m : Sound(m)' = Sound(m)
      BY <1>1 DEF Sound
    <2>2. \A u \in Threads, m \in Locks, o \in {"rd", "wr"} : <<m, o>> \in held[u] => m \in Locks \ {l}
      BY <1>3 DEF Has
    <2>3. \A u \in Threads, m \in Locks : Sound(m) /\ <<m, "wr">> \in held'[u] =>
            pthread_to_lock'[m] # NULL /\ owner'[pthread_to_lock'[m]] = u
      <3> SUFFICES ASSUME NEW u \in Threads, NEW m \in Locks, Sound(m), <<m, "wr">> \in held'[u]
                   PROVE  pthread_to_lock'[m] # NULL /\ owner'[pthread_to_lock'[m]] = u
        OBVIOUS
      <3>1. <<m, "wr">> \in held[u] /\ pthread_to_lock'[m] = pthread_to_lock[m]
        BY <1>1, <1>5, <2>2
      <3> QED
        BY <1>1, <3>1 DEF HeldInv
    <2>4. \A u \in Threads, m \in Locks : Sound(m) /\ <<m, "rd">> \in held'[u] =>
            pthread_to_lock'[m] # NULL /\ u \in readers'[pthread_to_lock'[m]]
      BY <1>1, <1>5, <2>2 DEF HeldInv
    <2>5. ASSUME NEW u \in Threads, call'[u].fn \in {"unlock", "rwunlock", "cond_wait"}
          PROVE  \E o \in {"rd", "wr"} : <<call'[u].l, o>> \in held'[u]
      <3>1. u # t
        BY <1>4, <2>5, NoCallType
      <3> QED
        BY <1>1, <1>4, <2>5, <3>1 DEF HeldInv, Has
    <2>6. /\ \A j \in Impls : owner'[j] # NULL => readers'[j] = {}
          /\ \A u \in Threads, m \in Mutexes : <<m, "rd">> \notin held'[u]
      BY <1>1 DEF HeldInv
    <2> QED
      BY <2>1, <2>3, <2>4, <2>5, <2>6 DEF HeldInv, Has, Sound
  <1> QED
    BY <1>4, <1>7, <1>8, <1>9, <1>10, <1>11, <1>12

-----------------------------------------------------------------------------
(* The invariant and what follows from it.                                   *)

\* It holds before the library is loaded.
LEMMA InitIInv == Init => IInv
  <1> SUFFICES ASSUME Init
               PROVE  IInv
    OBVIOUS
  <1>1. TypeInv
    BY NoCallType DEF Init, TypeInv, Pcs
  <1>2. IdInv
    BY DEF Init, IdInv
  <1>3. CallInv
    BY NoCallType DEF Init, CallInv, CallPcs
  <1>4. AloneInv
    BY NoCallType DEF Init, AloneInv
  <1>5. TableInv
    BY DEF Init, TableInv
  <1>6. AllocInv
    BY DEF Init, AllocInv
  <1>7. HeldInv
    BY NoCallType DEF Init, HeldInv
  <1> QED
    BY <1>1, <1>2, <1>3, <1>4, <1>5, <1>6, <1>7 DEF IInv

\* Every step of every thread keeps it.
LEMMA NextIInv == IInv /\ [Next]_vars => IInv'
  <1> SUFFICES ASSUME IInv, [Next]_vars
               PROVE  IInv'
    OBVIOUS
  <1>1. CASE UNCHANGED vars
    BY <1>1 DEF vars, IInv, TypeInv, IdInv, CallInv, AloneInv, TableInv, AllocInv, HeldInv, Has, Sound
  <1>2. CASE interpose_init
    BY <1>2, TakeIdStep, InterposeAssumption DEF interpose_init
  <1>3. ASSUME NEW t \in Threads, ThreadStep(t)
        PROVE  IInv'
    <2>1. ASSUME NEW u \in Threads, pthread_create(t, u)
          PROVE  IInv'
      BY <2>1, CreateStep
    <2>2. CASE lp_start_routine(t)
      BY <2>2, TakeIdStep DEF lp_start_routine
    <2>3. CASE ThreadReturns(t)
      BY <2>3, ReturnsStep
    <2>4. ASSUME NEW l \in Locks, NEW fn \in Fns(l), Call(t, fn, l)
          PROVE  IInv'
      BY <2>4, CallStep
    <2>5. CASE ht_lock_get(t)
      BY <2>5, GetStep
    <2>6. CASE ht_lock_create(t)
      BY <2>6, CreateImplStep, PutStep, PutFailsStep, GetAfterPutStep DEF ht_lock_create
    <2>7. CASE pthread_mutex_lock(t) \/ pthread_rwlock_rdlock(t) \/ pthread_rwlock_wrlock(t)
      BY <2>7, AcquireStep DEF pthread_mutex_lock, pthread_rwlock_rdlock, pthread_rwlock_wrlock, Locked
    <2>8. ASSUME NEW fn \in {"trylock", "tryrdlock", "trywrlock"}, Tried(t, fn)
          PROVE  IInv'
      <3>1. CASE Acquire(t)
        BY <2>8, <3>1, AcquireStep DEF Tried
      <3>2. CASE UNCHANGED <<readers, owner, held>>
        BY <2>8, <3>2, NothingStep DEF Tried, ReturnsFrom, Others, threads
      <3> QED
        BY <2>8, <3>1, <3>2 DEF Tried
    <2>9. CASE pthread_mutex_unlock(t) \/ pthread_rwlock_unlock(t)
      BY <2>9, UnlockStep DEF pthread_mutex_unlock, pthread_rwlock_unlock
    <2>10. CASE RealTry(t)
      BY <2>10, RealStep
    <2>11. CASE pthread_cond_wait(t)
      BY <2>11, WaitStep
    <2>12. CASE pthread_mutex_init(t) \/ pthread_rwlock_init(t)
      BY <2>12, NothingStep
      DEF pthread_mutex_init, pthread_rwlock_init, Initialised, memory, threads
    <2>13. CASE pthread_mutex_destroy(t) \/ pthread_rwlock_destroy(t)
      BY <2>13, DestroyStep DEF pthread_mutex_destroy, pthread_rwlock_destroy
    <2> QED
      BY <1>3, <2>1, <2>2, <2>3, <2>4, <2>5, <2>6, <2>7, <2>8, <2>9, <2>10, <2>11, <2>12, <2>13
      DEF ThreadStep, pthread_mutex_trylock, pthread_rwlock_tryrdlock, pthread_rwlock_trywrlock
  <1> QED
    BY <1>1, <1>2, <1>3 DEF Next

\* The invariant holds in every state a program linked with the library reaches.
LEMMA Invariant == Spec => []IInv
  BY InitIInv, NextIInv, PTL DEF Spec

\* Who has a lock, other than for reading, has it alone: two threads that hold it
\* would both be the owner of the one Impl the table leads to, or one its owner
\* and the other one of its readers.
THEOREM InterposeLockExclusion == Spec => []LockExclusion
  <1>1. IInv => LockExclusion
    <2> SUFFICES ASSUME IInv, NEW l \in Locks, Sound(l), NEW t \in Threads, NEW u \in Threads,
                        <<l, "wr">> \in held[t], Has(u, l)
                 PROVE  t = u
      BY DEF LockExclusion, Exclusive, Sound
    <2>1. pthread_to_lock[l] # NULL /\ owner[pthread_to_lock[l]] = t
      BY DEF IInv, HeldInv
    <2>2. pthread_to_lock[l] \in Impls
      BY <2>1 DEF IInv, TypeInv
    <2>3. readers[pthread_to_lock[l]] = {}
      BY <2>1, <2>2, NoNull DEF IInv, HeldInv
    <2> QED
      BY <2>1, <2>3 DEF IInv, HeldInv, Has
  <1> QED
    BY <1>1, Invariant, PTL

\* The Impl a call has found stays in the table under its lock's address until the
\* call returns, and a mutex that is held is never taken out of the table.
THEOREM InterposeImplStable == Spec => []ImplStable
  <1>1. IInv => ImplStable
    BY LockedCall DEF IInv, HeldInv, TableInv, ImplStable, Has, Sound, Locks
  <1> QED
    BY <1>1, Invariant, PTL

\* No two running threads have the same id, and no id is beyond the contexts of a
\* lock, however many threads have come and gone.
THEOREM InterposeContextsDistinct == Spec => []ContextsDistinct
  <1>1. IInv => ContextsDistinct
    BY DEF IInv, IdInv, ContextsDistinct
  <1> QED
    BY <1>1, Invariant, PTL
==============================================================================
