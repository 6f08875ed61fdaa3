----------------------------- MODULE RwLocksProof -----------------------------
(***************************************************************************)
(* Theorems about RwLocks: each of the locks implements RwLock and is left *)
(* free, for any number of threads and NUMA nodes.                         *)
(***************************************************************************)
EXTENDS RwLocks, LockApiProof

-----------------------------------------------------------------------------
(* The mapping.                                                              *)

\* What a program point is to RwLock.
Class(p) ==
  CASE p \in Reading -> "rd"
    [] p \in Writing -> "wr"
    [] p \in RdWaiting -> "rdlock"
    [] p \in Trying \cup {"idle", "lcas", "lpass"} -> "idle"
    [] OTHER -> "wrlock"

Moves(t) == pc' = [pc EXCEPT ![t] = pc'[t]]

\* A step of t that RwLock allows or does not see.
RwAllowed(t) ==
  LET from == Class(pc[t])
      to == Class(pc'[t])
  IN  \/ from = to
      \/ from = "idle" /\ to \in {"rdlock", "wrlock"}
      \/ from \in {"idle", "rdlock"} /\ to = "rd" /\ \A u \in Threads : pc[u] \notin Writing
      \/ from \in {"idle", "wrlock"} /\ to = "wr" /\ \A u \in Threads : pc[u] \notin Reading \cup Writing
      \/ from \in {"rd", "wr"} /\ to = "idle"
      \/ from = "wr" /\ to = "rd"

LEMMA RwPcIs == RwPc = [t \in Threads |-> Class(pc[t])]
  BY DEF RwPc, Class

LEMMA ClassOf ==
  /\ \A p \in Reading : Class(p) = "rd"
  /\ \A p \in Writing : Class(p) = "wr"
  /\ \A p \in RdWaiting : Class(p) = "rdlock"
  /\ \A p \in Trying \cup {"idle", "lcas", "lpass"} : Class(p) = "idle"
  /\ \A p : p \notin Reading => Class(p) # "rd"
  /\ \A p : p \notin Writing => Class(p) # "wr"
  /\ \A p \in {"lock", "link", "spin", "start", "glink", "gspin", "posix",
               "wrcas", "wrmutex", "wrread"} : Class(p) = "wrlock"
  <1>1. /\ \A p \in Writing : p \notin Reading
        /\ \A p \in RdWaiting : p \notin Reading \cup Writing
        /\ \A p \in Trying \cup {"idle", "lcas", "lpass"} : p \notin Reading \cup Writing \cup RdWaiting
    BY DEF Reading, Writing, RdWaiting, Trying
  <1>2. \A p \in {"lock", "link", "spin", "start", "glink", "gspin", "posix",
                  "wrcas", "wrmutex", "wrread"} :
           p \notin Reading \cup Writing \cup RdWaiting \cup Trying \cup {"idle", "lcas", "lpass"}
    BY DEF Reading, Writing, RdWaiting, Trying
  <1> QED
    BY <1>1, <1>2 DEF Class

\* Every step that is allowed is one of RwLock or leaves its state alone.
LEMMA RwAllowedStep ==
  ASSUME NEW S, pc \in [Threads -> S], NEW t \in Threads, Moves(t), RwAllowed(t)
  PROVE  [RW!Next]_RwPc
  <1>1. /\ pc' \in [Threads -> S \cup {pc'[t]}]
        /\ \A u \in Threads : u # t => pc'[u] = pc[u]
    BY DEF Moves
  <1>2. RwPc' = [u \in Threads |-> Class(pc'[u])]
    BY RwPcIs DEF RwPc, Class
  <1>3. RwPc' = [RwPc EXCEPT ![t] = Class(pc'[t])]
    BY <1>1, <1>2, RwPcIs
  <1>4. \A u \in Threads : RwPc[u] = Class(pc[u])
    BY RwPcIs
  <1>5. RwPc \in [Threads -> {Class(p) : p \in S}]
    BY RwPcIs
  <1>6. CASE Class(pc'[t]) = Class(pc[t])
    BY <1>3, <1>4, <1>5, <1>6
  <1>7. CASE Class(pc'[t]) # Class(pc[t])
    <2>1. /\ \A u \in Threads : pc[u] \notin Writing => RwPc[u] # "wr"
          /\ \A u \in Threads : pc[u] \notin Reading \cup Writing => RwPc[u] \notin {"rd", "wr"}
      BY <1>4, ClassOf
    <2>2. RW!Call(t) \/ RW!GetRead(t) \/ RW!GetWrite(t) \/ RW!Unlock(t) \/ RW!Downgrade(t)
      <3> PICK from, to : from = RwPc[t] /\ to = Class(pc'[t])
        OBVIOUS
      <3>1. \/ from = "idle" /\ to \in {"rdlock", "wrlock"}
            \/ from \in {"idle", "rdlock"} /\ to = "rd" /\ \A u \in Threads : RwPc[u] # "wr"
            \/ from \in {"idle", "wrlock"} /\ to = "wr"
               /\ \A u \in Threads : RwPc[u] \notin {"rd", "wr"}
            \/ from \in {"rd", "wr"} /\ to = "idle"
            \/ from = "wr" /\ to = "rd"
        BY <1>4, <1>7, <2>1 DEF RwAllowed
      <3> QED
        BY <1>3, <3>1 DEF RW!Call, RW!GetRead, RW!GetWrite, RW!Unlock, RW!Downgrade
    <2> QED
      BY <2>2 DEF RW!Next
  <1> QED
    BY <1>6, <1>7

-----------------------------------------------------------------------------
(* Counting.                                                                 *)

LEMMA CountUp ==
  ASSUME NEW S \in SUBSET Threads, NEW t \in Threads, t \notin S
  PROVE  Cardinality(S \cup {t}) = Cardinality(S) + 1 /\ Cardinality(S) \in Nat
         /\ Cardinality(S) + 1 <= Cardinality(Threads)
  <1>1. IsFiniteSet(Threads)
    BY RwLocksAssumption
  <1>2. IsFiniteSet(S) /\ IsFiniteSet(S \cup {t})
    BY <1>1, FS_Subset
  <1>3. Cardinality(S \cup {t}) = Cardinality(S) + 1
    BY <1>2, FS_AddElement
  <1>4. Cardinality(S \cup {t}) <= Cardinality(Threads)
    BY <1>1, FS_Subset
  <1> QED
    BY <1>2, <1>3, <1>4, FS_CardinalityType

LEMMA CountDown ==
  ASSUME NEW S \in SUBSET Threads, NEW t \in S
  PROVE  /\ Cardinality(S \ {t}) = Cardinality(S) - 1 /\ Cardinality(S) \in Nat \ {0}
         /\ Cardinality(S) <= Cardinality(Threads)
  <1>1. IsFiniteSet(Threads)
    BY RwLocksAssumption
  <1>2. IsFiniteSet(S)
    BY <1>1, FS_Subset
  <1>3. Cardinality(S \ {t}) = Cardinality(S) - 1 /\ Cardinality(S) \in Nat /\ Cardinality(S) # 0
    BY <1>2, FS_RemoveElement, FS_CardinalityType, FS_EmptySet
  <1>4. Cardinality(S) <= Cardinality(Threads)
    BY <1>1, FS_Subset
  <1> QED
    BY <1>3, <1>4

LEMMA CountNone ==
  ASSUME NEW S \in SUBSET Threads
  PROVE  /\ Cardinality(S) \in Nat /\ Cardinality(S) <= MAX_RW
         /\ Cardinality(S) = 0 <=> S = {}
  <1>1. IsFiniteSet(Threads) /\ Cardinality(Threads) \in Nat
    BY RwLocksAssumption, FS_CardinalityType
  <1>2. IsFiniteSet(S) /\ Cardinality(S) \in Nat /\ Cardinality(S) <= Cardinality(Threads)
    BY <1>1, FS_Subset, FS_CardinalityType
  <1> QED
    BY <1>1, <1>2, FS_EmptySet, RwLocksAssumption

\* Taking one from a count that is not 0 does not wrap around.
LEMMA DownByOne ==
  ASSUME NEW w \in Nat \ {0}, NEW c \in 1..w
  PROVE  (c + w - 1) % w = c - 1
  <1>1. PICK k : k = c - 1
    OBVIOUS
  <1>2. k \in Nat /\ k < w /\ c + w - 1 = k + w
    BY <1>1
  <1>3. (k + w) % w = k
    BY <1>2
  <1> QED
    BY <1>1, <1>2, <1>3

-----------------------------------------------------------------------------
(* ttasrw.c.                                                                 *)

\* Who the count or the writer's mask in lock_data stands for.
TtasCounted == {"rdposix", "rdtryposix", "rd", "rdunlock", "rdrelease"}
TtasOwning == {"wrposix", "wrtryposix", "wr", "wrunlock", "wrrelease"}
TtasPcs == TtasCounted \cup TtasOwning \cup {"idle", "lock", "rdlock", "rdcas", "wrcas", "trycas"}

TtasReaders == {t \in Threads : pc[t] \in TtasCounted}
TtasWriters == {t \in Threads : pc[t] \in TtasOwning}

TtasType ==
  /\ pc \in [Threads -> TtasPcs]
  /\ lk \in [lock_data : Nat, rd : SUBSET Threads, wr : Threads \cup {NULL}]
  /\ loc = [t \in Threads |-> loc[t]]

\* What a thread has read from lock_data.
TtasRead ==
  \A t \in Threads : /\ pc[t] \in {"rdcas", "trycas"} => loc[t] \in 0..MAX_RW
                     /\ pc[t] = "rdrelease" => loc[t] = FALSE
                     /\ pc[t] = "wrrelease" => loc[t] = TRUE

\* lock_data is the number of the readers, or the mask of the only writer.
TtasData ==
  /\ \A t, u \in TtasWriters : t = u
  /\ TtasWriters # {} => TtasReaders = {} /\ lk.lock_data = MAX_RW + 1
  /\ TtasWriters = {} => lk.lock_data = Cardinality(TtasReaders)

\* Who has the real lock.
TtasReal ==
  /\ lk.rd = {t \in Threads : pc[t] = "rd"}
  /\ \A t \in Threads : lk.wr = t <=> pc[t] = "wr"

TtasInv == TtasType /\ TtasRead /\ TtasData /\ TtasReal

\* A step from one program point to another that leaves lk alone.
LEMMA TtasQuiet ==
  ASSUME TtasInv, NEW t \in Threads, Moves(t), lk' = lk, pc'[t] \in TtasPcs,
         pc[t] \in TtasCounted <=> pc'[t] \in TtasCounted,
         pc[t] \in TtasOwning <=> pc'[t] \in TtasOwning,
         pc[t] \notin {"rd", "wr"}, pc'[t] \notin {"rd", "wr"},
         loc' = [loc EXCEPT ![t] = loc'[t]],
         pc'[t] \in {"rdcas", "trycas"} => loc'[t] \in 0..MAX_RW,
         pc'[t] = "rdrelease" => loc'[t] = FALSE,
         pc'[t] = "wrrelease" => loc'[t] = TRUE
  PROVE  TtasInv'
  <1>1. \A u \in Threads : u # t => pc'[u] = pc[u] /\ loc'[u] = loc[u]
    BY DEF TtasInv, TtasType, Moves
  <1>2. TtasType'
    BY DEF TtasInv, TtasType, Moves
  <1>3. TtasReaders' = TtasReaders /\ TtasWriters' = TtasWriters
    BY <1>1 DEF TtasReaders, TtasWriters
  <1>4. TtasRead'
    BY <1>1 DEF TtasInv, TtasRead
  <1>5. TtasData'
    BY <1>3 DEF TtasInv, TtasData
  <1>6. TtasReal'
    BY <1>1 DEF TtasInv, TtasReal
  <1> QED
    BY <1>2, <1>4, <1>5, <1>6 DEF TtasInv

\* A step that changes the count or the mask, and nothing else.
LEMMA TtasCas ==
  ASSUME TtasInv, NEW t \in Threads, Moves(t), pc'[t] \in TtasPcs,
         NEW d \in Nat, lk' = [lk EXCEPT !.lock_data = d], TtasData',
         pc[t] \notin {"rd", "wr"},
         pc'[t] \notin {"rd", "wr", "rdcas", "trycas", "rdrelease", "wrrelease"},
         loc' = [loc EXCEPT ![t] = loc'[t]]
  PROVE  TtasInv'
  <1>1. \A u \in Threads : u # t => pc'[u] = pc[u] /\ loc'[u] = loc[u]
    BY DEF TtasInv, TtasType, Moves
  <1>2. TtasType'
    BY DEF TtasInv, TtasType, Moves
  <1>3. TtasRead'
    BY <1>1 DEF TtasInv, TtasRead
  <1>4. TtasReal'
    BY <1>1 DEF TtasInv, TtasReal, TtasType
  <1> QED
    BY <1>2, <1>3, <1>4 DEF TtasInv

LEMMA TtasFacts ==
  ASSUME TtasInv
  PROVE  /\ lk.lock_data \in Nat /\ MAX_RW \in Nat
         /\ Cardinality(TtasReaders) \in Nat /\ Cardinality(TtasReaders) <= MAX_RW
         /\ Cardinality(TtasReaders) = 0 <=> TtasReaders = {}
         /\ lk.lock_data <= MAX_RW <=> TtasWriters = {}
  <1>1. TtasReaders \in SUBSET Threads
    BY DEF TtasReaders
  <1>2. MAX_RW \in Nat /\ lk.lock_data \in Nat
    BY RwLocksAssumption DEF TtasInv, TtasType
  <1> QED
    BY <1>1, <1>2, CountNone DEF TtasInv, TtasData

LEMMA TtasInitial ==
  ASSUME Ttas!Init
  PROVE  TtasInv
  <1>1. /\ pc = [t \in Threads |-> "idle"] /\ loc = [t \in Threads |-> NULL]
        /\ lk = [lock_data |-> 0, rd |-> {}, wr |-> NULL]
    BY DEF Ttas!Init, Ttas!ApiInit, Ttas!ttasrw_rwlock_create
  <1>2. TtasReaders = {} /\ TtasWriters = {}
    BY <1>1 DEF TtasReaders, TtasWriters, TtasCounted, TtasOwning
  <1>3. TtasType
    BY <1>1 DEF TtasType, TtasPcs
  <1>4. TtasRead
    BY <1>1 DEF TtasRead
  <1>5. TtasData
    BY <1>1, <1>2, FS_EmptySet DEF TtasData
  <1>6. TtasReal
    BY <1>1, LockApiAssumption DEF TtasReal
  <1> QED
    BY <1>3, <1>4, <1>5, <1>6 DEF TtasInv

\* The compare-and-swap of a reader.
LEMMA TtasRdCas ==
  ASSUME TtasInv, NEW t \in Threads, NEW from \in {"rdcas", "trycas"}, NEW again \in {"rdlock", "idle"},
         NEW to \in {"rdposix", "rdtryposix"}, Ttas!RdCas(t, from, to, again)
  PROVE  TtasInv' /\ Moves(t) /\ pc[t] = from
         /\ (pc'[t] = again \/ (pc'[t] = to /\ TtasWriters = {}))
  <1>1. pc[t] = from /\ pc \in [Threads -> TtasPcs]
    BY DEF Ttas!RdCas, Ttas!Step, TtasInv, TtasType
  <1>2. loc' = [loc EXCEPT ![t] = NULL] /\ loc' = [loc EXCEPT ![t] = loc'[t]]
    BY DEF Ttas!RdCas, TtasInv, TtasType
  <1>3. CASE lk.lock_data = loc[t]
    <2>1. pc' = [pc EXCEPT ![t] = to] /\ lk' = [lk EXCEPT !.lock_data = lk.lock_data + 1]
      BY <1>3 DEF Ttas!RdCas, Ttas!Step, TtasInv, TtasType
    <2>2. Moves(t) /\ pc'[t] = to /\ \A u \in Threads : u # t => pc'[u] = pc[u]
      BY <1>1, <2>1 DEF Moves
    <2>3. lk.lock_data \in 0..MAX_RW
      BY <1>1, <1>3 DEF TtasInv, TtasRead
    <2>4. TtasWriters = {} /\ lk.lock_data = Cardinality(TtasReaders) /\ lk.lock_data \in Nat
      BY <2>3, TtasFacts DEF TtasInv, TtasData
    <2>5. TtasWriters' = {}
      BY <2>2, <2>4 DEF TtasWriters, TtasOwning
    <2>6. TtasReaders' = TtasReaders \cup {t} /\ t \notin TtasReaders /\ TtasReaders \in SUBSET Threads
      BY <1>1, <2>2 DEF TtasReaders, TtasCounted
    <2>7. lk'.lock_data = Cardinality(TtasReaders')
      <3>1. Cardinality(TtasReaders \cup {t}) = Cardinality(TtasReaders) + 1
        BY <2>6, CountUp
      <3>2. lk'.lock_data = lk.lock_data + 1
        BY <2>1 DEF TtasInv, TtasType
      <3> QED
        BY <2>4, <2>6, <3>1, <3>2
    <2>8. TtasData'
      BY <2>5, <2>7 DEF TtasData
    <2>9. TtasInv'
      <3>1. lk.lock_data + 1 \in Nat
        BY <2>4
      <3> QED
        BY <1>1, <1>2, <2>1, <2>2, <2>8, <3>1, TtasCas DEF TtasPcs, TtasCounted
    <2> QED
      BY <1>1, <2>2, <2>4, <2>9
  <1>4. CASE lk.lock_data # loc[t]
    <2>1. pc' = [pc EXCEPT ![t] = again] /\ lk' = lk
      BY <1>4 DEF Ttas!RdCas, Ttas!Step, TtasInv, TtasType
    <2>2. Moves(t) /\ pc'[t] = again
      BY <1>1, <2>1 DEF Moves
    <2>3. TtasInv'
      BY <1>1, <1>2, <2>1, <2>2, TtasQuiet DEF TtasPcs, TtasCounted, TtasOwning
    <2> QED
      BY <1>1, <2>2, <2>3
  <1> QED
    BY <1>3, <1>4

\* The compare-and-swap of a writer.
LEMMA TtasWrCas ==
  ASSUME TtasInv, NEW t \in Threads, NEW from \in {"wrcas", "idle"}, NEW again \in {"lock", "idle"},
         NEW to \in {"wrposix", "wrtryposix"}, Ttas!WrCas(t, from, to, again)
  PROVE  TtasInv' /\ Moves(t) /\ pc[t] = from
         /\ (pc'[t] = again \/ (pc'[t] = to /\ TtasWriters = {} /\ TtasReaders = {}))
  <1>1. pc[t] = from /\ pc \in [Threads -> TtasPcs]
    BY DEF Ttas!WrCas, Ttas!Step, TtasInv, TtasType
  <1>2. loc' = loc /\ loc' = [loc EXCEPT ![t] = loc'[t]]
    BY DEF Ttas!WrCas, TtasInv, TtasType
  <1>3. CASE lk.lock_data = 0
    <2>1. pc' = [pc EXCEPT ![t] = to] /\ lk' = [lk EXCEPT !.lock_data = MAX_RW + 1]
      BY <1>3 DEF Ttas!WrCas, Ttas!Step, Ttas!W_MASK, TtasInv, TtasType
    <2>2. Moves(t) /\ pc'[t] = to /\ \A u \in Threads : u # t => pc'[u] = pc[u]
      BY <1>1, <2>1 DEF Moves
    <2>3. TtasWriters = {} /\ TtasReaders = {} /\ MAX_RW + 1 \in Nat
      BY <1>3, TtasFacts DEF TtasInv, TtasData
    <2>4. TtasWriters' = {t} /\ TtasReaders' = {}
      BY <2>2, <2>3 DEF TtasWriters, TtasReaders, TtasOwning, TtasCounted
    <2>5. lk'.lock_data = MAX_RW + 1
      BY <2>1 DEF TtasInv, TtasType
    <2>6. TtasData'
      BY <2>4, <2>5 DEF TtasData
    <2>7. TtasInv'
      BY <1>1, <1>2, <2>1, <2>2, <2>3, <2>6, TtasCas DEF TtasPcs, TtasOwning
    <2> QED
      BY <1>1, <2>2, <2>3, <2>7
  <1>4. CASE lk.lock_data # 0
    <2>1. pc' = [pc EXCEPT ![t] = again] /\ lk' = lk
      BY <1>4 DEF Ttas!WrCas, Ttas!Step, TtasInv, TtasType
    <2>2. Moves(t) /\ pc'[t] = again
      BY <1>1, <2>1 DEF Moves
    <2>3. TtasInv'
      BY <1>1, <1>2, <2>1, <2>2, TtasQuiet DEF TtasPcs, TtasCounted, TtasOwning
    <2> QED
      BY <1>1, <2>2, <2>3
  <1> QED
    BY <1>3, <1>4

\* The real lock is taken or given up: lock_data stays.
LEMMA TtasRealStep ==
  ASSUME TtasInv, NEW t \in Threads, Moves(t), loc' = loc,
         NEW rd \in SUBSET Threads, NEW wr \in Threads \cup {NULL}, lk' = [lk EXCEPT !.rd = rd, !.wr = wr],
         \/ /\ pc[t] \in {"rdposix", "rdtryposix"} /\ pc'[t] = "rd" /\ lk.wr = NULL
            /\ rd = lk.rd \cup {t} /\ wr = lk.wr
         \/ /\ pc[t] \in {"wrposix", "wrtryposix"} /\ pc'[t] = "wr" /\ lk.wr = NULL /\ lk.rd = {}
            /\ rd = lk.rd /\ wr = t
         \/ /\ \/ pc[t] = "rd" /\ pc'[t] = "rdunlock"
               \/ pc[t] = "wr" /\ pc'[t] = "wrunlock"
            /\ rd = lk.rd \ {t} /\ wr = IF lk.wr = t THEN NULL ELSE lk.wr
  PROVE  TtasInv'
  <1>1. \A u \in Threads : u # t => pc'[u] = pc[u]
    BY DEF TtasInv, TtasType, Moves
  <1>2. TtasType'
    BY DEF TtasInv, TtasType, Moves, TtasPcs, TtasCounted, TtasOwning
  <1>3. TtasReaders' = TtasReaders /\ TtasWriters' = TtasWriters
    BY <1>1 DEF TtasReaders, TtasWriters, TtasCounted, TtasOwning
  <1>4. TtasRead'
    BY <1>1 DEF TtasInv, TtasRead
  <1>5. lk'.lock_data = lk.lock_data /\ lk'.rd = rd /\ lk'.wr = wr
    BY DEF TtasInv, TtasType
  <1>6. TtasData'
    BY <1>3, <1>5 DEF TtasInv, TtasData
  <1>7. TtasReal'
    BY <1>1, <1>5, LockApiAssumption DEF TtasInv, TtasReal
  <1> QED
    BY <1>2, <1>4, <1>6, <1>7 DEF TtasInv

LEMMA TtasDispatch ==
  ASSUME TtasInv, NEW t \in Threads,
         \/ Ttas!Dispatch(t, "rdunlock", "rdrelease")
         \/ Ttas!Dispatch(t, "wrunlock", "wrrelease")
  PROVE  TtasInv' /\ Moves(t) /\ (\/ pc[t] = "rdunlock" /\ pc'[t] = "rdrelease"
                                  \/ pc[t] = "wrunlock" /\ pc'[t] = "wrrelease")
  <1>1. /\ \/ pc[t] = "rdunlock" /\ pc'[t] = "rdrelease"
           \/ pc[t] = "wrunlock" /\ pc'[t] = "wrrelease"
        /\ Moves(t) /\ lk' = lk /\ loc' = [loc EXCEPT ![t] = lk.lock_data > MAX_RW]
    BY DEF Ttas!Dispatch, Ttas!Step, Moves, TtasInv, TtasType
  <1>2. loc' = [loc EXCEPT ![t] = loc'[t]] /\ loc'[t] = (lk.lock_data > MAX_RW)
    BY <1>1 DEF TtasInv, TtasType
  <1>3. pc[t] = "rdunlock" => TtasWriters = {}
    BY DEF TtasInv, TtasData, TtasReaders, TtasCounted
  <1>4. pc[t] = "wrunlock" => TtasWriters # {}
    BY DEF TtasWriters, TtasOwning
  <1>5. lk.lock_data > MAX_RW <=> TtasWriters # {}
    BY TtasFacts
  <1>6. /\ pc'[t] = "rdrelease" => loc'[t] = FALSE
        /\ pc'[t] = "wrrelease" => loc'[t] = TRUE
    <2>1. CASE lk.lock_data > MAX_RW
      <3>1. loc' = [loc EXCEPT ![t] = TRUE]
        BY <1>1, <2>1
      <3> QED
        BY <1>1, <1>3, <1>5, <2>1, <3>1 DEF TtasInv, TtasType
    <2>2. CASE ~(lk.lock_data > MAX_RW)
      <3>1. loc' = [loc EXCEPT ![t] = FALSE]
        <4>1. (lk.lock_data > MAX_RW) = FALSE
          BY <2>2
        <4> QED
          BY <1>1, <4>1
      <3> QED
        BY <1>1, <1>4, <1>5, <2>2, <3>1 DEF TtasInv, TtasType
    <2> QED
      BY <2>1, <2>2
  <1>7. TtasInv'
    BY <1>1, <1>2, <1>6, TtasQuiet DEF TtasPcs, TtasCounted, TtasOwning
  <1> QED
    BY <1>1, <1>7

\* The count goes down, or the mask goes.
LEMMA TtasRelease ==
  ASSUME TtasInv, NEW t \in Threads, NEW from \in {"rdrelease", "wrrelease"}, Ttas!Release(t, from)
  PROVE  TtasInv' /\ Moves(t) /\ pc[t] = from /\ pc'[t] = "idle"
  <1>1. pc[t] = from /\ pc'[t] = "idle" /\ Moves(t) /\ \A u \in Threads : u # t => pc'[u] = pc[u]
    BY DEF Ttas!Release, Ttas!Step, Moves, TtasInv, TtasType
  <1>2. loc' = [loc EXCEPT ![t] = NULL] /\ loc' = [loc EXCEPT ![t] = loc'[t]]
    BY DEF Ttas!Release, TtasInv, TtasType
  <1>3. /\ TtasReaders' = TtasReaders \ {t} /\ TtasWriters' = TtasWriters \ {t}
        /\ TtasReaders \in SUBSET Threads
    BY <1>1 DEF TtasReaders, TtasWriters, TtasCounted, TtasOwning
  <1>4. CASE from = "rdrelease"
    <2>1. t \in TtasReaders /\ TtasWriters = {} /\ lk.lock_data = Cardinality(TtasReaders)
      BY <1>1, <1>4 DEF TtasReaders, TtasCounted, TtasInv, TtasData
    <2>2. PICK c \in Nat : /\ c = Cardinality(TtasReaders) /\ c # 0 /\ c <= MAX_RW
                           /\ Cardinality(TtasReaders \ {t}) = c - 1
      BY <1>3, <2>1, CountDown, TtasFacts
    <2>3. PICK w : w = (MAX_RW + 1) * (MAX_RW + 1)
      OBVIOUS
    <2>4. w \in Nat \ {0} /\ c \in 1..w
      <3>1. PICK m \in Nat : m = MAX_RW
        BY RwLocksAssumption
      <3>2. w = m * m + m + m + 1 /\ m * m \in Nat
        BY <2>3, <3>1
      <3>3. PICK s \in Nat : s = m * m
        BY <3>2
      <3> QED
        BY <2>2, <3>1, <3>2, <3>3
    <2>5. (c + w - 1) % w = c - 1
      BY <2>4, DownByOne
    <2>6. lk' = [lk EXCEPT !.lock_data = c - 1]
      <3>1. loc[t] = FALSE
        BY <1>1, <1>4 DEF TtasInv, TtasRead
      <3>2. lk' = [lk EXCEPT !.lock_data = (lk.lock_data + Ttas!Word - 1) % Ttas!Word]
        BY <3>1 DEF Ttas!Release, TtasInv, TtasType
      <3>3. Ttas!Word = w
        BY <2>3 DEF Ttas!Word, Ttas!W_MASK
      <3> QED
        BY <2>1, <2>2, <2>5, <3>2, <3>3
    <2>7. lk'.lock_data = c - 1 /\ c - 1 \in Nat
      BY <2>2, <2>6 DEF TtasInv, TtasType
    <2>8. TtasData'
      BY <1>3, <2>1, <2>2, <2>7 DEF TtasData
    <2> QED
      BY <1>1, <1>2, <1>4, <2>6, <2>7, <2>8, TtasCas DEF TtasPcs
  <1>5. CASE from = "wrrelease"
    <2>1. TtasWriters = {t} /\ TtasReaders = {}
      BY <1>1, <1>5 DEF TtasWriters, TtasOwning, TtasInv, TtasData
    <2>2. lk' = [lk EXCEPT !.lock_data = 0]
      <3>1. loc[t] = TRUE
        BY <1>1, <1>5 DEF TtasInv, TtasRead
      <3> QED
        BY <3>1 DEF Ttas!Release, TtasInv, TtasType
    <2>3. lk'.lock_data = 0
      BY <2>2 DEF TtasInv, TtasType
    <2>4. TtasReaders' = {} /\ TtasWriters' = {}
      BY <1>3, <2>1
    <2>5. TtasData'
      BY <2>3, <2>4, FS_EmptySet DEF TtasData
    <2> QED
      BY <1>1, <1>2, <1>5, <2>2, <2>5, TtasCas DEF TtasPcs
  <1> QED
    BY <1>4, <1>5

\* Every step of ttasrw.c.
LEMMA TtasStep ==
  ASSUME TtasInv, NEW t \in Threads, Ttas!ttasrw(t)
  PROVE  TtasInv' /\ Moves(t) /\ RwAllowed(t)
  <1> USE DEF TtasPcs, TtasCounted, TtasOwning
  <1>1. /\ pc \in [Threads -> TtasPcs] /\ pc[t] \in TtasPcs
        /\ loc = [loc EXCEPT ![t] = loc[t]]
    BY DEF TtasInv, TtasType
  <1>2. ASSUME NEW from \in {"idle", "lock"}, NEW to \in {"lock", "rdlock", "wrcas"}, Ttas!Read(t, from, to)
        PROVE  TtasInv' /\ Moves(t) /\ pc[t] = from /\ pc'[t] = to
    <2>1. pc[t] = from /\ pc'[t] = to /\ Moves(t) /\ lk' = lk /\ loc' = loc
      BY <1>1, <1>2 DEF Ttas!Read, Ttas!Step, Ttas!mem, Moves
    <2>2. TtasInv'
      BY <1>1, <2>1, TtasQuiet
    <2> QED
      BY <2>1, <2>2
  <1>3. ASSUME NEW from \in {"idle", "rdlock"}, NEW to \in {"rdcas", "trycas"}, Ttas!ReadData(t, from, to)
        PROVE  TtasInv' /\ Moves(t) /\ pc[t] = from /\ pc'[t] = to
    <2>1. pc[t] = from /\ pc'[t] = to /\ Moves(t) /\ lk' = lk
          /\ loc' = [loc EXCEPT ![t] = lk.lock_data % (MAX_RW + 1)]
      BY <1>1, <1>3 DEF Ttas!ReadData, Ttas!Step, Ttas!W_MASK, Moves
    <2>2. loc' = [loc EXCEPT ![t] = loc'[t]] /\ loc'[t] = lk.lock_data % (MAX_RW + 1)
      BY <2>1 DEF TtasInv, TtasType
    <2>3. lk.lock_data % (MAX_RW + 1) \in 0..MAX_RW
      BY TtasFacts
    <2>4. TtasInv'
      BY <1>1, <2>1, <2>2, <2>3, TtasQuiet
    <2> QED
      BY <2>1, <2>4
  <1>4. CASE Ttas!CallLock(t) \/ Ttas!Read(t, "idle", "rdlock")
    <2>1. TtasInv' /\ Moves(t) /\ pc[t] = "idle" /\ pc'[t] \in {"lock", "rdlock"}
      BY <1>2, <1>4 DEF Ttas!CallLock
    <2>2. Class(pc[t]) = "idle" /\ Class(pc'[t]) \in {"rdlock", "wrlock"}
      BY <2>1, ClassOf DEF RdWaiting
    <2> QED
      BY <2>1, <2>2 DEF RwAllowed
  <1>5. CASE Ttas!ttasrw_rwlock_rdlock(t)
    <2>1. CASE Ttas!ReadData(t, "rdlock", "rdcas")
      <3>1. TtasInv' /\ Moves(t) /\ pc[t] = "rdlock" /\ pc'[t] = "rdcas"
        BY <1>3, <2>1
      <3> QED
        BY <3>1, ClassOf DEF RwAllowed, RdWaiting
    <2>2. CASE Ttas!RdCas(t, "rdcas", "rdposix", "rdlock")
      <3>1. TtasInv' /\ Moves(t) /\ pc[t] = "rdcas"
            /\ (pc'[t] = "rdlock" \/ (pc'[t] = "rdposix" /\ TtasWriters = {}))
        BY <2>2, TtasRdCas
      <3>2. TtasWriters = {} => \A u \in Threads : pc[u] \notin Writing
        BY <1>1 DEF TtasWriters, Writing
      <3>3. Class("rdcas") = "rdlock" /\ Class("rdlock") = "rdlock" /\ Class("rdposix") = "rd"
        BY ClassOf DEF RdWaiting, Reading
      <3> QED
        BY <3>1, <3>2, <3>3 DEF RwAllowed
    <2>3. CASE Ttas!RealRdlock(t, "rdposix")
      <3>1. /\ pc[t] = "rdposix" /\ pc'[t] = "rd" /\ Moves(t) /\ lk.wr = NULL /\ loc' = loc
            /\ lk' = [lk EXCEPT !.rd = lk.rd \cup {t}, !.wr = lk.wr]
            /\ lk.rd \cup {t} \in SUBSET Threads /\ lk.wr \in Threads \cup {NULL}
        BY <2>3 DEF Ttas!RealRdlock, Ttas!Step, Moves, TtasInv, TtasType
      <3>2. TtasInv'
        BY <3>1, TtasRealStep
      <3> QED
        BY <3>1, <3>2, ClassOf DEF RwAllowed, Reading
    <2> QED
      BY <1>5, <2>1, <2>2, <2>3 DEF Ttas!ttasrw_rwlock_rdlock
  <1>6. CASE Ttas!ttasrw_rwlock_wrlock(t)
    <2>1. CASE lk.lock_data = 0 /\ Ttas!Read(t, "lock", "wrcas")
      <3>1. TtasInv' /\ Moves(t) /\ pc[t] = "lock" /\ pc'[t] = "wrcas"
        BY <1>2, <2>1
      <3> QED
        BY <3>1, ClassOf DEF RwAllowed
    <2>2. CASE Ttas!WrCas(t, "wrcas", "wrposix", "lock")
      <3>1. TtasInv' /\ Moves(t) /\ pc[t] = "wrcas"
            /\ (pc'[t] = "lock" \/ (pc'[t] = "wrposix" /\ TtasWriters = {} /\ TtasReaders = {}))
        BY <2>2, TtasWrCas
      <3>2. TtasWriters = {} /\ TtasReaders = {} => \A u \in Threads : pc[u] \notin Reading \cup Writing
        BY <1>1 DEF TtasWriters, TtasReaders, Reading, Writing
      <3>3. Class("wrcas") = "wrlock" /\ Class("lock") = "wrlock" /\ Class("wrposix") = "wr"
        BY ClassOf DEF Writing
      <3> QED
        BY <3>1, <3>2, <3>3 DEF RwAllowed
    <2>3. CASE Ttas!RealWrlock(t, "wrposix")
      <3>1. /\ pc[t] = "wrposix" /\ pc'[t] = "wr" /\ Moves(t) /\ lk.wr = NULL /\ lk.rd = {} /\ loc' = loc
            /\ lk' = [lk EXCEPT !.rd = lk.rd, !.wr = t] /\ lk.rd \in SUBSET Threads
        BY <2>3 DEF Ttas!RealWrlock, Ttas!Step, Moves, TtasInv, TtasType
      <3>2. TtasInv'
        BY <3>1, TtasRealStep
      <3> QED
        BY <3>1, <3>2, ClassOf DEF RwAllowed, Writing
    <2> QED
      BY <1>6, <2>1, <2>2, <2>3 DEF Ttas!ttasrw_rwlock_wrlock
  <1>7. CASE Ttas!ttasrw_rwlock_tryrdlock(t)
    <2>1. CASE Ttas!ReadData(t, "idle", "trycas")
      <3>1. TtasInv' /\ Moves(t) /\ pc[t] = "idle" /\ pc'[t] = "trycas"
        BY <1>3, <2>1
      <3> QED
        BY <3>1, ClassOf DEF RwAllowed, Trying
    <2>2. CASE Ttas!RdCas(t, "trycas", "rdtryposix", "idle")
      <3>1. TtasInv' /\ Moves(t) /\ pc[t] = "trycas"
            /\ (pc'[t] = "idle" \/ (pc'[t] = "rdtryposix" /\ TtasWriters = {}))
        BY <2>2, TtasRdCas
      <3>2. TtasWriters = {} => \A u \in Threads : pc[u] \notin Writing
        BY <1>1 DEF TtasWriters, Writing
      <3>3. Class("trycas") = "idle" /\ Class("idle") = "idle" /\ Class("rdtryposix") = "rd"
        BY ClassOf DEF Trying, Reading
      <3> QED
        BY <3>1, <3>2, <3>3 DEF RwAllowed
    <2>3. CASE Ttas!RealRdlock(t, "rdtryposix")
      <3>1. /\ pc[t] = "rdtryposix" /\ pc'[t] = "rd" /\ Moves(t) /\ lk.wr = NULL /\ loc' = loc
            /\ lk' = [lk EXCEPT !.rd = lk.rd \cup {t}, !.wr = lk.wr]
            /\ lk.rd \cup {t} \in SUBSET Threads /\ lk.wr \in Threads \cup {NULL}
        BY <2>3 DEF Ttas!RealRdlock, Ttas!Step, Moves, TtasInv, TtasType
      <3>2. TtasInv'
        BY <3>1, TtasRealStep
      <3> QED
        BY <3>1, <3>2, ClassOf DEF RwAllowed, Reading
    <2> QED
      BY <1>7, <2>1, <2>2, <2>3 DEF Ttas!ttasrw_rwlock_tryrdlock
  <1>8. CASE Ttas!ttasrw_rwlock_trywrlock(t)
    <2>1. CASE Ttas!WrCas(t, "idle", "wrtryposix", "idle")
      <3>1. TtasInv' /\ Moves(t) /\ pc[t] = "idle"
            /\ (pc'[t] = "idle" \/ (pc'[t] = "wrtryposix" /\ TtasWriters = {} /\ TtasReaders = {}))
        BY <2>1, TtasWrCas
      <3>2. TtasWriters = {} /\ TtasReaders = {} => \A u \in Threads : pc[u] \notin Reading \cup Writing
        BY <1>1 DEF TtasWriters, TtasReaders, Reading, Writing
      <3>3. Class("idle") = "idle" /\ Class("wrtryposix") = "wr"
        BY ClassOf DEF Writing
      <3> QED
        BY <3>1, <3>2, <3>3 DEF RwAllowed
    <2>2. CASE Ttas!RealWrlock(t, "wrtryposix")
      <3>1. /\ pc[t] = "wrtryposix" /\ pc'[t] = "wr" /\ Moves(t) /\ lk.wr = NULL /\ lk.rd = {} /\ loc' = loc
            /\ lk' = [lk EXCEPT !.rd = lk.rd, !.wr = t] /\ lk.rd \in SUBSET Threads
        BY <2>2 DEF Ttas!RealWrlock, Ttas!Step, Moves, TtasInv, TtasType
      <3>2. TtasInv'
        BY <3>1, TtasRealStep
      <3> QED
        BY <3>1, <3>2, ClassOf DEF RwAllowed, Writing
    <2> QED
      BY <1>8, <2>1, <2>2 DEF Ttas!ttasrw_rwlock_trywrlock
  <1>9. CASE Ttas!ttasrw_rwlock_unlock(t)
    <2>1. CASE Ttas!RealUnlock(t, "rd", "rdunlock") \/ Ttas!RealUnlock(t, "wr", "wrunlock")
      <3>1. /\ \/ pc[t] = "rd" /\ pc'[t] = "rdunlock"
               \/ pc[t] = "wr" /\ pc'[t] = "wrunlock"
            /\ Moves(t) /\ loc' = loc
            /\ lk' = [lk EXCEPT !.rd = lk.rd \ {t}, !.wr = IF lk.wr = t THEN NULL ELSE lk.wr]
            /\ lk.rd \ {t} \in SUBSET Threads /\ (IF lk.wr = t THEN NULL ELSE lk.wr) \in Threads \cup {NULL}
        BY <2>1 DEF Ttas!RealUnlock, Ttas!Step, Moves, TtasInv, TtasType
      <3>2. TtasInv'
        BY <3>1, TtasRealStep
      <3> QED
        BY <3>1, <3>2, ClassOf DEF RwAllowed, Reading, Writing
    <2>2. CASE Ttas!Dispatch(t, "rdunlock", "rdrelease") \/ Ttas!Dispatch(t, "wrunlock", "wrrelease")
      <3>1. TtasInv' /\ Moves(t) /\ (\/ pc[t] = "rdunlock" /\ pc'[t] = "rdrelease"
                                     \/ pc[t] = "wrunlock" /\ pc'[t] = "wrrelease")
        BY <2>2, TtasDispatch
      <3> QED
        BY <3>1, ClassOf DEF RwAllowed, Reading, Writing
    <2>3. CASE Ttas!Release(t, "rdrelease") \/ Ttas!Release(t, "wrrelease")
      <3>1. TtasInv' /\ Moves(t) /\ pc[t] \in {"rdrelease", "wrrelease"} /\ pc'[t] = "idle"
        BY <2>3, TtasRelease
      <3> QED
        BY <3>1, ClassOf DEF RwAllowed, Reading, Writing
    <2> QED
      BY <1>9, <2>1, <2>2, <2>3 DEF Ttas!ttasrw_rwlock_unlock
  <1> QED
    BY <1>4, <1>5, <1>6, <1>7, <1>8, <1>9 DEF Ttas!ttasrw

-----------------------------------------------------------------------------
(* rwsem.c.                                                                  *)

\* Who is counted as a reader, who has set the writer's byte, who has wait_lock, and
\* who reads.
SemCounted == {"rdsub", "rdwait", "rdmunlock", "rd", "trysub", "downgrade"}
SemOwning == {"wr", "wrmunlock", "downgrade"}
SemMutex == {"rdadd", "rdwait", "rdmunlock", "wrread", "wrcas", "wrmunlock"}
SemReading == {"rd", "rdmunlock"}
SemPcs == SemCounted \cup SemOwning \cup SemMutex
            \cup {"idle", "lock", "rdlock", "rdmutex", "wrmutex", "tryadd", "trywcas"}

SemReaders == {t \in Threads : pc[t] \in SemCounted}

SemType ==
  /\ pc \in [Threads -> SemPcs]
  /\ lk \in [wlocked : BOOLEAN, readers : Int, wait_lock : Threads \cup {NULL}]

\* A writer has no other writer and no reader besides it, though readers may be
\* counted.
SemAlone ==
  \A t, u \in Threads : pc[t] \in SemOwning => /\ pc[u] \notin SemReading
                                               /\ pc[u] \in SemOwning => t = u

SemInv ==
  /\ SemType
  /\ lk.readers = Cardinality(SemReaders)
  /\ lk.wlocked <=> \E t \in Threads : pc[t] \in SemOwning
  /\ \A t \in Threads : lk.wait_lock = t <=> pc[t] \in SemMutex
  /\ SemAlone

\* Nobody sets the byte beside another, nobody reads beside it.
SemEnters(t) ==
  /\ pc'[t] \in SemOwning /\ pc[t] \notin SemOwning =>
       /\ ~lk.wlocked /\ \A u \in Threads : pc[u] \notin SemReading
  /\ pc'[t] \in SemReading => ~lk.wlocked \/ pc[t] \in SemReading \cup SemOwning

\* How lk follows the program points.
SemFollows(t) ==
  /\ lk' \in [wlocked : BOOLEAN, readers : Int, wait_lock : Threads \cup {NULL}]
  /\ \/ pc[t] \in SemCounted /\ pc'[t] \in SemCounted /\ lk'.readers = lk.readers
     \/ pc[t] \notin SemCounted /\ pc'[t] \notin SemCounted /\ lk'.readers = lk.readers
     \/ pc[t] \in SemCounted /\ pc'[t] \notin SemCounted /\ lk'.readers = lk.readers - 1
     \/ pc[t] \notin SemCounted /\ pc'[t] \in SemCounted /\ lk'.readers = lk.readers + 1
  /\ \/ pc'[t] \in SemOwning /\ lk'.wlocked
     \/ pc'[t] \notin SemOwning /\ pc[t] \in SemOwning /\ ~lk'.wlocked
     \/ pc'[t] \notin SemOwning /\ pc[t] \notin SemOwning /\ (lk'.wlocked <=> lk.wlocked)
  /\ \/ pc[t] \in SemMutex /\ pc'[t] \in SemMutex /\ lk'.wait_lock = lk.wait_lock
     \/ pc[t] \notin SemMutex /\ pc'[t] \notin SemMutex /\ lk'.wait_lock = lk.wait_lock
     \/ pc[t] \in SemMutex /\ pc'[t] \notin SemMutex /\ lk'.wait_lock = NULL
     \/ pc[t] \notin SemMutex /\ pc'[t] \in SemMutex /\ lk.wait_lock = NULL /\ lk'.wait_lock = t

LEMMA SemMove ==
  ASSUME SemInv, NEW t \in Threads, Moves(t), pc'[t] \in SemPcs, SemFollows(t), SemEnters(t)
  PROVE  SemInv'
  <1>1. \A u \in Threads : u # t => pc'[u] = pc[u]
    BY DEF SemInv, SemType, Moves
  <1>2. SemType'
    BY DEF SemInv, SemType, Moves, SemFollows
  <1>3. lk'.readers = Cardinality(SemReaders')
    <2>1. SemReaders \in SUBSET Threads /\ lk.readers = Cardinality(SemReaders)
      BY DEF SemInv, SemReaders
    <2>2. CASE pc[t] \in SemCounted <=> pc'[t] \in SemCounted
      <3>1. SemReaders' = SemReaders
        BY <1>1, <2>2 DEF SemReaders
      <3>2. lk'.readers = lk.readers
        BY <2>2 DEF SemFollows
      <3> QED
        BY <2>1, <3>1, <3>2
    <2>3. CASE pc[t] \in SemCounted /\ pc'[t] \notin SemCounted
      <3>1. SemReaders' = SemReaders \ {t} /\ t \in SemReaders
        BY <1>1, <2>3 DEF SemReaders
      <3>2. lk'.readers = lk.readers - 1
        BY <2>3 DEF SemFollows
      <3> QED
        BY <2>1, <3>1, <3>2, CountDown
    <2>4. CASE pc[t] \notin SemCounted /\ pc'[t] \in SemCounted
      <3>1. SemReaders' = SemReaders \cup {t} /\ t \notin SemReaders
        BY <1>1, <2>4 DEF SemReaders
      <3>2. lk'.readers = lk.readers + 1
        BY <2>4 DEF SemFollows
      <3> QED
        BY <2>1, <3>1, <3>2, CountUp
    <2> QED
      BY <2>2, <2>3, <2>4
  <1>4. \A u \in Threads : pc[t] \in SemOwning /\ pc[u] \in SemOwning => t = u
    BY DEF SemInv, SemAlone
  <1>5. lk'.wlocked <=> \E u \in Threads : pc'[u] \in SemOwning
    <2>1. CASE pc'[t] \in SemOwning
      BY <2>1 DEF SemFollows
    <2>2. CASE pc'[t] \notin SemOwning /\ pc[t] \in SemOwning
      BY <1>1, <1>4, <2>2 DEF SemFollows
    <2>3. CASE pc'[t] \notin SemOwning /\ pc[t] \notin SemOwning
      <3>1. (\E u \in Threads : pc'[u] \in SemOwning) <=> (\E u \in Threads : pc[u] \in SemOwning)
        BY <1>1, <2>3
      <3> QED
        BY <2>3, <3>1 DEF SemFollows, SemInv
    <2> QED
      BY <2>1, <2>2, <2>3
  <1>6. \A u \in Threads : lk'.wait_lock = u <=> pc'[u] \in SemMutex
    <2>1. \A u \in Threads : lk.wait_lock = u <=> pc[u] \in SemMutex
      BY DEF SemInv
    <2>2. NULL \notin Threads
      BY LockApiAssumption
    <2> QED
      BY <1>1, <2>1, <2>2 DEF SemFollows
  <1>7. SemAlone'
    <2> SUFFICES ASSUME NEW u \in Threads, NEW v \in Threads, pc'[u] \in SemOwning
                 PROVE  pc'[v] \notin SemReading /\ (pc'[v] \in SemOwning => u = v)
      BY DEF SemAlone
    <2>1. \A x \in Threads : pc[x] \in SemOwning => lk.wlocked
      BY DEF SemInv
    <2>2. CASE u # t /\ v # t
      BY <1>1, <2>2 DEF SemInv, SemAlone
    <2>3. CASE u = t /\ v # t
      <3>1. CASE pc[t] \in SemOwning
        BY <1>1, <2>3, <3>1 DEF SemInv, SemAlone
      <3>2. CASE pc[t] \notin SemOwning
        BY <1>1, <2>1, <2>3, <3>2 DEF SemEnters
      <3> QED
        BY <3>1, <3>2
    <2>4. CASE u # t /\ v = t
      <3>1. pc[u] \in SemOwning /\ lk.wlocked
        BY <1>1, <2>1, <2>4
      <3>2. pc[t] \notin SemOwning \cup SemReading
        BY <2>4, <3>1 DEF SemInv, SemAlone
      <3> QED
        BY <2>4, <3>1, <3>2 DEF SemEnters
    <2>5. CASE u = t /\ v = t
      BY <2>5 DEF SemOwning, SemReading
    <2> QED
      BY <2>2, <2>3, <2>4, <2>5
  <1> QED
    BY <1>2, <1>3, <1>5, <1>6, <1>7 DEF SemInv

LEMMA SemInitial ==
  ASSUME Sem!Init
  PROVE  SemInv
  <1>1. /\ pc = [t \in Threads |-> "idle"]
        /\ lk = [wlocked |-> FALSE, readers |-> 0, wait_lock |-> NULL]
    BY DEF Sem!Init, Sem!ApiInit
  <1>2. SemReaders = {}
    BY <1>1 DEF SemReaders, SemCounted
  <1>3. SemType
    BY <1>1 DEF SemType, SemPcs
  <1>4. lk.readers = Cardinality(SemReaders)
    BY <1>1, <1>2, FS_EmptySet
  <1>5. lk.wlocked <=> \E t \in Threads : pc[t] \in SemOwning
    BY <1>1 DEF SemOwning
  <1>6. \A t \in Threads : lk.wait_lock = t <=> pc[t] \in SemMutex
    BY <1>1, LockApiAssumption DEF SemMutex
  <1>7. SemAlone
    BY <1>1 DEF SemAlone, SemOwning
  <1> QED
    BY <1>3, <1>4, <1>5, <1>6, <1>7 DEF SemInv

\* cnts is 0 only without a reader and a writer.
LEMMA SemFree ==
  ASSUME SemInv
  PROVE  /\ Sem!Unlocked => /\ ~lk.wlocked
                            /\ \A t \in Threads : pc[t] \notin SemCounted \cup SemOwning
         /\ ~lk.wlocked => \A t \in Threads : pc[t] \notin SemOwning
  <1>1. lk.readers = 0 => SemReaders = {}
    <2>1. SemReaders \in SUBSET Threads
      BY DEF SemReaders
    <2> QED
      BY <2>1, CountNone DEF SemInv
  <1> QED
    BY <1>1 DEF Sem!Unlocked, SemInv, SemReaders

\* Every step of rwsem.c.
LEMMA SemStep ==
  ASSUME SemInv, NEW t \in Threads, Sem!rwsem(t)
  PROVE  SemInv' /\ Moves(t) /\ RwAllowed(t)
  <1> DEFINE Lks == [wlocked : BOOLEAN, readers : Int, wait_lock : Threads \cup {NULL}]
  <1>1. pc \in [Threads -> SemPcs] /\ lk \in Lks
    BY DEF SemInv, SemType
  <1>2. ASSUME NEW from, NEW to, Sem!Read(t, from, to)
        PROVE  pc[t] = from /\ pc'[t] = to /\ Moves(t) /\ lk' = lk
    BY <1>1, <1>2 DEF Sem!Read, Sem!Step, Sem!mem, Moves
  <1>3. ASSUME NEW from, NEW to, NEW by \in Int, Sem!Bias(t, by, from, to)
        PROVE  /\ pc[t] = from /\ pc'[t] = to /\ Moves(t)
               /\ lk' \in Lks /\ lk'.readers = lk.readers + by
               /\ lk'.wlocked = lk.wlocked /\ lk'.wait_lock = lk.wait_lock
    BY <1>1, <1>3 DEF Sem!Bias, Sem!Step, Moves
  <1>4. ASSUME NEW from, NEW to, Sem!rwmutex_lock(t, from, to)
        PROVE  /\ pc[t] = from /\ pc'[t] = to /\ Moves(t)
               /\ lk' \in Lks /\ lk'.readers = lk.readers
               /\ lk'.wlocked = lk.wlocked /\ lk.wait_lock = NULL /\ lk'.wait_lock = t
    BY <1>1, <1>4 DEF Sem!rwmutex_lock, Sem!Step, Moves
  <1>5. ASSUME NEW from, NEW to, Sem!rwmutex_unlock(t, from, to)
        PROVE  /\ pc[t] = from /\ pc'[t] = to /\ Moves(t)
               /\ lk' \in Lks /\ lk'.readers = lk.readers
               /\ lk'.wlocked = lk.wlocked /\ lk'.wait_lock = NULL
    BY <1>1, <1>5 DEF Sem!rwmutex_unlock, Sem!Step, Moves
  <1>6. ASSUME NEW from, NEW to, NEW busy, Sem!WriterCas(t, from, to, busy)
        PROVE  /\ pc[t] = from /\ Moves(t) /\ lk' \in Lks
               /\ lk'.readers = lk.readers /\ lk'.wait_lock = lk.wait_lock
               /\ \/ pc'[t] = busy /\ lk'.wlocked = lk.wlocked
                  \/ /\ pc'[t] = to /\ lk'.wlocked /\ ~lk.wlocked
                     /\ \A u \in Threads : pc[u] \notin SemCounted \cup SemOwning
    <2>1. CASE Sem!Unlocked
      BY <1>1, <1>6, <2>1, SemFree DEF Sem!WriterCas, Sem!Step, Moves
    <2>2. CASE ~Sem!Unlocked
      BY <1>1, <1>6, <2>2 DEF Sem!WriterCas, Sem!Step, Moves
    <2> QED
      BY <2>1, <2>2
  <1>7. ASSUME NEW from, NEW to, Sem!up_write(t, from, to)
        PROVE  /\ pc[t] = from /\ pc'[t] = to /\ Moves(t)
               /\ lk' \in Lks /\ lk'.readers = lk.readers
               /\ ~lk'.wlocked /\ lk'.wait_lock = lk.wait_lock
    BY <1>1, <1>7 DEF Sem!up_write, Sem!Step, Moves
  <1>8. /\ ~lk.wlocked => \A u \in Threads : pc[u] \notin Writing
        /\ (\A u \in Threads : pc[u] \notin SemCounted \cup SemOwning)
             => \A u \in Threads : pc[u] \notin Reading \cup Writing
    BY <1>1, SemFree DEF SemPcs, SemCounted, SemOwning, SemMutex, Reading, Writing
  <1>9. (\A u \in Threads : pc[u] \notin SemCounted \cup SemOwning)
          => \A u \in Threads : pc[u] \notin SemReading
    BY DEF SemCounted, SemReading
  <1> HIDE DEF Lks
  <1>10. lk \in Lks /\ lk.readers \in Int /\ lk.readers + 0 = lk.readers
         /\ lk.readers + (-1) = lk.readers - 1
    BY <1>1 DEF Lks
  <1>11. CASE Sem!CallLock(t) \/ Sem!Read(t, "idle", "rdlock")
    <2>1. Moves(t) /\ pc[t] = "idle" /\ pc'[t] \in {"lock", "rdlock"} /\ lk' = lk
      BY <1>2, <1>11 DEF Sem!CallLock
    <2>2. SemFollows(t) /\ SemEnters(t) /\ pc'[t] \in SemPcs
      BY <1>10, <2>1 DEF SemFollows, SemEnters, SemPcs, SemCounted, SemOwning, SemMutex, SemReading, Lks
    <2>3. RwAllowed(t)
      BY <2>1, ClassOf DEF RwAllowed, RdWaiting
    <2> QED
      BY <2>1, <2>2, <2>3, SemMove
  <1>12. CASE Sem!down_read(t)
    <2>1. CASE Sem!Bias(t, 1, "rdlock", IF lk.wlocked THEN "rdsub" ELSE "rd")
      <3>1. /\ pc[t] = "rdlock" /\ Moves(t) /\ lk' \in Lks /\ lk'.readers = lk.readers + 1
            /\ lk'.wlocked = lk.wlocked /\ lk'.wait_lock = lk.wait_lock
            /\ pc'[t] = IF lk.wlocked THEN "rdsub" ELSE "rd"
        BY <1>3, <2>1
      <3>2. SemFollows(t) /\ SemEnters(t) /\ pc'[t] \in SemPcs
        BY <1>10, <3>1 DEF SemFollows, SemEnters, SemPcs, SemCounted, SemOwning, SemMutex, SemReading, Lks
      <3>3. Class("rdlock") = "rdlock" /\ Class("rdsub") = "rdlock" /\ Class("rd") = "rd"
        BY ClassOf DEF RdWaiting, Reading
      <3>4. RwAllowed(t)
        BY <1>8, <3>1, <3>3 DEF RwAllowed
      <3> QED
        BY <3>1, <3>2, <3>4, SemMove
    <2>2. CASE Sem!aqm_read_lock_slowpath(t)
      <3>1. CASE Sem!Bias(t, -1, "rdsub", "rdmutex")
        <4>1. /\ pc[t] = "rdsub" /\ pc'[t] = "rdmutex" /\ Moves(t) /\ lk' \in Lks
              /\ lk'.readers = lk.readers + (-1)
              /\ lk'.wlocked = lk.wlocked /\ lk'.wait_lock = lk.wait_lock
          BY <1>3, <3>1
        <4>2. SemFollows(t) /\ SemEnters(t) /\ pc'[t] \in SemPcs
          BY <1>10, <4>1 DEF SemFollows, SemEnters, SemPcs, SemCounted, SemOwning, SemMutex, SemReading, Lks
        <4>3. RwAllowed(t)
          BY <4>1, ClassOf DEF RwAllowed, RdWaiting
        <4> QED
          BY <4>1, <4>2, <4>3, SemMove
      <3>2. CASE Sem!rwmutex_lock(t, "rdmutex", "rdadd")
        <4>1. /\ pc[t] = "rdmutex" /\ pc'[t] = "rdadd" /\ Moves(t) /\ lk' \in Lks
              /\ lk'.readers = lk.readers
              /\ lk'.wlocked = lk.wlocked /\ lk.wait_lock = NULL /\ lk'.wait_lock = t
          BY <1>4, <3>2
        <4>2. SemFollows(t) /\ SemEnters(t) /\ pc'[t] \in SemPcs
          BY <1>10, <4>1 DEF SemFollows, SemEnters, SemPcs, SemCounted, SemOwning, SemMutex, SemReading, Lks
        <4>3. RwAllowed(t)
          BY <4>1, ClassOf DEF RwAllowed, RdWaiting
        <4> QED
          BY <4>1, <4>2, <4>3, SemMove
      <3>3. CASE Sem!Bias(t, 1, "rdadd", "rdwait")
        <4>1. /\ pc[t] = "rdadd" /\ pc'[t] = "rdwait" /\ Moves(t) /\ lk' \in Lks
              /\ lk'.readers = lk.readers + 1
              /\ lk'.wlocked = lk.wlocked /\ lk'.wait_lock = lk.wait_lock
          BY <1>3, <3>3
        <4>2. SemFollows(t) /\ SemEnters(t) /\ pc'[t] \in SemPcs
          BY <1>10, <4>1 DEF SemFollows, SemEnters, SemPcs, SemCounted, SemOwning, SemMutex, SemReading, Lks
        <4>3. RwAllowed(t)
          BY <4>1, ClassOf DEF RwAllowed, RdWaiting
        <4> QED
          BY <4>1, <4>2, <4>3, SemMove
      <3>4. CASE ~lk.wlocked /\ Sem!Read(t, "rdwait", "rdmunlock")
        <4>1. pc[t] = "rdwait" /\ pc'[t] = "rdmunlock" /\ Moves(t) /\ lk' = lk /\ ~lk.wlocked
          BY <1>2, <3>4
        <4>2. SemFollows(t) /\ SemEnters(t) /\ pc'[t] \in SemPcs
          BY <1>10, <4>1 DEF SemFollows, SemEnters, SemPcs, SemCounted, SemOwning, SemMutex, SemReading, Lks
        <4>3. Class("rdwait") = "rdlock" /\ Class("rdmunlock") = "rd"
          BY ClassOf DEF RdWaiting, Reading
        <4>4. RwAllowed(t)
          BY <1>8, <4>1, <4>3 DEF RwAllowed
        <4> QED
          BY <4>1, <4>2, <4>4, SemMove
      <3>5. CASE Sem!rwmutex_unlock(t, "rdmunlock", "rd")
        <4>1. /\ pc[t] = "rdmunlock" /\ pc'[t] = "rd" /\ Moves(t) /\ lk' \in Lks
              /\ lk'.readers = lk.readers /\ lk'.wlocked = lk.wlocked /\ lk'.wait_lock = NULL
          BY <1>5, <3>5
        <4>2. SemFollows(t) /\ SemEnters(t) /\ pc'[t] \in SemPcs
          BY <1>10, <4>1 DEF SemFollows, SemEnters, SemPcs, SemCounted, SemOwning, SemMutex, SemReading, Lks
        <4>3. RwAllowed(t)
          BY <4>1, ClassOf DEF RwAllowed, Reading
        <4> QED
          BY <4>1, <4>2, <4>3, SemMove
      <3> QED
        BY <2>2, <3>1, <3>2, <3>3, <3>4, <3>5 DEF Sem!aqm_read_lock_slowpath
    <2> QED
      BY <1>12, <2>1, <2>2 DEF Sem!down_read
  <1>13. CASE Sem!down_read_trylock(t)
    <2>1. CASE ~lk.wlocked /\ Sem!Read(t, "idle", "tryadd")
      <3>1. pc[t] = "idle" /\ pc'[t] = "tryadd" /\ Moves(t) /\ lk' = lk
        BY <1>2, <2>1
      <3>2. SemFollows(t) /\ SemEnters(t) /\ pc'[t] \in SemPcs
        BY <1>10, <3>1 DEF SemFollows, SemEnters, SemPcs, SemCounted, SemOwning, SemMutex, SemReading, Lks
      <3>3. RwAllowed(t)
        BY <3>1, ClassOf DEF RwAllowed, Trying
      <3> QED
        BY <3>1, <3>2, <3>3, SemMove
    <2>2. CASE Sem!Bias(t, 1, "tryadd", IF lk.wlocked THEN "trysub" ELSE "rd")
      <3>1. /\ pc[t] = "tryadd" /\ Moves(t) /\ lk' \in Lks /\ lk'.readers = lk.readers + 1
            /\ lk'.wlocked = lk.wlocked /\ lk'.wait_lock = lk.wait_lock
            /\ pc'[t] = IF lk.wlocked THEN "trysub" ELSE "rd"
        BY <1>3, <2>2
      <3>2. SemFollows(t) /\ SemEnters(t) /\ pc'[t] \in SemPcs
        BY <1>10, <3>1 DEF SemFollows, SemEnters, SemPcs, SemCounted, SemOwning, SemMutex, SemReading, Lks
      <3>3. Class("tryadd") = "idle" /\ Class("trysub") = "idle" /\ Class("rd") = "rd"
        BY ClassOf DEF Trying, Reading
      <3>4. RwAllowed(t)
        BY <1>8, <3>1, <3>3 DEF RwAllowed
      <3> QED
        BY <3>1, <3>2, <3>4, SemMove
    <2>3. CASE Sem!Bias(t, -1, "trysub", "idle")
      <3>1. /\ pc[t] = "trysub" /\ pc'[t] = "idle" /\ Moves(t) /\ lk' \in Lks
            /\ lk'.readers = lk.readers + (-1)
            /\ lk'.wlocked = lk.wlocked /\ lk'.wait_lock = lk.wait_lock
        BY <1>3, <2>3
      <3>2. SemFollows(t) /\ SemEnters(t) /\ pc'[t] \in SemPcs
        BY <1>10, <3>1 DEF SemFollows, SemEnters, SemPcs, SemCounted, SemOwning, SemMutex, SemReading, Lks
      <3>3. RwAllowed(t)
        BY <3>1, ClassOf DEF RwAllowed, Trying
      <3> QED
        BY <3>1, <3>2, <3>3, SemMove
    <2> QED
      BY <1>13, <2>1, <2>2, <2>3 DEF Sem!down_read_trylock
  <1>14. CASE Sem!down_write(t)
    <2>1. CASE Sem!WriterCas(t, "lock", "wr", "wrmutex")
      <3>1. /\ pc[t] = "lock" /\ Moves(t) /\ lk' \in Lks
            /\ lk'.readers = lk.readers /\ lk'.wait_lock = lk.wait_lock
            /\ \/ pc'[t] = "wrmutex" /\ lk'.wlocked = lk.wlocked
               \/ /\ pc'[t] = "wr" /\ lk'.wlocked /\ ~lk.wlocked
                  /\ \A u \in Threads : pc[u] \notin SemCounted \cup SemOwning
        BY <1>6, <2>1
      <3>2. SemFollows(t) /\ SemEnters(t) /\ pc'[t] \in SemPcs
        BY <1>9, <1>10, <3>1 DEF SemFollows, SemEnters, SemPcs, SemCounted, SemOwning, SemMutex, SemReading, Lks
      <3>3. Class("lock") = "wrlock" /\ Class("wrmutex") = "wrlock" /\ Class("wr") = "wr"
        BY ClassOf DEF Writing
      <3>4. RwAllowed(t)
        BY <1>8, <3>1, <3>3 DEF RwAllowed
      <3> QED
        BY <3>1, <3>2, <3>4, SemMove
    <2>2. CASE Sem!aqm_write_lock_slowpath(t)
      <3>1. CASE Sem!rwmutex_lock(t, "wrmutex", "wrread")
        <4>1. /\ pc[t] = "wrmutex" /\ pc'[t] = "wrread" /\ Moves(t) /\ lk' \in Lks
              /\ lk'.readers = lk.readers
              /\ lk'.wlocked = lk.wlocked /\ lk.wait_lock = NULL /\ lk'.wait_lock = t
          BY <1>4, <3>1
        <4>2. SemFollows(t) /\ SemEnters(t) /\ pc'[t] \in SemPcs
          BY <1>10, <4>1 DEF SemFollows, SemEnters, SemPcs, SemCounted, SemOwning, SemMutex, SemReading, Lks
        <4>3. RwAllowed(t)
          BY <4>1, ClassOf DEF RwAllowed
        <4> QED
          BY <4>1, <4>2, <4>3, SemMove
      <3>2. CASE Sem!Unlocked /\ Sem!Read(t, "wrread", "wrcas")
        <4>1. pc[t] = "wrread" /\ pc'[t] = "wrcas" /\ Moves(t) /\ lk' = lk
          BY <1>2, <3>2
        <4>2. SemFollows(t) /\ SemEnters(t) /\ pc'[t] \in SemPcs
          BY <1>10, <4>1 DEF SemFollows, SemEnters, SemPcs, SemCounted, SemOwning, SemMutex, SemReading, Lks
        <4>3. RwAllowed(t)
          BY <4>1, ClassOf DEF RwAllowed
        <4> QED
          BY <4>1, <4>2, <4>3, SemMove
      <3>3. CASE Sem!WriterCas(t, "wrcas", "wrmunlock", "wrread")
        <4>1. /\ pc[t] = "wrcas" /\ Moves(t) /\ lk' \in Lks
              /\ lk'.readers = lk.readers /\ lk'.wait_lock = lk.wait_lock
              /\ \/ pc'[t] = "wrread" /\ lk'.wlocked = lk.wlocked
                 \/ /\ pc'[t] = "wrmunlock" /\ lk'.wlocked /\ ~lk.wlocked
                    /\ \A u \in Threads : pc[u] \notin SemCounted \cup SemOwning
          BY <1>6, <3>3
        <4>2. SemFollows(t) /\ SemEnters(t) /\ pc'[t] \in SemPcs
          BY <1>9, <1>10, <4>1 DEF SemFollows, SemEnters, SemPcs, SemCounted, SemOwning, SemMutex, SemReading, Lks
        <4>3. Class("wrcas") = "wrlock" /\ Class("wrread") = "wrlock" /\ Class("wrmunlock") = "wr"
          BY ClassOf DEF Writing
        <4>4. RwAllowed(t)
          BY <1>8, <4>1, <4>3 DEF RwAllowed
        <4> QED
          BY <4>1, <4>2, <4>4, SemMove
      <3>4. CASE Sem!rwmutex_unlock(t, "wrmunlock", "wr")
        <4>1. /\ pc[t] = "wrmunlock" /\ pc'[t] = "wr" /\ Moves(t) /\ lk' \in Lks
              /\ lk'.readers = lk.readers /\ lk'.wlocked = lk.wlocked /\ lk'.wait_lock = NULL
          BY <1>5, <3>4
        <4>2. lk.wlocked
          BY <4>1 DEF SemInv, SemOwning
        <4>3. SemFollows(t) /\ SemEnters(t) /\ pc'[t] \in SemPcs
          BY <1>10, <4>1, <4>2 DEF SemFollows, SemEnters, SemPcs, SemCounted, SemOwning, SemMutex, SemReading, Lks
        <4>4. RwAllowed(t)
          BY <4>1, ClassOf DEF RwAllowed, Writing
        <4> QED
          BY <4>1, <4>3, <4>4, SemMove
      <3> QED
        BY <2>2, <3>1, <3>2, <3>3, <3>4 DEF Sem!aqm_write_lock_slowpath
    <2> QED
      BY <1>14, <2>1, <2>2 DEF Sem!down_write
  <1>15. CASE Sem!down_write_trylock(t)
    <2>1. CASE Sem!Unlocked /\ Sem!Read(t, "idle", "trywcas")
      <3>1. pc[t] = "idle" /\ pc'[t] = "trywcas" /\ Moves(t) /\ lk' = lk
        BY <1>2, <2>1
      <3>2. SemFollows(t) /\ SemEnters(t) /\ pc'[t] \in SemPcs
        BY <1>10, <3>1 DEF SemFollows, SemEnters, SemPcs, SemCounted, SemOwning, SemMutex, SemReading, Lks
      <3>3. RwAllowed(t)
        BY <3>1, ClassOf DEF RwAllowed, Trying
      <3> QED
        BY <3>1, <3>2, <3>3, SemMove
    <2>2. CASE Sem!WriterCas(t, "trywcas", "wr", "idle")
      <3>1. /\ pc[t] = "trywcas" /\ Moves(t) /\ lk' \in Lks
            /\ lk'.readers = lk.readers /\ lk'.wait_lock = lk.wait_lock
            /\ \/ pc'[t] = "idle" /\ lk'.wlocked = lk.wlocked
               \/ /\ pc'[t] = "wr" /\ lk'.wlocked /\ ~lk.wlocked
                  /\ \A u \in Threads : pc[u] \notin SemCounted \cup SemOwning
        BY <1>6, <2>2
      <3>2. SemFollows(t) /\ SemEnters(t) /\ pc'[t] \in SemPcs
        BY <1>9, <1>10, <3>1 DEF SemFollows, SemEnters, SemPcs, SemCounted, SemOwning, SemMutex, SemReading, Lks
      <3>3. Class("trywcas") = "idle" /\ Class("idle") = "idle" /\ Class("wr") = "wr"
        BY ClassOf DEF Trying, Writing
      <3>4. RwAllowed(t)
        BY <1>8, <3>1, <3>3 DEF RwAllowed
      <3> QED
        BY <3>1, <3>2, <3>4, SemMove
    <2> QED
      BY <1>15, <2>1, <2>2 DEF Sem!down_write_trylock
  <1>16. CASE Sem!up_read(t)
    <2>1. /\ pc[t] = "rd" /\ pc'[t] = "idle" /\ Moves(t) /\ lk' \in Lks /\ lk'.readers = lk.readers + (-1)
          /\ lk'.wlocked = lk.wlocked /\ lk'.wait_lock = lk.wait_lock
      BY <1>3, <1>16 DEF Sem!up_read
    <2>2. SemFollows(t) /\ SemEnters(t) /\ pc'[t] \in SemPcs
      BY <1>10, <2>1 DEF SemFollows, SemEnters, SemPcs, SemCounted, SemOwning, SemMutex, SemReading, Lks
    <2>3. RwAllowed(t)
      BY <2>1, ClassOf DEF RwAllowed, Reading
    <2> QED
      BY <2>1, <2>2, <2>3, SemMove
  <1>17. CASE Sem!up_write(t, "wr", "idle") \/ Sem!up_write(t, "downgrade", "rd")
    <2>1. /\ \/ pc[t] = "wr" /\ pc'[t] = "idle"
             \/ pc[t] = "downgrade" /\ pc'[t] = "rd"
          /\ Moves(t) /\ lk' \in Lks /\ lk'.readers = lk.readers
          /\ ~lk'.wlocked /\ lk'.wait_lock = lk.wait_lock
      BY <1>7, <1>17
    <2>2. SemFollows(t) /\ SemEnters(t) /\ pc'[t] \in SemPcs
      BY <1>10, <2>1 DEF SemFollows, SemEnters, SemPcs, SemCounted, SemOwning, SemMutex, SemReading, Lks
    <2>3. Class("wr") = "wr" /\ Class("downgrade") = "wr" /\ Class("idle") = "idle" /\ Class("rd") = "rd"
      BY ClassOf DEF Reading, Writing
    <2>4. RwAllowed(t)
      BY <2>1, <2>3 DEF RwAllowed
    <2> QED
      BY <2>1, <2>2, <2>4, SemMove
  <1>18. CASE Sem!Bias(t, 1, "wr", "downgrade")
    <2>1. /\ pc[t] = "wr" /\ pc'[t] = "downgrade" /\ Moves(t) /\ lk' \in Lks /\ lk'.readers = lk.readers + 1
          /\ lk'.wlocked = lk.wlocked /\ lk'.wait_lock = lk.wait_lock
      BY <1>3, <1>18
    <2>2. lk.wlocked
      BY <2>1 DEF SemInv, SemOwning
    <2>3. SemFollows(t) /\ SemEnters(t) /\ pc'[t] \in SemPcs
      BY <1>10, <2>1, <2>2 DEF SemFollows, SemEnters, SemPcs, SemCounted, SemOwning, SemMutex, SemReading, Lks
    <2>4. RwAllowed(t)
      BY <2>1, ClassOf DEF RwAllowed, Writing
    <2> QED
      BY <2>1, <2>3, <2>4, SemMove
  <1> QED
    BY <1>11, <1>12, <1>13, <1>14, <1>15, <1>16, <1>17, <1>18 DEF Sem!rwsem, Sem!downgrade_write

-----------------------------------------------------------------------------
(* hmcsrw.c.                                                                 *)

HmcsAlgos == {"hmcsrw", "hmcsrw_mutex"}

\* A reader that active_readers counts, and the other points of the calls that only
\* the reader-writer lock has.
CountedPcs == {"rdcheck", "rdsub", "rd", "trycheck", "trysub"}
RdOnlyPcs == CountedPcs \cup {"rdlock", "rdwait", "rdadd", "tryscan", "trylock"}
HmcsPcs == (QueuedPcs \ {"cs"}) \cup RdOnlyPcs \cup {"idle", "lock"}

NodeRec == [next : Nodes \cup {NULL}, status : Int, last_local : NumaNodes]
LkRec ==
  [tail : [NumaNodes \cup {GLOBAL} -> Nodes \cup {NULL}],
   active_readers : [NumaNodes -> Int], lock_status : [Threads -> Int]]

HmcsType ==
  /\ lk \in LkRec
  /\ nd \in [Nodes -> NodeRec]
  /\ loc \in [Threads -> Nodes \cup {NULL}]
  /\ pc \in [Threads -> HmcsPcs]
  /\ inWait = {}

CountedOn(n) == {t \in Threads : pc[t] \in CountedPcs /\ Home(t) = n}

ReadersCounted == \A n \in NumaNodes : lk.active_readers[n] = Cardinality(CountedOn(n))

\* loc[t] is the next node to be scanned; a writer that has the lock has left no
\* reader behind it.
Scanning ==
  \A t \in Threads :
    /\ pc[t] \notin {"link", "glink", "posix", "tryposix", "tryscan"} => loc[t] = NULL
    /\ pc[t] \in {"posix", "tryposix", "tryscan"} => loc[t] \in NumaNodes \cup {NULL}
    /\ pc[t] \in {"posix", "tryposix"} /\ loc[t] # NULL =>
         \A u \in Threads : pc[u] = "rd" => loc[t] <= Home(u)

\* 2 is READ_STATE.
StatusKnown == \A t \in Threads : lk.lock_status[t] = 2 <=> pc[t] = "rd"

MutexOnly ==
  algo = "hmcsrw_mutex" =>
    \A t \in Threads : /\ pc[t] \notin RdOnlyPcs
                       /\ pc[t] \in {"posix", "tryposix"} => loc[t] = NULL

HmcsRest == ReadersCounted /\ Scanning /\ StatusKnown /\ MutexOnly

HmcsQueues == \E Q \in [NumaNodes -> Seq(Threads)], g \in Seq(NumaNodes) : HInv(Q, g)

HmcsInv == HmcsType /\ HmcsRest /\ HmcsQueues

LEMMA NodesAre ==
  /\ IsFiniteSet(NumaNodes) /\ NumaNodes \subseteq Nat /\ 0 \in NumaNodes
  /\ \A n \in NumaNodes : n <= Hmcs!LastNode /\ 0 <= n
  /\ Hmcs!LastNode \in NumaNodes
  /\ \A n \in NumaNodes : n < Hmcs!LastNode => n + 1 \in NumaNodes
  /\ NULL \notin Threads /\ NULL \notin NumaNodes /\ Threads \cap NumaNodes = {}
  <1>1. PICK k \in Nat : k = Cardinality(NumaNodes)
    BY RwLocksAssumption, FS_CardinalityType
  <1>2. NumaNodes = 0..(k - 1) /\ 0 \in NumaNodes
    BY <1>1, RwLocksAssumption, LockApiAssumption
  <1>3. Hmcs!LastNode = k - 1
    <2>1. Hmcs!Cardinality(NumaNodes) = Cardinality(NumaNodes)
      BY DEF Hmcs!Cardinality, Cardinality
    <2> QED
      BY <1>1, <2>1 DEF Hmcs!LastNode
  <1> QED
    BY <1>2, <1>3, RwLocksAssumption, LockApiAssumption

\* A step of t that leaves the readers and what others know alone.
LEMMA RestKept ==
  ASSUME HmcsType, HmcsRest, algo' = algo, NEW t \in Threads, Moves(t),
         \A u \in Threads : u # t => loc'[u] = loc[u] /\ nd'[u].last_local = nd[u].last_local
                                     /\ lk'.lock_status[u] = lk.lock_status[u],
         pc[t] \notin CountedPcs, pc'[t] \notin CountedPcs,
         pc'[t] \in RdOnlyPcs => algo # "hmcsrw_mutex",
         lk'.active_readers = lk.active_readers, lk'.lock_status[t] # 2,
         pc'[t] \notin {"link", "glink", "posix", "tryposix", "tryscan"} => loc'[t] = NULL,
         pc'[t] \in {"posix", "tryposix", "tryscan"} => loc'[t] \in NumaNodes \cup {NULL},
         pc'[t] \in {"posix", "tryposix"} /\ loc'[t] # NULL =>
           algo # "hmcsrw_mutex" /\ \A u \in Threads : pc[u] = "rd" => loc'[t] <= Home(u)
  PROVE  HmcsRest'
  <1>1. \A u \in Threads : u # t => pc'[u] = pc[u] /\ Home(u)' = Home(u)
    BY DEF HmcsType, Moves, Home
  <1>2. \A n \in NumaNodes : CountedOn(n)' = CountedOn(n)
    BY <1>1 DEF CountedOn
  <1>3. ReadersCounted'
    BY <1>2 DEF HmcsRest, ReadersCounted
  <1>4. \A u \in Threads : pc'[u] = "rd" <=> pc[u] = "rd"
    BY <1>1 DEF CountedPcs
  <1>5. Scanning'
    <2>1. \A u \in Threads : pc[u] = "rd" => Home(u)' = Home(u)
      BY <1>1 DEF CountedPcs
    <2> QED
      BY <1>1, <1>4, <2>1 DEF HmcsRest, Scanning
  <1>6. StatusKnown'
    BY <1>1, <1>4 DEF HmcsRest, StatusKnown, CountedPcs
  <1>7. MutexOnly'
    BY <1>1 DEF HmcsRest, MutexOnly
  <1> QED
    BY <1>3, <1>5, <1>6, <1>7 DEF HmcsRest

\* Whose turn it is at the global queue.
LEMMA Turn ==
  ASSUME HmcsInv, NEW t \in Threads, pc[t] \in GlobalPcs \ {"glink", "gspin"}
  PROVE  /\ Up(t) /\ nd[Home(t)].status = UNLOCKED /\ lk.tail[GLOBAL] # NULL
         /\ \A u \in Threads : pc[u] \in GlobalPcs \ {"glink", "gspin"} => u = t
  <1>1. PICK Q \in [NumaNodes -> Seq(Threads)], g \in Seq(NumaNodes) : HInv(Q, g)
    BY DEF HmcsInv, HmcsQueues
  <1>2. \A u \in Threads : pc[u] \in GlobalPcs \ {"glink", "gspin"}
                             => Up(u) /\ nd[Home(u)].status = UNLOCKED
    BY <1>1 DEF Up, HInv, TopAt
  <1>3. lk.tail[GLOBAL] # NULL
    BY <1>1, <1>2, TurnIs
  <1>4. \A u \in Threads : pc[u] \in GlobalPcs \ {"glink", "gspin"} => u = t
    BY <1>1, <1>2, OneOwner
  <1> QED
    BY <1>2, <1>3, <1>4

LEMMA WritersAre ==
  ASSUME HmcsInv
  PROVE  \A u \in Threads : /\ pc[u] \in Writing <=> pc[u] \in {"wr", "unlock", "gcas", "gpass"}
                            /\ pc[u] \in Writing => pc[u] \in GlobalPcs \ {"glink", "gspin"}
                            /\ pc[u] \in Reading <=> pc[u] = "rd"
  <1>1. \A u \in Threads : pc[u] \in HmcsPcs
    BY DEF HmcsInv, HmcsType
  <1>2. \A p \in HmcsPcs : /\ p \in Writing <=> p \in {"wr", "unlock", "gcas", "gpass"}
                           /\ p \in Writing => p \in GlobalPcs \ {"glink", "gspin"}
                           /\ p \in Reading <=> p = "rd"
    BY DEF HmcsPcs, QueuedPcs, GlobalPcs, RdOnlyPcs, CountedPcs, Writing, Reading
  <1> QED
    BY <1>1, <1>2

LEMMA HmcsInitial ==
  ASSUME algo \in HmcsAlgos,
         \/ algo = "hmcsrw" /\ Hmcs!hmcsrw_rwlock_create
         \/ algo = "hmcsrw_mutex" /\ Hmcs!hmcsrw_mutex_create
  PROVE  HmcsInv
  <1>1. /\ pc = [t \in Threads |-> "idle"] /\ inWait = {}
        /\ nd = [v \in Nodes |-> [next |-> NULL, status |-> 0, last_local |-> 0]]
        /\ loc = [t \in Threads |-> NULL]
    BY DEF Hmcs!hmcsrw_rwlock_create, Hmcs!hmcsrw_mutex_create, Hmcs!InitContexts, Hmcs!ApiInit,
           Hmcs!LOCKED, Nodes
  <1>2. PICK s \in {0, -1} :
          lk = [tail |-> [h \in NumaNodes \cup {GLOBAL} |-> NULL],
                active_readers |-> [n \in NumaNodes |-> 0],
                lock_status |-> [t \in Threads |-> s]]
    BY DEF Hmcs!hmcsrw_rwlock_create, Hmcs!hmcsrw_mutex_create, Hmcs!CreateWith, Hmcs!NO_STATE,
           Hmcs!GLOBAL, GLOBAL
  <1>3. HmcsType
    <2>1. "idle" \in HmcsPcs
      BY DEF HmcsPcs
    <2>2. nd \in [Nodes -> NodeRec]
      BY <1>1, NodesAre DEF NodeRec
    <2>3. lk \in LkRec
      BY <1>2 DEF LkRec
    <2> QED
      BY <1>1, <2>1, <2>2, <2>3 DEF HmcsType
  <1>4. HmcsRest
    <2>1. \A n \in NumaNodes : CountedOn(n) = {}
      BY <1>1 DEF CountedOn, CountedPcs
    <2>2. ReadersCounted
      BY <1>2, <2>1, FS_EmptySet DEF ReadersCounted
    <2>3. Scanning
      BY <1>1 DEF Scanning
    <2>4. StatusKnown
      BY <1>1, <1>2 DEF StatusKnown
    <2>5. MutexOnly
      BY <1>1 DEF MutexOnly, RdOnlyPcs, CountedPcs
    <2> QED
      BY <2>2, <2>3, <2>4, <2>5 DEF HmcsRest
  <1>5. HmcsQueues
    <2> DEFINE g == << >>
               Q == [n \in NumaNodes |-> << >>]
    <2>1. << >> \in Seq(Threads) /\ g \in Seq(NumaNodes) /\ Len(<< >>) = 0
      OBVIOUS
    <2>2. Q \in [NumaNodes -> Seq(Threads)]
      BY <2>1
    <2>3. Len(g) = 0 /\ \A n \in NumaNodes : Len(Q[n]) = 0
      BY <2>1
    <2> HIDE DEF Q, g
    <2>4. \A t \in Threads : ~Queued(t) /\ ~Up(t) /\ pc[t] = "idle"
      BY <1>1 DEF Queued, Up, QueuedPcs, GlobalPcs
    <2>5. lk.tail[GLOBAL] = NULL /\ \A n \in NumaNodes : lk.tail[n] = NULL
      BY <1>2 DEF GLOBAL
    <2>6. \A n \in NumaNodes : LocalAt(Q[n], n)
      BY <2>3, <2>4, <2>5 DEF LocalAt, ChainOf, In
    <2>7. TopAt(g)
      BY <2>3, <2>4, <2>5 DEF TopAt, ChainOf, In
    <2>8. Homes
      BY <1>1, NodesAre DEF Homes, Home, Nodes
    <2>9. Counts
      BY <2>4 DEF Counts
    <2> QED
      BY <2>1, <2>2, <2>6, <2>7, <2>8, <2>9 DEF HInv, HmcsQueues
  <1> QED
    BY <1>3, <1>4, <1>5 DEF HmcsInv

\* A step outside the queues.
LEMMA OutsideQueues ==
  ASSUME HmcsType, HmcsQueues, NEW t \in Threads, Moves(t), \A u \in Threads : u # t => loc'[u] = loc[u],
         pc[t] \notin QueuedPcs, pc'[t] \notin QueuedPcs, lk'.tail = lk.tail,
         \A v \in Nodes \ {t} : SameNode(v), nd'[t].last_local \in NumaNodes
  PROVE  HmcsQueues'
  <1>1. PICK Q \in [NumaNodes -> Seq(Threads)], g \in Seq(NumaNodes) : HInv(Q, g)
    BY DEF HmcsQueues
  <1>2. Others(t)
    BY DEF Others, Moves, HmcsType
  <1>3. HInv(Q, g)'
    BY <1>1, <1>2, OutsideStep
  <1> QED
    BY <1>3 DEF HmcsQueues

\* A step of a reader.
LEMMA ReaderStep ==
  ASSUME HmcsInv, algo' = algo, algo # "hmcsrw_mutex", NEW t \in Threads, Moves(t), HmcsType',
         pc[t] \in RdOnlyPcs \cup {"idle"}, pc'[t] \in RdOnlyPcs \cup {"idle"},
         pc[t] \notin {"tryscan"}, pc'[t] \notin {"tryscan"}, loc' = loc,
         \A v \in Nodes \ {t} : SameNode(v), lk'.tail = lk.tail,
         \A u \in Threads : u # t => lk'.lock_status[u] = lk.lock_status[u],
         lk'.lock_status[t] = 2 <=> pc'[t] = "rd",
         pc'[t] = "rd" => lk.tail[GLOBAL] = NULL,
         \/ /\ pc[t] \in CountedPcs <=> pc'[t] \in CountedPcs
            /\ pc[t] \in CountedPcs => Home(t)' = Home(t)
            /\ lk'.active_readers = lk.active_readers
         \/ /\ pc[t] \notin CountedPcs /\ pc'[t] \in CountedPcs
            /\ lk'.active_readers = [lk.active_readers EXCEPT ![Home(t)'] = @ + 1]
         \/ /\ pc[t] \in CountedPcs /\ pc'[t] \notin CountedPcs
            /\ lk'.active_readers = [lk.active_readers EXCEPT ![Home(t)] = @ - 1]
  PROVE  HmcsInv'
  <1>1. \A u \in Threads : u # t => pc'[u] = pc[u] /\ loc'[u] = loc[u] /\ Home(u)' = Home(u)
    BY DEF HmcsInv, HmcsType, Moves, Home, SameNode, Nodes
  <1>2. Home(t) \in NumaNodes /\ Home(t)' \in NumaNodes /\ lk.active_readers \in [NumaNodes -> Int]
    <2>1. t \in Nodes
      BY DEF Nodes
    <2> QED
      BY <2>1 DEF HmcsInv, HmcsType, NodeRec, LkRec, Home
  <1>3. pc[t] \notin QueuedPcs /\ pc'[t] \notin QueuedPcs /\ loc[t] = NULL
    BY DEF RdOnlyPcs, CountedPcs, QueuedPcs, GlobalPcs, HmcsInv, HmcsRest, Scanning
  <1>4. HmcsQueues'
    BY <1>1, <1>2, <1>3, OutsideQueues DEF HmcsInv, Home
  <1>5. ReadersCounted'
    <2> SUFFICES ASSUME NEW n \in NumaNodes
                 PROVE  lk'.active_readers[n] = Cardinality(CountedOn(n)')
      BY DEF ReadersCounted
    <2>1. CountedOn(n) \in SUBSET Threads /\ lk.active_readers[n] = Cardinality(CountedOn(n))
      BY DEF CountedOn, HmcsInv, HmcsRest, ReadersCounted
    <2>2. CASE pc[t] \in CountedPcs <=> pc'[t] \in CountedPcs
      <3>1. CountedOn(n)' = CountedOn(n)
        BY <1>1, <2>2 DEF CountedOn
      <3> QED
        BY <2>1, <2>2, <3>1
    <2>3. CASE pc[t] \notin CountedPcs /\ pc'[t] \in CountedPcs
      <3>1. CASE n = Home(t)'
        <4>1. CountedOn(n)' = CountedOn(n) \cup {t} /\ t \notin CountedOn(n)
          BY <1>1, <2>3, <3>1 DEF CountedOn
        <4>2. Cardinality(CountedOn(n) \cup {t}) = Cardinality(CountedOn(n)) + 1
          BY <2>1, <4>1, CountUp
        <4>3. lk'.active_readers[n] = lk.active_readers[n] + 1
          BY <1>2, <2>3, <3>1
        <4> QED
          BY <2>1, <4>1, <4>2, <4>3
      <3>2. CASE n # Home(t)'
        <4>1. CountedOn(n)' = CountedOn(n)
          BY <1>1, <2>3, <3>2 DEF CountedOn
        <4>2. lk'.active_readers[n] = lk.active_readers[n]
          BY <1>2, <2>3, <3>2
        <4> QED
          BY <2>1, <4>1, <4>2
      <3> QED
        BY <3>1, <3>2
    <2>4. CASE pc[t] \in CountedPcs /\ pc'[t] \notin CountedPcs
      <3>1. CASE n = Home(t)
        <4>1. CountedOn(n)' = CountedOn(n) \ {t} /\ t \in CountedOn(n)
          BY <1>1, <2>4, <3>1 DEF CountedOn
        <4>2. Cardinality(CountedOn(n) \ {t}) = Cardinality(CountedOn(n)) - 1
          BY <2>1, <4>1, CountDown
        <4>3. lk'.active_readers[n] = lk.active_readers[n] - 1
          BY <1>2, <2>4, <3>1
        <4> QED
          BY <2>1, <4>1, <4>2, <4>3
      <3>2. CASE n # Home(t)
        <4>1. CountedOn(n)' = CountedOn(n)
          BY <1>1, <2>4, <3>2 DEF CountedOn
        <4>2. lk'.active_readers[n] = lk.active_readers[n]
          BY <1>2, <2>4, <3>2
        <4> QED
          BY <2>1, <4>1, <4>2
      <3> QED
        BY <3>1, <3>2
    <2> QED
      BY <2>2, <2>3, <2>4
  <1>6. Scanning'
    <2> SUFFICES ASSUME NEW u \in Threads
                 PROVE  /\ pc'[u] \notin {"link", "glink", "posix", "tryposix", "tryscan"} => loc'[u] = NULL
                        /\ pc'[u] \in {"posix", "tryposix", "tryscan"} => loc'[u] \in NumaNodes \cup {NULL}
                        /\ pc'[u] \in {"posix", "tryposix"} /\ loc'[u] # NULL =>
                             \A v \in Threads : pc'[v] = "rd" => loc'[u] <= Home(v)'
      BY DEF Scanning
    <2>1. Scanning
      BY DEF HmcsInv, HmcsRest
    <2>2. CASE u = t
      BY <1>3, <2>2 DEF RdOnlyPcs, CountedPcs
    <2>3. CASE u # t
      <3>1. ASSUME pc[u] \in {"posix", "tryposix"}, loc[u] # NULL, NEW v \in Threads, pc'[v] = "rd"
            PROVE  loc[u] <= Home(v)'
        <4>1. lk.tail[GLOBAL] # NULL
          BY <3>1, Turn DEF GlobalPcs
        <4>2. v # t
          BY <3>1, <4>1
        <4> QED
          BY <1>1, <2>1, <3>1, <4>2 DEF Scanning
      <3> QED
        BY <1>1, <2>1, <2>3, <3>1 DEF Scanning
    <2> QED
      BY <2>2, <2>3
  <1>7. StatusKnown'
    BY <1>1 DEF StatusKnown, HmcsInv, HmcsRest
  <1>8. MutexOnly'
    BY DEF MutexOnly
  <1> QED
    BY <1>4, <1>5, <1>6, <1>7, <1>8 DEF HmcsInv, HmcsRest

LEMMA CallLockStep ==
  ASSUME HmcsInv, algo' = algo, NEW t \in Threads, Hmcs!CallLock(t)
  PROVE  HmcsInv' /\ Moves(t) /\ RwAllowed(t)
  <1>1. /\ pc[t] = "idle" /\ pc'[t] = "lock" /\ Moves(t)
        /\ lk' = lk /\ nd' = nd /\ loc' = loc /\ inWait' = inWait
    BY DEF Hmcs!CallLock, Hmcs!Read, Hmcs!Step, Hmcs!mem, Moves, HmcsInv, HmcsType
  <1>2. "lock" \in HmcsPcs
    BY DEF HmcsPcs
  <1>3. HmcsType'
    BY <1>1, <1>2 DEF HmcsInv, HmcsType, Moves
  <1>4. \A v \in Nodes : SameNode(v)
    BY <1>1 DEF SameNode
  <1>5. nd[t].last_local \in NumaNodes
    BY DEF HmcsInv, HmcsType, NodeRec, Nodes
  <1>6. HmcsQueues'
    BY <1>1, <1>4, <1>5, OutsideQueues DEF HmcsInv, QueuedPcs, GlobalPcs
  <1>7. loc[t] = NULL /\ lk.lock_status[t] # 2
    BY <1>1 DEF HmcsInv, HmcsRest, Scanning, StatusKnown
  <1>8. HmcsRest'
    BY <1>1, <1>7, RestKept DEF HmcsInv, RdOnlyPcs, CountedPcs
  <1>9. RwAllowed(t)
    BY <1>1, ClassOf DEF RwAllowed
  <1> QED
    BY <1>1, <1>3, <1>6, <1>8, <1>9 DEF HmcsInv

\* A reader's steps that do not change the counters.
LEMMA ReaderReads ==
  ASSUME HmcsInv, algo' = algo, algo # "hmcsrw_mutex", NEW t \in Threads,
         \/ Hmcs!Read(t, "idle", "rdlock")
         \/ \E n \in Hmcs!current_numa_node(t) : Hmcs!OnNode(t, n)
         \/ Hmcs!NoWriter(t)
  PROVE  HmcsInv' /\ Moves(t) /\ RwAllowed(t)
  <1>1. PICK n \in NumaNodes :
          /\ \/ pc[t] = "idle" /\ pc'[t] = "rdlock"
             \/ pc[t] = "rdlock" /\ pc'[t] = "rdwait"
             \/ pc[t] = "rdwait" /\ pc'[t] = "rdadd"
          /\ Moves(t) /\ lk' = lk /\ loc' = loc /\ inWait' = inWait
          /\ nd' = [nd EXCEPT ![t].last_local = n]
    <2>1. nd = [nd EXCEPT ![t].last_local = nd[t].last_local] /\ nd[t].last_local \in NumaNodes
      BY DEF HmcsInv, HmcsType, NodeRec, Nodes
    <2>2. Hmcs!current_numa_node(t) \subseteq NumaNodes
      BY NodesAre DEF Hmcs!current_numa_node
    <2> QED
      BY <2>1, <2>2 DEF Hmcs!Read, Hmcs!Step, Hmcs!mem, Hmcs!OnNode, Hmcs!NoWriter, Moves, HmcsInv, HmcsType
  <1>2. HmcsType'
    BY <1>1 DEF HmcsInv, HmcsType, Moves, HmcsPcs, RdOnlyPcs, NodeRec, Nodes
  <1>3. \A v \in Nodes \ {t} : SameNode(v)
    BY <1>1 DEF SameNode, HmcsInv, HmcsType
  <1>4. lk.lock_status[t] # 2
    BY <1>1 DEF HmcsInv, HmcsRest, StatusKnown
  <1>5. HmcsInv'
    BY <1>1, <1>2, <1>3, <1>4, ReaderStep DEF RdOnlyPcs, CountedPcs
  <1>6. RwAllowed(t)
    BY <1>1, ClassOf DEF RwAllowed, RdWaiting
  <1> QED
    BY <1>1, <1>5, <1>6

\* A reader announces itself or withdraws.
LEMMA ReaderAdds ==
  ASSUME HmcsInv, algo' = algo, algo # "hmcsrw_mutex", NEW t \in Threads, NEW by \in {1, -1},
         NEW from, NEW to, Hmcs!Add(t, by, from, to),
         \/ by = 1 /\ from = "rdadd" /\ to = "rdcheck"
         \/ by = -1 /\ from = "rdsub" /\ to = "rdwait"
         \/ by = -1 /\ from = "trysub" /\ to = "idle"
  PROVE  HmcsInv' /\ Moves(t) /\ RwAllowed(t)
  <1>1. /\ pc[t] = from /\ pc'[t] = to /\ Moves(t) /\ nd' = nd /\ loc' = loc /\ inWait' = inWait
        /\ lk' = [lk EXCEPT !.active_readers[Home(t)] = @ + by]
    BY DEF Hmcs!Add, Hmcs!Step, Hmcs!Local, Home, Moves, HmcsInv, HmcsType
  <1>2. Home(t) \in NumaNodes /\ Home(t)' = Home(t)
    BY <1>1 DEF HmcsInv, HmcsType, NodeRec, Nodes, Home
  <1>3. /\ lk' \in LkRec /\ lk'.tail = lk.tail /\ lk'.lock_status = lk.lock_status
        /\ lk'.active_readers = [lk.active_readers EXCEPT ![Home(t)] = @ + by]
    BY <1>1, <1>2 DEF HmcsInv, HmcsType, LkRec
  <1>4. HmcsType'
    BY <1>1, <1>3 DEF HmcsInv, HmcsType, Moves, HmcsPcs, RdOnlyPcs, CountedPcs
  <1>5. \A v \in Nodes : SameNode(v)
    BY <1>1 DEF SameNode
  <1>6. lk.lock_status[t] # 2
    BY <1>1 DEF HmcsInv, HmcsRest, StatusKnown
  <1>7. by = -1 => lk'.active_readers = [lk.active_readers EXCEPT ![Home(t)] = @ - 1]
    BY <1>2, <1>3 DEF HmcsInv, HmcsType, LkRec
  <1>8. HmcsInv'
    BY <1>1, <1>2, <1>3, <1>4, <1>5, <1>6, <1>7, ReaderStep DEF RdOnlyPcs, CountedPcs
  <1>9. RwAllowed(t)
    BY <1>1, ClassOf DEF RwAllowed, RdWaiting, Trying
  <1> QED
    BY <1>1, <1>8, <1>9

\* tryrdlock announces itself at once.
LEMMA ReaderTries ==
  ASSUME HmcsInv, algo' = algo, algo # "hmcsrw_mutex", NEW t \in Threads,
         NEW n \in NumaNodes, Hmcs!Step(t, "idle", "trycheck"),
         nd' = [nd EXCEPT ![t].last_local = n], lk' = [lk EXCEPT !.active_readers[n] = @ + 1], loc' = loc
  PROVE  HmcsInv' /\ Moves(t) /\ RwAllowed(t)
  <1>1. /\ pc[t] = "idle" /\ pc'[t] = "trycheck" /\ Moves(t) /\ inWait' = inWait
    BY DEF Hmcs!Step, Moves, HmcsInv, HmcsType
  <1>2. Home(t)' = n
    BY DEF HmcsInv, HmcsType, NodeRec, Nodes, Home
  <1>3. /\ lk' \in LkRec /\ lk'.tail = lk.tail /\ lk'.lock_status = lk.lock_status
        /\ lk'.active_readers = [lk.active_readers EXCEPT ![n] = @ + 1]
    BY DEF HmcsInv, HmcsType, LkRec
  <1>4. HmcsType'
    BY <1>1, <1>3 DEF HmcsInv, HmcsType, Moves, HmcsPcs, RdOnlyPcs, CountedPcs, NodeRec, Nodes
  <1>5. \A v \in Nodes \ {t} : SameNode(v)
    BY DEF SameNode, HmcsInv, HmcsType
  <1>6. lk.lock_status[t] # 2
    BY <1>1 DEF HmcsInv, HmcsRest, StatusKnown
  <1>7. HmcsInv'
    BY <1>1, <1>2, <1>3, <1>4, <1>5, <1>6, ReaderStep DEF RdOnlyPcs, CountedPcs
  <1>8. RwAllowed(t)
    BY <1>1, ClassOf DEF RwAllowed, Trying
  <1> QED
    BY <1>1, <1>7, <1>8

\* With no writer in sight after the announcement the reader has the lock.
LEMMA ReaderRechecks ==
  ASSUME HmcsInv, algo' = algo, algo # "hmcsrw_mutex", NEW t \in Threads,
         \/ Hmcs!RecheckWriter(t, "rdcheck", "rdsub")
         \/ Hmcs!RecheckWriter(t, "trycheck", "trysub")
  PROVE  HmcsInv' /\ Moves(t) /\ RwAllowed(t)
  <1>1. /\ pc[t] \in {"rdcheck", "trycheck"} /\ Moves(t) /\ nd' = nd /\ loc' = loc /\ inWait' = inWait
        /\ \/ lk.tail[GLOBAL] = NULL /\ pc'[t] = "rd" /\ lk' = [lk EXCEPT !.lock_status[t] = 2]
           \/ pc'[t] = (IF pc[t] = "rdcheck" THEN "rdsub" ELSE "trysub") /\ lk' = lk
    BY DEF Hmcs!RecheckWriter, Hmcs!Hold, Hmcs!Read, Hmcs!Step, Hmcs!mem, Hmcs!READ_STATE, Hmcs!GLOBAL,
           GLOBAL, Moves, HmcsInv, HmcsType
  <1>2. Home(t)' = Home(t)
    BY <1>1 DEF Home
  <1>3. lk.lock_status[t] # 2
    BY <1>1 DEF HmcsInv, HmcsRest, StatusKnown
  <1>4. /\ lk' \in LkRec /\ lk'.tail = lk.tail /\ lk'.active_readers = lk.active_readers
        /\ \A u \in Threads : u # t => lk'.lock_status[u] = lk.lock_status[u]
        /\ lk'.lock_status[t] = 2 <=> pc'[t] = "rd"
    BY <1>1, <1>3 DEF HmcsInv, HmcsType, LkRec
  <1>5. HmcsType'
    BY <1>1, <1>4 DEF HmcsInv, HmcsType, Moves, HmcsPcs, RdOnlyPcs, CountedPcs
  <1>6. \A v \in Nodes : SameNode(v)
    BY <1>1 DEF SameNode
  <1>7. HmcsInv'
    BY <1>1, <1>2, <1>4, <1>5, <1>6, ReaderStep DEF RdOnlyPcs, CountedPcs
  <1>8. lk.tail[GLOBAL] = NULL => \A u \in Threads : pc[u] \notin Writing
    BY WritersAre, Turn
  <1>9. /\ Class("rdcheck") = "rdlock" /\ Class("trycheck") = "idle" /\ Class("rd") = "rd"
        /\ Class("rdsub") = "rdlock" /\ Class("trysub") = "idle"
    BY ClassOf DEF RdWaiting, Trying, Reading
  <1>10. RwAllowed(t)
    BY <1>1, <1>8, <1>9 DEF RwAllowed
  <1> QED
    BY <1>1, <1>7, <1>10

-----------------------------------------------------------------------------
(* The writers' steps.                                                       *)

LEMMA MovesOthers ==
  ASSUME HmcsType, NEW t \in Threads, Moves(t), NEW l, loc' = [loc EXCEPT ![t] = l]
  PROVE  Others(t) /\ loc'[t] = l /\ \A u \in Threads : u # t => loc'[u] = loc[u]
  BY DEF HmcsType, Moves, Others

LEMMA HomeIs ==
  ASSUME HmcsType, NEW t \in Threads
  PROVE  Home(t) \in NumaNodes /\ Hmcs!Local(t) = Home(t) /\ t \in Nodes /\ Home(t) \in Nodes
  BY DEF HmcsType, NodeRec, Nodes, Home, Hmcs!Local

\* The front of a local queue goes on, and leaves the nodes and tails alone.
LEMMA FrontQuiet ==
  ASSUME HmcsInv, algo' = algo, NEW t \in Threads, Moves(t), Queued(t), ~Waits(t), pc[t] # "glink",
         nd' = nd, inWait' = inWait, lk' \in LkRec, lk'.tail = lk.tail, lk'.active_readers = lk.active_readers,
         \A u \in Threads : u # t => lk'.lock_status[u] = lk.lock_status[u],
         lk'.lock_status[t] # 2,
         pc'[t] \in QueuedPcs \ {"link", "spin", "glink", "cs"},
         Up(t)' <=> Up(t),
         pc'[t] \in GlobalPcs \ {"glink", "gspin"} =>
           pc[t] \notin {"glink", "gspin"} \/ nd[Home(t)].status = UNLOCKED,
         NEW l \in NumaNodes \cup {NULL}, loc' = [loc EXCEPT ![t] = l],
         l # NULL => /\ pc'[t] \in {"posix", "tryposix"} /\ algo # "hmcsrw_mutex"
                     /\ \A u \in Threads : pc[u] = "rd" => l <= Home(u)
  PROVE  HmcsInv'
  <1>1. Others(t) /\ loc'[t] = l /\ \A u \in Threads : u # t => loc'[u] = loc[u]
    BY MovesOthers DEF HmcsInv
  <1>2. HmcsType'
    BY DEF HmcsInv, HmcsType, Moves, HmcsPcs, Nodes
  <1>3. HmcsQueues'
    <2>1. PICK Q \in [NumaNodes -> Seq(Threads)], g \in Seq(NumaNodes) : HInv(Q, g)
      BY DEF HmcsInv, HmcsQueues
    <2>2. \A v \in Nodes : SameNode(v)
      BY DEF SameNode
    <2>3. HInv(Q, g)'
      BY <1>1, <2>1, <2>2, FrontStep
    <2> QED
      BY <2>3 DEF HmcsQueues
  <1>4. pc[t] \notin CountedPcs /\ pc'[t] \notin RdOnlyPcs /\ pc'[t] \notin CountedPcs
        /\ pc'[t] \notin {"link", "glink", "tryscan"}
    BY DEF Queued, QueuedPcs, GlobalPcs, CountedPcs, RdOnlyPcs
  <1>5. HmcsRest'
    BY <1>1, <1>4, RestKept DEF HmcsInv
  <1> QED
    BY <1>2, <1>3, <1>5 DEF HmcsInv

\* What a scan has shown.
LEMMA ScanIs ==
  ASSUME HmcsInv, NEW t \in Threads, NEW from \in {"idle", "tryscan", "posix", "tryposix"},
         NEW more, NEW done, Hmcs!ScanReaders(t, from, more, done)
  PROVE  /\ pc[t] = from /\ Moves(t) /\ nd' = nd /\ inWait' = inWait
         /\ \/ /\ pc'[t] = more /\ lk' = lk
               /\ \E n \in NumaNodes :
                    /\ loc' = [loc EXCEPT ![t] = n]
                    /\ \A u \in Threads : pc[u] = "rd" /\ (loc[t] = NULL \/ loc[t] <= Home(u)) => n <= Home(u)
            \/ /\ pc'[t] = done /\ loc' = [loc EXCEPT ![t] = NULL]
               /\ lk' = IF done = "wr" THEN [lk EXCEPT !.lock_status[t] = 1] ELSE lk
               /\ \A u \in Threads : pc[u] = "rd" => ~(loc[t] = NULL \/ loc[t] <= Home(u))
  <1>1. pc[t] = from /\ Moves(t) /\ nd' = nd /\ inWait' = inWait
    BY DEF Hmcs!ScanReaders, Hmcs!Step, Hmcs!Hold, Moves, HmcsInv, HmcsType
  <1>2. loc[t] \in NumaNodes \cup {NULL}
    BY <1>1 DEF HmcsInv, HmcsRest, Scanning
  <1>3. PICK i \in NumaNodes : i = IF loc[t] = NULL THEN 0 ELSE loc[t]
    BY <1>2, NodesAre
  <1>4. lk.active_readers[i] = 0
    BY <1>3 DEF Hmcs!ScanReaders
  <1>5. \A u \in Threads : pc[u] = "rd" => Home(u) # i /\ Home(u) \in NumaNodes
    <2>1. CountedOn(i) \in SUBSET Threads /\ Cardinality(CountedOn(i)) = 0
      BY <1>4 DEF CountedOn, HmcsInv, HmcsRest, ReadersCounted
    <2>2. CountedOn(i) = {}
      BY <2>1, CountNone
    <2> QED
      BY <2>2, HomeIs DEF CountedOn, CountedPcs, HmcsInv
  <1>6. \A u \in Threads : pc[u] = "rd" /\ (loc[t] = NULL \/ loc[t] <= Home(u)) => i <= Home(u)
    BY <1>2, <1>3, <1>5, NodesAre
  <1>7. CASE i < Hmcs!LastNode
    <2>1. pc'[t] = more /\ lk' = lk /\ loc' = [loc EXCEPT ![t] = i + 1]
      BY <1>3, <1>7 DEF Hmcs!ScanReaders, Hmcs!Step, HmcsInv, HmcsType
    <2>2. i + 1 \in NumaNodes
      BY <1>7, NodesAre
    <2>3. ASSUME NEW u \in Threads, pc[u] = "rd", loc[t] = NULL \/ loc[t] <= Home(u)
          PROVE  i + 1 <= Home(u)
      <3>1. PICK h \in NumaNodes : h = Home(u)
        BY <1>5, <2>3
      <3>2. i <= h /\ i # h
        BY <1>5, <1>6, <2>3, <3>1
      <3> QED
        BY <3>1, <3>2, NodesAre
    <2> QED
      BY <1>1, <2>1, <2>2, <2>3
  <1>8. CASE ~(i < Hmcs!LastNode)
    <2>1. /\ pc'[t] = done /\ loc' = [loc EXCEPT ![t] = NULL]
          /\ lk' = IF done = "wr" THEN [lk EXCEPT !.lock_status[t] = 1] ELSE lk
      BY <1>3, <1>8 DEF Hmcs!ScanReaders, Hmcs!Step, Hmcs!Hold, Hmcs!WRITE_STATE, HmcsInv, HmcsType
    <2>2. ASSUME NEW u \in Threads, pc[u] = "rd", loc[t] = NULL \/ loc[t] <= Home(u)
          PROVE  FALSE
      <3>1. PICK h \in NumaNodes : h = Home(u)
        BY <1>5, <2>2
      <3>2. i <= h /\ i # h
        BY <1>5, <1>6, <2>2, <3>1
      <3>3. PICK k \in NumaNodes : k = Hmcs!LastNode
        BY NodesAre
      <3> QED
        BY <1>8, <3>1, <3>2, <3>3, NodesAre
    <2> QED
      BY <1>1, <2>1, <2>2
  <1> QED
    BY <1>7, <1>8

\* The step by which a writer gets the lock.
LEMMA WriterGets ==
  ASSUME HmcsInv, algo' = algo, NEW t \in Threads, pc[t] \in {"posix", "tryposix"}, pc'[t] = "wr", Moves(t),
         nd' = nd, inWait' = inWait, loc' = [loc EXCEPT ![t] = NULL],
         lk' = lk \/ lk' = [lk EXCEPT !.lock_status[t] = 1],
         \A u \in Threads : pc[u] # "rd"
  PROVE  HmcsInv' /\ Moves(t) /\ RwAllowed(t)
  <1>1. Queued(t) /\ ~Waits(t) /\ Up(t) /\ Up(t)'
    BY DEF Queued, Waits, Up, QueuedPcs, GlobalPcs
  <1>2. lk.lock_status[t] # 2
    BY DEF HmcsInv, HmcsRest, StatusKnown
  <1>3. /\ lk' \in LkRec /\ lk'.tail = lk.tail /\ lk'.active_readers = lk.active_readers
        /\ \A u \in Threads : u # t => lk'.lock_status[u] = lk.lock_status[u]
        /\ lk'.lock_status[t] # 2
    BY <1>2 DEF HmcsInv, HmcsType, LkRec
  <1>4. HmcsInv'
    BY <1>1, <1>3, FrontQuiet DEF QueuedPcs, GlobalPcs
  <1>5. \A u \in Threads : pc[u] \notin Reading \cup Writing
    BY WritersAre, Turn DEF GlobalPcs
  <1>6. Class("posix") = "wrlock" /\ Class("tryposix") = "idle" /\ Class("wr") = "wr"
    BY ClassOf DEF Trying, Writing
  <1>7. RwAllowed(t)
    BY <1>5, <1>6 DEF RwAllowed
  <1> QED
    BY <1>4, <1>7

LEMMA WriterScans ==
  ASSUME HmcsInv, algo' = algo, algo # "hmcsrw_mutex", NEW t \in Threads, NEW from \in {"posix", "tryposix"},
         Hmcs!ScanReaders(t, from, from, "wr")
  PROVE  HmcsInv' /\ Moves(t) /\ RwAllowed(t)
  <1>1. \A u \in Threads : pc[u] = "rd" => loc[t] = NULL \/ loc[t] <= Home(u)
    BY DEF Hmcs!ScanReaders, HmcsInv, HmcsRest, Scanning
  <1>2. /\ pc[t] = from /\ Moves(t) /\ nd' = nd /\ inWait' = inWait
        /\ \/ /\ pc'[t] = from /\ lk' = lk
              /\ \E n \in NumaNodes :
                   /\ loc' = [loc EXCEPT ![t] = n]
                   /\ \A u \in Threads : pc[u] = "rd" => n <= Home(u)
           \/ /\ pc'[t] = "wr" /\ loc' = [loc EXCEPT ![t] = NULL]
              /\ lk' = [lk EXCEPT !.lock_status[t] = 1]
              /\ \A u \in Threads : pc[u] # "rd"
    BY <1>1, ScanIs
  <1>3. CASE pc'[t] = "wr"
    BY <1>2, <1>3, WriterGets
  <1>4. CASE pc'[t] = from
    <2>1. PICK n \in NumaNodes : /\ lk' = lk /\ loc' = [loc EXCEPT ![t] = n]
                                 /\ \A u \in Threads : pc[u] = "rd" => n <= Home(u)
      BY <1>2, <1>4
    <2>2. Queued(t) /\ ~Waits(t) /\ Up(t) /\ Up(t)'
      BY <1>2, <1>4 DEF Queued, Waits, Up, QueuedPcs, GlobalPcs
    <2>3. lk.lock_status[t] # 2
      BY <1>2 DEF HmcsInv, HmcsRest, StatusKnown
    <2>4. HmcsInv'
      BY <1>2, <1>4, <2>1, <2>2, <2>3, FrontQuiet DEF QueuedPcs, GlobalPcs, HmcsInv, HmcsType
    <2> QED
      BY <1>2, <1>4, <2>4 DEF RwAllowed
  <1> QED
    BY <1>2, <1>3, <1>4

LEMMA MutexGets ==
  ASSUME HmcsInv, algo' = algo, algo = "hmcsrw_mutex", NEW t \in Threads,
         Hmcs!Read(t, "posix", "wr") \/ Hmcs!Read(t, "tryposix", "wr")
  PROVE  HmcsInv' /\ Moves(t) /\ RwAllowed(t)
  <1>1. /\ pc[t] \in {"posix", "tryposix"} /\ pc'[t] = "wr" /\ Moves(t) /\ nd' = nd /\ inWait' = inWait
        /\ lk' = lk /\ loc' = [loc EXCEPT ![t] = NULL]
    BY DEF Hmcs!Read, Hmcs!Step, Hmcs!mem, Moves, HmcsInv, HmcsType, HmcsRest, MutexOnly
  <1>2. \A u \in Threads : pc[u] # "rd"
    BY DEF HmcsInv, HmcsRest, MutexOnly, RdOnlyPcs, CountedPcs
  <1> QED
    BY <1>1, <1>2, WriterGets

\* A step of a writer that only looks.
LEMMA WriterReads ==
  ASSUME HmcsInv, algo' = algo, NEW t \in Threads,
         \/ Hmcs!LocalGranted(t)
         \/ Hmcs!GlobalGranted(t)
         \/ Hmcs!Read(t, "unlock", "gcas")
  PROVE  HmcsInv' /\ Moves(t) /\ RwAllowed(t)
  <1>1. /\ \/ /\ pc[t] = "spin" /\ nd[t].status # -1
              /\ pc'[t] = IF nd[t].status = -2 THEN "start" ELSE "posix"
           \/ pc[t] = "gspin" /\ pc'[t] = "posix" /\ nd[Home(t)].status = UNLOCKED
           \/ pc[t] = "unlock" /\ pc'[t] = "gcas"
        /\ Moves(t) /\ nd' = nd /\ inWait' = inWait /\ lk' = lk /\ loc' = loc
    BY DEF Hmcs!LocalGranted, Hmcs!GlobalGranted, Hmcs!Read, Hmcs!Step, Hmcs!mem, Hmcs!Local, Home,
           Hmcs!WAIT, Hmcs!ACQUIRE_PARENT, Hmcs!UNLOCKED, UNLOCKED, Moves, HmcsInv, HmcsType
  <1>2. Queued(t) /\ ~Waits(t) /\ (Up(t)' <=> Up(t))
    BY <1>1 DEF Queued, Waits, Up, QueuedPcs, GlobalPcs, WAIT, ACQUIRE_PARENT
  <1>3. lk.lock_status[t] # 2 /\ loc[t] = NULL
    BY <1>1 DEF HmcsInv, HmcsRest, StatusKnown, Scanning
  <1>4. lk' \in LkRec /\ loc' = [loc EXCEPT ![t] = NULL]
    BY <1>1, <1>3 DEF HmcsInv, HmcsType
  <1>5. HmcsInv'
    BY <1>1, <1>2, <1>3, <1>4, FrontQuiet DEF QueuedPcs, GlobalPcs
  <1>6. RwAllowed(t)
    BY <1>1, ClassOf DEF RwAllowed, Writing
  <1> QED
    BY <1>1, <1>5, <1>6

\* A scan of trywrlock before it queues, and a scan that gives up.
LEMMA TryScans ==
  ASSUME HmcsInv, algo' = algo, algo # "hmcsrw_mutex", NEW t \in Threads,
         \/ Hmcs!ScanReaders(t, "idle", "tryscan", "trylock")
         \/ Hmcs!ScanReaders(t, "tryscan", "tryscan", "trylock")
         \/ /\ Hmcs!Step(t, "tryscan", "idle") /\ loc' = [loc EXCEPT ![t] = NULL]
            /\ lk' = lk /\ nd' = nd
  PROVE  HmcsInv' /\ Moves(t) /\ RwAllowed(t)
  <1>1. PICK l \in NumaNodes \cup {NULL} :
          /\ pc[t] \in {"idle", "tryscan"} /\ pc'[t] \in {"idle", "tryscan", "trylock"} /\ Moves(t)
          /\ lk' = lk /\ nd' = nd /\ inWait' = inWait /\ loc' = [loc EXCEPT ![t] = l]
          /\ pc'[t] # "tryscan" => l = NULL
    <2>1. CASE \/ Hmcs!ScanReaders(t, "idle", "tryscan", "trylock")
               \/ Hmcs!ScanReaders(t, "tryscan", "tryscan", "trylock")
      <3>1. /\ pc[t] \in {"idle", "tryscan"} /\ Moves(t) /\ nd' = nd /\ inWait' = inWait /\ lk' = lk
            /\ \/ pc'[t] = "tryscan" /\ \E n \in NumaNodes : loc' = [loc EXCEPT ![t] = n]
               \/ pc'[t] = "trylock" /\ loc' = [loc EXCEPT ![t] = NULL]
        BY <2>1, ScanIs
      <3> QED
        BY <3>1
    <2>2. CASE /\ Hmcs!Step(t, "tryscan", "idle") /\ loc' = [loc EXCEPT ![t] = NULL]
               /\ lk' = lk /\ nd' = nd
      BY <2>2 DEF Hmcs!Step, Moves, HmcsInv, HmcsType
    <2> QED
      BY <2>1, <2>2
  <1>2. HmcsType' /\ loc'[t] = l /\ \A u \in Threads : u # t => loc'[u] = loc[u]
    BY <1>1, MovesOthers DEF HmcsInv, HmcsType, Moves, HmcsPcs, RdOnlyPcs, Nodes
  <1>3. \A v \in Nodes : SameNode(v)
    BY <1>1 DEF SameNode
  <1>4. pc[t] \notin QueuedPcs \cup CountedPcs /\ pc'[t] \notin QueuedPcs \cup CountedPcs
    BY <1>1 DEF QueuedPcs, GlobalPcs, CountedPcs
  <1>5. HmcsQueues'
    BY <1>1, <1>2, <1>3, <1>4, HomeIs, OutsideQueues DEF HmcsInv, Home
  <1>6. lk.lock_status[t] # 2
    BY <1>1 DEF HmcsInv, HmcsRest, StatusKnown
  <1>7. HmcsRest'
    BY <1>1, <1>2, <1>4, <1>6, RestKept DEF HmcsInv
  <1>8. RwAllowed(t)
    BY <1>1, ClassOf DEF RwAllowed, Trying
  <1> QED
    BY <1>1, <1>2, <1>5, <1>7, <1>8 DEF HmcsInv

\* The swap of a local tail.
LEMMA Enqueues ==
  ASSUME HmcsInv, algo' = algo, NEW t \in Threads, NEW n \in NumaNodes,
         pc[t] \in {"idle", "lock", "trylock"}, Moves(t), inWait' = inWait,
         lk.tail[n] = NULL => pc'[t] \in {"start", "trytop"},
         lk.tail[n] # NULL => pc'[t] = "link",
         nd' = [nd EXCEPT ![t] = [next |-> NULL, status |-> -1, last_local |-> n]],
         lk' = [lk EXCEPT !.tail[n] = t],
         loc' = [loc EXCEPT ![t] = lk.tail[n]]
  PROVE  HmcsInv'
  <1>1. PICK Q \in [NumaNodes -> Seq(Threads)], g \in Seq(NumaNodes) : HInv(Q, g)
    BY DEF HmcsInv, HmcsQueues
  <1>2. PICK l \in Nodes \cup {NULL} : l = lk.tail[n]
    BY DEF HmcsInv, HmcsType, LkRec
  <1>3. Others(t) /\ loc'[t] = l /\ \A u \in Threads : u # t => loc'[u] = loc[u]
    BY <1>2, MovesOthers DEF HmcsInv
  <1>4. /\ lk' \in LkRec /\ lk'.active_readers = lk.active_readers /\ lk'.lock_status = lk.lock_status
        /\ lk'.tail[n] = t /\ \A h \in (NumaNodes \cup {GLOBAL}) \ {n} : lk'.tail[h] = lk.tail[h]
    BY HomeIs DEF HmcsInv, HmcsType, LkRec
  <1>5. /\ nd' \in [Nodes -> NodeRec] /\ \A v \in Nodes \ {t} : SameNode(v)
        /\ nd'[t].next = NULL /\ nd'[t].status = WAIT /\ nd'[t].last_local = n
    BY HomeIs DEF HmcsInv, HmcsType, NodeRec, SameNode, WAIT
  <1>6. HmcsType'
    BY <1>2, <1>4, <1>5 DEF HmcsInv, HmcsType, Moves, HmcsPcs, QueuedPcs
  <1>7. HmcsQueues'
    <2>1. pc[t] \notin QueuedPcs
      BY DEF QueuedPcs, GlobalPcs
    <2>4. lk.tail[n] # NULL => pc'[t] = "link" /\ loc'[t] = lk.tail[n]
      BY <1>2, <1>3
    <2>2. HInv([Q EXCEPT ![n] = Append(@, t)], g)'
      BY <1>1, <1>3, <1>4, <1>5, <2>1, <2>4, EnqueueStep
    <2>3. [Q EXCEPT ![n] = Append(@, t)] \in [NumaNodes -> Seq(Threads)]
      BY <1>1
    <2> QED
      BY <2>2, <2>3 DEF HmcsQueues
  <1>8. lk.lock_status[t] # 2
    BY DEF HmcsInv, HmcsRest, StatusKnown
  <1>9. pc[t] \notin CountedPcs /\ pc'[t] \notin RdOnlyPcs /\ pc'[t] \notin CountedPcs
    BY DEF CountedPcs, RdOnlyPcs
  <1>10. HmcsRest'
    BY <1>2, <1>3, <1>4, <1>5, <1>8, <1>9, RestKept DEF HmcsInv, SameNode, Nodes
  <1> QED
    BY <1>6, <1>7, <1>10 DEF HmcsInv

LEMMA WriterQueues ==
  ASSUME HmcsInv, algo' = algo, NEW t \in Threads,
         \E n \in Hmcs!current_numa_node(t) : Hmcs!LocalEnqueue(t, n)
  PROVE  HmcsInv' /\ Moves(t) /\ RwAllowed(t)
  <1>1. PICK n \in NumaNodes : Hmcs!LocalEnqueue(t, n)
    BY NodesAre DEF Hmcs!current_numa_node
  <1>2. /\ pc[t] = "lock" /\ Moves(t) /\ inWait' = inWait
        /\ pc'[t] = IF lk.tail[n] = NULL THEN "start" ELSE "link"
        /\ nd' = [nd EXCEPT ![t] = [next |-> NULL, status |-> -1, last_local |-> n]]
        /\ lk' = [lk EXCEPT !.tail[n] = t]
        /\ loc' = [loc EXCEPT ![t] = lk.tail[n]]
    BY <1>1 DEF Hmcs!LocalEnqueue, Hmcs!Step, Hmcs!WAIT, Moves, HmcsInv, HmcsType
  <1>3. HmcsInv'
    BY <1>2, Enqueues
  <1>4. RwAllowed(t)
    BY <1>2, ClassOf DEF RwAllowed
  <1> QED
    BY <1>2, <1>3, <1>4

LEMMA WriterTries ==
  ASSUME HmcsInv, algo' = algo, NEW t \in Threads, NEW from \in {"idle", "trylock"},
         \E n \in Hmcs!current_numa_node(t) : Hmcs!TryLocal(t, n, from)
  PROVE  HmcsInv' /\ Moves(t) /\ RwAllowed(t)
  <1>1. PICK n \in NumaNodes : Hmcs!TryLocal(t, n, from)
    BY NodesAre DEF Hmcs!current_numa_node
  <1>2. /\ pc[t] = from /\ Moves(t) /\ inWait' = inWait
        /\ pc'[t] = IF lk.tail[n] = NULL THEN "trytop" ELSE "idle"
        /\ nd' = [nd EXCEPT ![t] = [next |-> NULL, status |-> -1, last_local |-> n]]
        /\ loc' = loc
        /\ lk.tail[n] = NULL => lk' = [lk EXCEPT !.tail[n] = t]
        /\ lk.tail[n] # NULL => lk' = lk
    <2>1. lk' = [lk EXCEPT !.tail[n] = IF lk.tail[n] = NULL THEN t ELSE lk.tail[n]]
      BY <1>1 DEF Hmcs!TryLocal
    <2>2. [lk EXCEPT !.tail[n] = lk.tail[n]] = lk
      BY DEF HmcsInv, HmcsType, LkRec
    <2>3. /\ lk.tail[n] = NULL => lk' = [lk EXCEPT !.tail[n] = t]
          /\ lk.tail[n] # NULL => lk' = lk
      BY <2>1, <2>2
    <2> QED
      BY <1>1, <2>3 DEF Hmcs!TryLocal, Hmcs!Step, Hmcs!WAIT, Moves, HmcsInv, HmcsType
  <1>3. RwAllowed(t)
    BY <1>2, ClassOf DEF RwAllowed, Trying
  <1>4. loc[t] = NULL /\ lk.lock_status[t] # 2
    BY <1>2 DEF HmcsInv, HmcsRest, Scanning, StatusKnown
  <1>5. CASE lk.tail[n] = NULL
    <2>1. loc' = [loc EXCEPT ![t] = lk.tail[n]]
      BY <1>2, <1>4, <1>5 DEF HmcsInv, HmcsType
    <2> QED
      BY <1>2, <1>3, <1>5, <2>1, Enqueues
  <1>6. CASE lk.tail[n] # NULL
    <2>1. /\ nd' \in [Nodes -> NodeRec] /\ \A v \in Nodes \ {t} : SameNode(v)
          /\ nd'[t].last_local = n
      BY <1>2, HomeIs DEF HmcsInv, HmcsType, NodeRec, SameNode
    <2>2. HmcsType'
      BY <1>2, <1>6, <2>1 DEF HmcsInv, HmcsType, Moves, HmcsPcs
    <2>3. pc[t] \notin QueuedPcs \cup CountedPcs /\ pc'[t] = "idle" /\ "idle" \notin QueuedPcs \cup RdOnlyPcs
      BY <1>2, <1>6 DEF QueuedPcs, GlobalPcs, CountedPcs, RdOnlyPcs
    <2>4. HmcsQueues'
      BY <1>2, <1>6, <2>1, <2>3, OutsideQueues DEF HmcsInv
    <2>5. HmcsRest'
      BY <1>2, <1>4, <1>6, <2>1, <2>3, RestKept DEF HmcsInv, SameNode, Nodes, RdOnlyPcs
    <2> QED
      BY <1>2, <1>3, <2>2, <2>4, <2>5 DEF HmcsInv
  <1> QED
    BY <1>5, <1>6

\* The store behind the swap.
LEMMA WriterLinks ==
  ASSUME HmcsInv, algo' = algo, NEW t \in Threads,
         Hmcs!LinkTo(t, t, "link", "spin") \/ Hmcs!LinkTo(t, Hmcs!Local(t), "glink", "gspin")
  PROVE  HmcsInv' /\ Moves(t) /\ RwAllowed(t)
  <1>1. PICK Q \in [NumaNodes -> Seq(Threads)], g \in Seq(NumaNodes) : HInv(Q, g)
    BY DEF HmcsInv, HmcsQueues
  <1>2. PICK v \in Nodes :
          /\ \/ pc[t] = "link" /\ pc'[t] = "spin" /\ v = t
             \/ pc[t] = "glink" /\ pc'[t] = "gspin" /\ v = Home(t)
          /\ Moves(t) /\ inWait' = inWait /\ lk' = lk
          /\ nd' = [nd EXCEPT ![loc[t]].next = v] /\ loc' = [loc EXCEPT ![t] = NULL]
    <2>1. HmcsType /\ Home(t) \in Nodes /\ t \in Nodes /\ Hmcs!Local(t) = Home(t)
      BY HomeIs DEF HmcsInv
    <2>2. CASE Hmcs!LinkTo(t, t, "link", "spin")
      <3>1. /\ pc[t] = "link" /\ pc'[t] = "spin" /\ Moves(t) /\ inWait' = inWait /\ lk' = lk
            /\ nd' = [nd EXCEPT ![loc[t]].next = t] /\ loc' = [loc EXCEPT ![t] = NULL]
        BY <2>1, <2>2 DEF Hmcs!LinkTo, Hmcs!Step, Moves, HmcsType
      <3> QED
        BY <2>1, <3>1
    <2>3. CASE Hmcs!LinkTo(t, Hmcs!Local(t), "glink", "gspin")
      <3>1. /\ pc[t] = "glink" /\ pc'[t] = "gspin" /\ Moves(t) /\ inWait' = inWait /\ lk' = lk
            /\ nd' = [nd EXCEPT ![loc[t]].next = Home(t)] /\ loc' = [loc EXCEPT ![t] = NULL]
        BY <2>1, <2>3 DEF Hmcs!LinkTo, Hmcs!Step, Moves, HmcsType
      <3> QED
        BY <2>1, <3>1
    <2> QED
      BY <2>2, <2>3
  <1>3. loc[t] \in Nodes
    BY <1>1, <1>2, LinkingAt DEF Nodes
  <1>4. Others(t) /\ loc'[t] = NULL /\ \A u \in Threads : u # t => loc'[u] = loc[u]
    BY <1>2, MovesOthers DEF HmcsInv
  <1>5. /\ nd' \in [Nodes -> NodeRec] /\ nd'[loc[t]].next = v
        /\ \A x \in Nodes : x = loc[t] \/ nd'[x].next = nd[x].next
        /\ \A x \in Nodes : nd'[x].status = nd[x].status /\ nd'[x].last_local = nd[x].last_local
    BY <1>2, <1>3 DEF HmcsInv, HmcsType, NodeRec
  <1>6. HmcsType'
    BY <1>2, <1>5 DEF HmcsInv, HmcsType, Moves, HmcsPcs, QueuedPcs, GlobalPcs
  <1>7. HInv(Q, g)'
    BY <1>1, <1>2, <1>4, <1>5, LinkStep, TopLinkStep
  <1>8. HmcsQueues'
    BY <1>7 DEF HmcsQueues
  <1>9. lk.lock_status[t] # 2
    BY <1>2 DEF HmcsInv, HmcsRest, StatusKnown
  <1>10. pc[t] \notin CountedPcs /\ pc'[t] \notin RdOnlyPcs /\ pc'[t] \notin CountedPcs
    BY <1>2 DEF CountedPcs, RdOnlyPcs
  <1>11. HmcsRest'
    BY <1>2, <1>4, <1>5, <1>9, <1>10, RestKept DEF HmcsInv, Nodes
  <1>12. RwAllowed(t)
    BY <1>2, ClassOf DEF RwAllowed
  <1> QED
    BY <1>2, <1>6, <1>8, <1>11, <1>12 DEF HmcsInv

\* A thread's node and that of its local lock change.
Started(t, n, s) == [nd EXCEPT ![t].status = 1, ![n].next = NULL, ![n].status = s]

LEMMA TwoNodes ==
  ASSUME HmcsType, NEW t \in Threads, NEW n \in NumaNodes, NEW s \in Int,
         nd' = Started(t, n, s)
  PROVE  /\ nd' \in [Nodes -> NodeRec] /\ \A v \in Nodes \ {t, n} : SameNode(v)
         /\ \A v \in Threads : nd'[v].last_local = nd[v].last_local
         /\ nd'[t].next = nd[t].next /\ nd'[t].status = 1
         /\ nd'[n].next = NULL /\ nd'[n].status = s
  <1>1. t # n /\ t \in Nodes /\ n \in Nodes /\ \A v \in Threads : v \in Nodes /\ v # n
    BY NodesAre DEF Nodes
  <1>2. PICK f \in [Nodes -> NodeRec] :
          /\ f = [nd EXCEPT ![t].status = 1]
          /\ f[t].next = nd[t].next /\ f[t].status = 1 /\ f[t].last_local = nd[t].last_local
          /\ \A v \in Nodes \ {t} : f[v] = nd[v]
    <2> DEFINE F == [nd EXCEPT ![t].status = 1]
    <2>1. /\ F \in [Nodes -> NodeRec]
          /\ F[t].next = nd[t].next /\ F[t].status = 1 /\ F[t].last_local = nd[t].last_local
          /\ \A v \in Nodes \ {t} : F[v] = nd[v]
      BY <1>1 DEF HmcsType, NodeRec
    <2> QED
      BY <2>1
  <1>3. PICK k \in [Nodes -> NodeRec] :
          /\ k = [f EXCEPT ![n].next = NULL]
          /\ k[n].next = NULL
          /\ \A v \in Nodes \ {n} : k[v] = f[v]
    <2> DEFINE K == [f EXCEPT ![n].next = NULL]
    <2>1. /\ K \in [Nodes -> NodeRec]
          /\ K[n].next = NULL
          /\ \A v \in Nodes \ {n} : K[v] = f[v]
      BY <1>1 DEF NodeRec
    <2> QED
      BY <2>1
  <1>4. PICK m \in [Nodes -> NodeRec] :
          /\ m = [k EXCEPT ![n].status = s]
          /\ m[n].next = NULL /\ m[n].status = s
          /\ \A v \in Nodes \ {n} : m[v] = k[v]
    <2> DEFINE M == [k EXCEPT ![n].status = s]
    <2>1. /\ M \in [Nodes -> NodeRec]
          /\ M[n].next = k[n].next /\ M[n].status = s
          /\ \A v \in Nodes \ {n} : M[v] = k[v]
      BY <1>1 DEF NodeRec
    <2> QED
      BY <1>3, <2>1
  <1>5. nd' = m
    BY <1>2, <1>3, <1>4 DEF Started
  <1>6. /\ nd'[t] = f[t] /\ \A v \in Nodes \ {t, n} : nd'[v] = nd[v]
    BY <1>1, <1>2, <1>3, <1>4, <1>5
  <1>7. \A v \in Threads \ {t} : nd'[v] = nd[v]
    BY <1>1, <1>6
  <1> QED
    BY <1>1, <1>2, <1>4, <1>5, <1>6, <1>7 DEF SameNode

\* The node of the local lock is put at the end of the global queue.
LEMMA CohortStarts ==
  ASSUME HmcsInv, algo' = algo, NEW t \in Threads, NEW n \in NumaNodes, n = Home(t),
         pc[t] \in {"start", "trytop"}, Moves(t), inWait' = inWait,
         lk.tail[GLOBAL] = NULL => pc'[t] \in {"gspin", "tryposix"},
         lk.tail[GLOBAL] # NULL => pc'[t] = "glink",
         nd' = Started(t, n, IF lk.tail[GLOBAL] = NULL THEN UNLOCKED ELSE LOCKED),
         lk' = [lk EXCEPT !.tail[GLOBAL] = n],
         loc' = [loc EXCEPT ![t] = lk.tail[GLOBAL]]
  PROVE  HmcsInv'
  <1>1. PICK Q \in [NumaNodes -> Seq(Threads)], g \in Seq(NumaNodes) : HInv(Q, g)
    BY DEF HmcsInv, HmcsQueues
  <1>2. PICK l \in Nodes \cup {NULL} : l = lk.tail[GLOBAL]
    BY DEF HmcsInv, HmcsType, LkRec
  <1>3. Others(t) /\ loc'[t] = l /\ \A u \in Threads : u # t => loc'[u] = loc[u]
    BY <1>2, MovesOthers DEF HmcsInv
  <1>4. /\ lk' \in LkRec /\ lk'.active_readers = lk.active_readers /\ lk'.lock_status = lk.lock_status
        /\ lk'.tail[GLOBAL] = n /\ \A h \in NumaNodes : lk'.tail[h] = lk.tail[h]
    BY HomeIs, NodesAre DEF HmcsInv, HmcsType, LkRec, GLOBAL
  <1>5. t # n /\ t \in Nodes /\ n \in Nodes
    BY NodesAre DEF Nodes
  <1>6. PICK s \in Int : s = IF lk.tail[GLOBAL] = NULL THEN UNLOCKED ELSE LOCKED
    BY DEF UNLOCKED, LOCKED
  <1>7. /\ nd' \in [Nodes -> NodeRec] /\ \A v \in Nodes \ {t, n} : SameNode(v)
        /\ nd'[t].next = nd[t].next /\ nd'[t].last_local = n /\ nd'[t].status = 1
        /\ nd'[n].next = NULL /\ nd'[n].status = s
        /\ \A u \in Threads : nd'[u].last_local = nd[u].last_local
    <2>1. nd' = Started(t, n, s)
      BY <1>6
    <2>2. /\ nd' \in [Nodes -> NodeRec] /\ \A v \in Nodes \ {t, n} : SameNode(v)
          /\ \A v \in Threads : nd'[v].last_local = nd[v].last_local
          /\ nd'[t].next = nd[t].next /\ nd'[t].status = 1
          /\ nd'[n].next = NULL /\ nd'[n].status = s
      BY <2>1, TwoNodes DEF HmcsInv
    <2> QED
      BY <2>2 DEF Home
  <1>8. HmcsType'
    <2>1. loc' \in [Threads -> Nodes \cup {NULL}]
      BY <1>2 DEF HmcsInv, HmcsType
    <2>2. pc' \in [Threads -> HmcsPcs]
      <3>1. pc'[t] \in HmcsPcs
        BY DEF HmcsPcs, QueuedPcs, GlobalPcs
      <3> QED
        BY <3>1 DEF HmcsInv, HmcsType, Moves
    <2>3. inWait' = {}
      BY DEF HmcsInv, HmcsType
    <2> QED
      BY <1>4, <1>7, <2>1, <2>2, <2>3 DEF HmcsType
  <1>9. HmcsQueues'
    <2>1. lk.tail[GLOBAL] # NULL => pc'[t] = "glink" /\ loc'[t] = lk.tail[GLOBAL]
      BY <1>2, <1>3
    <2>2. nd'[t].status \in Nat \ {0} /\ nd'[n].status = IF lk.tail[GLOBAL] = NULL THEN UNLOCKED ELSE LOCKED
      BY <1>6, <1>7
    <2>3. HInv(Q, Append(g, n))'
      BY <1>1, <1>3, <1>4, <1>7, <2>1, <2>2, StartStep
    <2>4. Append(g, n) \in Seq(NumaNodes)
      BY <1>1
    <2> QED
      BY <2>3, <2>4 DEF HmcsQueues
  <1>10. lk.lock_status[t] # 2
    BY DEF HmcsInv, HmcsRest, StatusKnown
  <1>11. pc[t] \notin CountedPcs /\ pc'[t] \notin RdOnlyPcs /\ pc'[t] \notin CountedPcs
    BY DEF CountedPcs, RdOnlyPcs
  <1>12. /\ lk.tail[GLOBAL] = NULL => loc'[t] = NULL
         /\ lk.tail[GLOBAL] # NULL => pc'[t] = "glink"
    BY <1>2, <1>3
  <1>14. HmcsRest'
    BY <1>3, <1>4, <1>10, <1>11, <1>7, <1>12, RestKept DEF HmcsInv
  <1> QED
    BY <1>8, <1>9, <1>14 DEF HmcsInv

LEMMA WriterStarts ==
  ASSUME HmcsInv, algo' = algo, NEW t \in Threads, Hmcs!StartCohort(t, Hmcs!Local(t))
  PROVE  HmcsInv' /\ Moves(t) /\ RwAllowed(t)
  <1>1. PICK n \in NumaNodes : n = Home(t) /\ n = Hmcs!Local(t)
    BY HomeIs DEF HmcsInv
  <1>2. /\ pc[t] = "start" /\ Moves(t) /\ inWait' = inWait
        /\ pc'[t] = IF lk.tail[GLOBAL] = NULL THEN "gspin" ELSE "glink"
        /\ nd' = Started(t, n, IF lk.tail[GLOBAL] = NULL THEN UNLOCKED ELSE LOCKED)
        /\ lk' = [lk EXCEPT !.tail[GLOBAL] = n]
        /\ loc' = [loc EXCEPT ![t] = lk.tail[GLOBAL]]
    BY <1>1 DEF Hmcs!StartCohort, Hmcs!Step, Hmcs!COHORT_START, Hmcs!Initially, Hmcs!GLOBAL, GLOBAL,
                Hmcs!UNLOCKED, UNLOCKED, Hmcs!LOCKED, LOCKED, Started, Moves, HmcsInv, HmcsType
  <1>3. HmcsInv'
    BY <1>1, <1>2, CohortStarts
  <1>4. RwAllowed(t)
    BY <1>2, ClassOf DEF RwAllowed
  <1> QED
    BY <1>2, <1>3, <1>4

\* trylock tries the global lock once.
LEMMA WriterTriesTop ==
  ASSUME HmcsInv, algo' = algo, NEW t \in Threads, Hmcs!TryGlobal(t)
  PROVE  HmcsInv' /\ Moves(t) /\ RwAllowed(t)
  <1>1. PICK n \in NumaNodes : n = Home(t) /\ n = Hmcs!Local(t)
    BY HomeIs DEF HmcsInv
  <1>2. /\ pc[t] = "trytop" /\ Moves(t) /\ inWait' = inWait
        /\ pc'[t] = IF lk.tail[GLOBAL] = NULL THEN "tryposix" ELSE "trycas"
        /\ nd' = Started(t, n, IF lk.tail[GLOBAL] = NULL THEN UNLOCKED ELSE LOCKED)
        /\ lk' = [lk EXCEPT !.tail[GLOBAL] = IF lk.tail[GLOBAL] = NULL THEN n ELSE lk.tail[GLOBAL]]
        /\ loc' = loc
    BY <1>1 DEF Hmcs!TryGlobal, Hmcs!Step, Hmcs!COHORT_START, Hmcs!Initially, Hmcs!GLOBAL, GLOBAL,
                Hmcs!UNLOCKED, UNLOCKED, Hmcs!LOCKED, LOCKED, Started, Moves, HmcsInv, HmcsType
  <1>3. loc[t] = NULL /\ lk.lock_status[t] # 2
    BY <1>2 DEF HmcsInv, HmcsRest, Scanning, StatusKnown
  <1>4. RwAllowed(t)
    BY <1>2, ClassOf DEF RwAllowed, Trying
  <1>5. CASE lk.tail[GLOBAL] = NULL
    <2>1. loc' = [loc EXCEPT ![t] = lk.tail[GLOBAL]] /\ lk' = [lk EXCEPT !.tail[GLOBAL] = n]
      BY <1>2, <1>3, <1>5 DEF HmcsInv, HmcsType
    <2> QED
      BY <1>1, <1>2, <1>4, <1>5, <2>1, CohortStarts
  <1>6. CASE lk.tail[GLOBAL] # NULL
    <2>1. lk' = lk /\ pc'[t] = "trycas"
      BY <1>2, <1>6 DEF HmcsInv, HmcsType, LkRec
    <2>3. nd' = Started(t, n, 0)
      BY <1>2, <1>6 DEF LOCKED
    <2>4. /\ nd' \in [Nodes -> NodeRec] /\ \A v \in Nodes \ {t, n} : SameNode(v)
          /\ nd'[t].next = nd[t].next /\ \A u \in Threads : nd'[u].last_local = nd[u].last_local
      BY <2>3, TwoNodes, 0 \in Int DEF HmcsInv
    <2>5. HmcsType'
      BY <1>2, <2>1, <2>4 DEF HmcsInv, HmcsType, Moves, HmcsPcs, QueuedPcs
    <2>6. HmcsQueues'
      <3>1. PICK Q \in [NumaNodes -> Seq(Threads)], g \in Seq(NumaNodes) : HInv(Q, g)
        BY DEF HmcsInv, HmcsQueues
      <3>2. Queued(t) /\ ~Waits(t) /\ ~Up(t) /\ ~Up(t)' /\ Others(t)
        BY <1>2, <2>1 DEF Queued, Waits, Up, QueuedPcs, GlobalPcs, Others, Moves, HmcsInv, HmcsType
      <3>3. pc'[t] \in QueuedPcs \ {"link", "spin", "glink"} /\ pc'[t] \notin GlobalPcs
        BY <2>1 DEF QueuedPcs, GlobalPcs
      <3>4. \A v \in Nodes \ {t} : (v = Home(t) /\ ~Up(t)) \/ SameNode(v)
        BY <1>1, <2>4, <3>2
      <3>5. HInv(Q, g)'
        BY <1>2, <2>1, <2>4, <3>1, <3>2, <3>3, <3>4, FrontStep
      <3> QED
        BY <3>1, <3>5 DEF HmcsQueues
    <2>7. pc[t] \notin CountedPcs /\ pc'[t] \notin RdOnlyPcs /\ pc'[t] \notin CountedPcs
      BY <1>2, <2>1 DEF CountedPcs, RdOnlyPcs
    <2>9. HmcsRest'
      BY <1>2, <1>3, <2>1, <2>4, <2>7, RestKept DEF HmcsInv
    <2> QED
      BY <1>2, <1>4, <2>5, <2>6, <2>9 DEF HmcsInv
  <1> QED
    BY <1>5, <1>6

\* Who is next.
LEMMA NextIs ==
  ASSUME HmcsInv, NEW t \in Threads, Queued(t), ~Waits(t)
  PROVE  /\ nd[t].next # NULL => nd[t].next \in Threads \ {t}
         /\ Up(t) /\ nd[Home(t)].status = UNLOCKED /\ nd[Home(t)].next # NULL
              => nd[Home(t)].next \in NumaNodes \ {Home(t)}
         /\ Up(t) => nd[t].status \in Nat \ {0}
  <1>1. PICK Q \in [NumaNodes -> Seq(Threads)], g \in Seq(NumaNodes) : HInv(Q, g)
    BY DEF HmcsInv, HmcsQueues
  <1>2. PICK n \in NumaNodes, q \in Seq(Threads) : n = Home(t) /\ q = Q[n]
    BY <1>1, HomeIs DEF HmcsInv
  <1>3. NextOf[t] = nd[t].next /\ NextOf[n] = nd[n].next
    BY DEF NextOf, Nodes
  <1>4. ASSUME nd[t].next # NULL
        PROVE  nd[t].next \in Threads \ {t}
    <2>1. Len(q) \in Nat \ {0} /\ q[1] = t /\ ChainOf(q, NextOf, lk.tail[n], Linking)
      BY <1>1, <1>2, FrontIs DEF LocalAt
    <2>2. Len(q) > 1 /\ nd[t].next = q[2]
      BY <1>3, <1>4, <2>1, ChainAlone, NodesAre
    <2>3. q[2] \in Threads /\ q[2] # q[1]
      BY <2>1, <2>2 DEF ChainOf
    <2> QED
      BY <2>1, <2>2, <2>3
  <1>5. ASSUME Up(t), nd[n].status = UNLOCKED, nd[n].next # NULL
        PROVE  nd[n].next \in NumaNodes \ {n}
    <2>1. Len(g) \in Nat \ {0} /\ g[1] = n /\ ChainOf(g, NextOf, lk.tail[GLOBAL], TopLinking)
      BY <1>1, <1>2, <1>5, TurnIs DEF HInv, TopAt
    <2>2. Len(g) > 1 /\ nd[n].next = g[2]
      BY <1>3, <1>5, <2>1, ChainAlone, NodesAre
    <2>3. 1 \in 1..Len(g) /\ 2 \in 1..Len(g)
      BY <2>1, <2>2
    <2>4. g[2] \in NumaNodes /\ g[2] # g[1]
      BY <2>1, <2>3 DEF ChainOf
    <2> QED
      BY <2>1, <2>2, <2>4
  <1>6. Up(t) => nd[t].status \in Nat \ {0}
    BY <1>1 DEF HInv, Counts
  <1> QED
    BY <1>2, <1>4, <1>5, <1>6

\* The global lock goes to the next local lock, or to nobody.
LEMMA WriterLeavesTop ==
  ASSUME HmcsInv, algo' = algo, NEW t \in Threads,
         Hmcs!release_helper(t, Hmcs!GLOBAL, Hmcs!Local(t), Hmcs!UNLOCKED, Hmcs!Left(Hmcs!Local(t)),
                             "gcas", "gpass", "lcas")
  PROVE  HmcsInv' /\ Moves(t) /\ RwAllowed(t)
  <1>1. PICK n \in NumaNodes : n = Home(t) /\ n = Hmcs!Local(t)
    BY HomeIs DEF HmcsInv
  <1>2. PICK m \in Nodes \cup {NULL} : m = nd[n].next
    BY DEF HmcsInv, HmcsType, NodeRec, Nodes
  <1>3. PICK left \in NodeRec : left = Hmcs!Left(n)
    BY LockApiAssumption DEF Hmcs!Left, Hmcs!LOCKED, NodeRec
  <1>4. /\ Moves(t) /\ inWait' = inWait /\ loc' = loc
        /\ \/ pc[t] = "gcas" /\ lk.tail[GLOBAL] # n /\ pc'[t] = "gpass" /\ lk' = lk /\ nd' = nd
           \/ /\ pc[t] = "gcas" /\ lk.tail[GLOBAL] = n /\ pc'[t] = "lcas"
              /\ lk' = [lk EXCEPT !.tail[GLOBAL] = NULL] /\ nd' = [nd EXCEPT ![n] = left]
           \/ /\ pc[t] = "gpass" /\ m # NULL /\ pc'[t] = "lcas" /\ lk' = lk
              /\ nd' = [nd EXCEPT ![m].status = UNLOCKED, ![n] = left]
    <2>1. CASE /\ pc[t] = "gcas"
               /\ Hmcs!Step(t, "gcas", IF lk.tail[GLOBAL] = n THEN "lcas" ELSE "gpass")
               /\ lk' = [lk EXCEPT !.tail[GLOBAL] = IF lk.tail[GLOBAL] = n THEN NULL ELSE lk.tail[GLOBAL]]
               /\ nd' = [nd EXCEPT ![n] = IF lk.tail[GLOBAL] = n THEN left ELSE nd[n]]
               /\ loc' = loc
      <3>1. [lk EXCEPT !.tail[GLOBAL] = lk.tail[GLOBAL]] = lk /\ [nd EXCEPT ![n] = nd[n]] = nd
        BY DEF HmcsInv, HmcsType, LkRec
      <3> QED
        BY <2>1, <3>1 DEF Hmcs!Step, Moves, HmcsInv, HmcsType
    <2>2. CASE /\ pc[t] = "gpass" /\ m # NULL /\ Hmcs!Step(t, "gpass", "lcas")
               /\ nd' = [nd EXCEPT ![m].status = UNLOCKED, ![n] = left]
               /\ lk' = lk /\ loc' = loc
      BY <2>2 DEF Hmcs!Step, Moves, HmcsInv, HmcsType
    <2> QED
      BY <1>1, <1>2, <1>3, <2>1, <2>2
         DEF Hmcs!release_helper, Hmcs!GLOBAL, GLOBAL, Hmcs!UNLOCKED, UNLOCKED
  <1>5. loc[t] = NULL /\ lk.lock_status[t] # 2
    BY <1>4 DEF HmcsInv, HmcsRest, Scanning, StatusKnown
  <1>6. Queued(t) /\ ~Waits(t) /\ Up(t) /\ nd[n].status = UNLOCKED
    BY <1>1, <1>4, Turn DEF Queued, Waits, Up, QueuedPcs, GlobalPcs
  <1>7. m # NULL => m \in NumaNodes \ {n}
    BY <1>1, <1>2, <1>6, NextIs
  <1>8. CASE pc'[t] = "gpass"
    <2>1. loc' = [loc EXCEPT ![t] = NULL]
      BY <1>4, <1>5 DEF HmcsInv, HmcsType
    <2>2. lk' = lk /\ nd' = nd /\ pc[t] = "gcas" /\ lk' \in LkRec
      BY <1>4, <1>8 DEF HmcsInv, HmcsType
    <2>3. HmcsInv'
      BY <1>4, <1>5, <1>6, <1>8, <2>1, <2>2, FrontQuiet DEF QueuedPcs, GlobalPcs, Up
    <2>4. RwAllowed(t)
      BY <1>8, <2>2, ClassOf DEF RwAllowed, Writing
    <2> QED
      BY <1>4, <2>3, <2>4
  <1>9. CASE pc'[t] = "lcas"
    <2>1. pc[t] \in {"gcas", "gpass"}
      BY <1>4
    <2>2. /\ lk' \in LkRec /\ lk'.active_readers = lk.active_readers /\ lk'.lock_status = lk.lock_status
          /\ \A h \in NumaNodes : lk'.tail[h] = lk.tail[h]
      <3>1. CASE lk' = lk
        BY <3>1 DEF HmcsInv, HmcsType
      <3>2. CASE lk' = [lk EXCEPT !.tail[GLOBAL] = NULL]
        BY <3>2, NodesAre DEF HmcsInv, HmcsType, LkRec, GLOBAL
      <3> QED
        BY <1>4, <1>9, <3>1, <3>2
    <2>3. /\ nd' \in [Nodes -> NodeRec]
          /\ \/ lk.tail[GLOBAL] = n /\ lk'.tail[GLOBAL] = NULL /\ \A v \in Nodes \ {n} : SameNode(v)
             \/ /\ m # NULL /\ lk'.tail[GLOBAL] = lk.tail[GLOBAL]
                /\ nd'[m].status = UNLOCKED /\ (m # n => nd'[m].next = nd[m].next)
                /\ \A v \in Nodes \ {n, m} : SameNode(v)
      <3>1. CASE /\ lk.tail[GLOBAL] = n /\ lk' = [lk EXCEPT !.tail[GLOBAL] = NULL]
                 /\ nd' = [nd EXCEPT ![n] = left]
        <4>1. lk'.tail[GLOBAL] = NULL
          BY <3>1 DEF HmcsInv, HmcsType, LkRec
        <4>2. nd' \in [Nodes -> NodeRec] /\ \A v \in Nodes \ {n} : nd'[v] = nd[v]
          BY <3>1 DEF HmcsInv, HmcsType, Nodes
        <4> QED
          BY <3>1, <4>1, <4>2 DEF SameNode
      <3>2. CASE /\ m # NULL /\ lk' = lk /\ nd' = [nd EXCEPT ![m].status = UNLOCKED, ![n] = left]
        <4>1. m \in Nodes /\ n \in Nodes /\ m # n
          BY <1>7, <3>2 DEF Nodes
        <4> DEFINE F == [nd EXCEPT ![m].status = UNLOCKED]
        <4>2. /\ F \in [Nodes -> NodeRec] /\ F[m].status = UNLOCKED /\ F[m].next = nd[m].next
              /\ \A v \in Nodes \ {m} : F[v] = nd[v]
          BY <4>1 DEF HmcsInv, HmcsType, NodeRec, UNLOCKED
        <4>3. nd' = [F EXCEPT ![n] = left]
          BY <3>2
        <4> HIDE DEF F
        <4>4. nd' \in [Nodes -> NodeRec] /\ nd'[m] = F[m] /\ \A v \in Nodes \ {n} : nd'[v] = F[v]
          BY <4>1, <4>2, <4>3
        <4>5. \A v \in Nodes \ {n, m} : nd'[v] = nd[v]
          BY <4>2, <4>4
        <4> QED
          BY <3>2, <4>2, <4>4, <4>5 DEF SameNode
      <3> QED
        BY <1>4, <1>9, <3>1, <3>2
    <2>4. HmcsType'
      BY <1>4, <1>9, <2>2, <2>3 DEF HmcsInv, HmcsType, Moves, HmcsPcs, QueuedPcs
    <2>5. HmcsQueues'
      <3>1. PICK Q \in [NumaNodes -> Seq(Threads)], g \in Seq(NumaNodes) : HInv(Q, g)
        BY DEF HmcsInv, HmcsQueues
      <3>2. Others(t) /\ pc[t] \in GlobalPcs \ {"glink", "gspin"}
        BY <1>4, <2>1 DEF Others, Moves, HmcsInv, HmcsType, GlobalPcs
      <3>3. HInv(Q, Tail(g))'
        BY <1>1, <1>2, <1>9, <2>2, <2>3, <3>1, <3>2, TopReleaseStep
      <3>4. Tail(g) \in Seq(NumaNodes)
        BY <3>1, <3>3 DEF HInv
      <3> QED
        BY <3>1, <3>3, <3>4 DEF HmcsQueues
    <2>6. pc[t] \notin CountedPcs /\ pc'[t] \notin RdOnlyPcs /\ pc'[t] \notin CountedPcs
      BY <1>9, <2>1 DEF CountedPcs, RdOnlyPcs
    <2>7. \A u \in Threads : nd'[u].last_local = nd[u].last_local
      <3>1. \A u \in Threads : u \in Nodes /\ u # n /\ (m # NULL => u # m)
        BY <1>7, NodesAre DEF Nodes
      <3> QED
        BY <2>3, <3>1 DEF SameNode
    <2>8. HmcsRest'
      BY <1>4, <1>5, <1>9, <2>2, <2>6, <2>7, RestKept DEF HmcsInv
    <2>9. RwAllowed(t)
      BY <1>9, <2>1, ClassOf DEF RwAllowed, Writing
    <2> QED
      BY <1>4, <2>4, <2>5, <2>8, <2>9 DEF HmcsInv
  <1> QED
    BY <1>4, <1>8, <1>9

\* The next thread is told what it gets, and what remains of t's node is left.
Passed(t, m, s, left) == [nd EXCEPT ![m].status = s, ![t] = left]
Dropped(t, left) == [nd EXCEPT ![t] = left]

LEMMA LeftIs == \A v : Hmcs!Left(v) \in NodeRec
  BY LockApiAssumption DEF Hmcs!Left, Hmcs!LOCKED, NodeRec

\* The local lock goes to the next thread, or to nobody.
LEMMA LocalLeaves ==
  ASSUME HmcsInv, algo' = algo, NEW t \in Threads, NEW n \in NumaNodes, n = Home(t),
         NEW m, m = nd[t].next, NEW left \in NodeRec, NEW s \in Int,
         pc[t] \in {"lcas", "lpass", "trycas", "trydrop", "unlock"}, pc'[t] = "idle",
         Moves(t), inWait' = inWait, loc' = loc,
         Up(t) => s \in Nat \ {0}, ~Up(t) => s = ACQUIRE_PARENT,
         \/ /\ ~Up(t) /\ lk.tail[n] = t /\ lk' = [lk EXCEPT !.tail[n] = NULL]
            /\ nd' = Dropped(t, left)
         \/ m # NULL /\ lk' = lk /\ nd' = Passed(t, m, s, left)
  PROVE  HmcsInv'
  <1>1. loc[t] = NULL /\ lk.lock_status[t] # 2
    BY DEF HmcsInv, HmcsRest, Scanning, StatusKnown
  <1>2. Queued(t) /\ ~Waits(t) /\ pc[t] \notin {"link", "glink", "gspin"}
    BY DEF Queued, Waits, QueuedPcs, GlobalPcs
  <1>3. m # NULL => m \in Threads \ {t}
    BY <1>2, NextIs
  <1>4. t \in Nodes /\ (m # NULL => m \in Nodes /\ m # t)
    BY <1>3 DEF Nodes
  <1>5. /\ lk' \in LkRec /\ lk'.active_readers = lk.active_readers /\ lk'.lock_status = lk.lock_status
        /\ \A h \in (NumaNodes \cup {GLOBAL}) \ {n} : lk'.tail[h] = lk.tail[h]
    <2>1. CASE lk' = lk
      BY <2>1 DEF HmcsInv, HmcsType
    <2>2. CASE lk' = [lk EXCEPT !.tail[n] = NULL]
      BY <2>2 DEF HmcsInv, HmcsType, LkRec
    <2> QED
      BY <2>1, <2>2
  <1>6. /\ nd' \in [Nodes -> NodeRec] /\ nd'[t] = left
        /\ \/ ~Up(t) /\ lk.tail[n] = t /\ lk'.tail[n] = NULL /\ \A v \in Nodes \ {t} : nd'[v] = nd[v]
           \/ /\ m # NULL /\ lk'.tail[n] = lk.tail[n]
              /\ nd'[m].status = s /\ nd'[m].next = nd[m].next /\ nd'[m].last_local = nd[m].last_local
              /\ \A v \in Nodes \ {t, m} : nd'[v] = nd[v]
    <2>1. CASE /\ ~Up(t) /\ lk.tail[n] = t /\ lk' = [lk EXCEPT !.tail[n] = NULL]
               /\ nd' = Dropped(t, left)
      <3>1. lk'.tail[n] = NULL
        BY <2>1 DEF HmcsInv, HmcsType, LkRec
      <3>2. nd' \in [Nodes -> NodeRec] /\ nd'[t] = left /\ \A v \in Nodes \ {t} : nd'[v] = nd[v]
        BY <1>4, <2>1 DEF HmcsInv, HmcsType, Dropped
      <3> QED
        BY <2>1, <3>1, <3>2
    <2>2. CASE m # NULL /\ lk' = lk /\ nd' = Passed(t, m, s, left)
      <3>1. m \in Nodes /\ m # t
        BY <1>4, <2>2
      <3> DEFINE F == [nd EXCEPT ![m].status = s]
      <3>2. /\ F \in [Nodes -> NodeRec] /\ F[m].status = s /\ F[m].next = nd[m].next
            /\ F[m].last_local = nd[m].last_local
            /\ \A v \in Nodes \ {m} : F[v] = nd[v]
        BY <3>1 DEF HmcsInv, HmcsType, NodeRec
      <3>3. nd' = [F EXCEPT ![t] = left]
        BY <2>2 DEF Passed
      <3> HIDE DEF F
      <3>4. /\ nd' \in [Nodes -> NodeRec] /\ nd'[t] = left /\ nd'[m] = F[m]
            /\ \A v \in Nodes \ {t} : nd'[v] = F[v]
        BY <1>4, <3>1, <3>2, <3>3
      <3>5. \A v \in Nodes \ {t, m} : nd'[v] = nd[v]
        BY <3>2, <3>4
      <3> QED
        BY <2>2, <3>2, <3>4, <3>5
    <2> QED
      BY <2>1, <2>2
  <1>7. HmcsType'
    BY <1>5, <1>6 DEF HmcsInv, HmcsType, Moves, HmcsPcs
  <1>8. HmcsQueues'
    <2>1. PICK Q \in [NumaNodes -> Seq(Threads)], g \in Seq(NumaNodes) : HInv(Q, g)
      BY DEF HmcsInv, HmcsQueues
    <2>2. Others(t) /\ pc'[t] \notin QueuedPcs /\ nd'[t].last_local \in NumaNodes
      BY <1>6 DEF Others, Moves, HmcsInv, HmcsType, QueuedPcs, GlobalPcs, NodeRec
    <2>3. \/ ~Up(t) /\ lk.tail[n] = t /\ lk'.tail[n] = NULL /\ \A v \in Nodes \ {t} : SameNode(v)
          \/ /\ m # NULL /\ lk'.tail[n] = lk.tail[n]
             /\ (Up(t) => nd'[m].status \in Nat \ {0}) /\ (~Up(t) => nd'[m].status = ACQUIRE_PARENT)
             /\ (m # t => nd'[m].next = nd[m].next /\ nd'[m].last_local = nd[m].last_local)
             /\ \A v \in Nodes \ {t, m} : SameNode(v)
      BY <1>6 DEF SameNode
    <2>4. HInv([Q EXCEPT ![n] = Tail(@)], g)'
      BY <1>2, <1>5, <2>1, <2>2, <2>3, LocalReleaseStep
    <2>5. [Q EXCEPT ![n] = Tail(@)] \in [NumaNodes -> Seq(Threads)]
      BY <2>4 DEF HInv
    <2> QED
      BY <2>1, <2>4, <2>5 DEF HmcsQueues
  <1>9. "idle" \notin CountedPcs /\ "idle" \notin RdOnlyPcs /\ pc[t] \notin CountedPcs
    BY DEF CountedPcs, RdOnlyPcs
  <1>10. \A u \in Threads : u # t => nd'[u].last_local = nd[u].last_local
    BY <1>6 DEF Nodes
  <1>11. \A u \in Threads : loc'[u] = loc[u]
    OBVIOUS
  <1>12. HmcsRest'
    BY <1>1, <1>5, <1>9, <1>10, <1>11, RestKept DEF HmcsInv
  <1> QED
    BY <1>7, <1>8, <1>12 DEF HmcsInv

\* A compare-and-swap that fails.
LEMMA LocalStays ==
  ASSUME HmcsInv, algo' = algo, NEW t \in Threads,
         \/ pc[t] = "trycas" /\ pc'[t] = "trydrop"
         \/ pc[t] = "lcas" /\ pc'[t] = "lpass",
         Moves(t), inWait' = inWait, loc' = loc, lk' = lk, nd' = nd
  PROVE  HmcsInv'
  <1>1. loc[t] = NULL /\ lk.lock_status[t] # 2
    BY DEF HmcsInv, HmcsRest, Scanning, StatusKnown
  <1>2. Queued(t) /\ ~Waits(t) /\ ~Up(t) /\ ~Up(t)'
    BY DEF Queued, Waits, Up, QueuedPcs, GlobalPcs
  <1>3. loc' = [loc EXCEPT ![t] = NULL] /\ lk' \in LkRec
    BY <1>1 DEF HmcsInv, HmcsType
  <1>4. pc'[t] \in QueuedPcs \ {"link", "spin", "glink", "cs"} /\ pc'[t] \notin GlobalPcs /\ pc[t] # "glink"
    BY DEF QueuedPcs, GlobalPcs
  <1> QED
    BY <1>1, <1>2, <1>3, <1>4, FrontQuiet

LEMMA WriterLeaves ==
  ASSUME HmcsInv, algo' = algo, NEW t \in Threads,
         \/ Hmcs!GiveUpLocal(t)
         \/ Hmcs!release_helper(t, Hmcs!Local(t), t, Hmcs!ACQUIRE_PARENT, Hmcs!Left(t),
                                "lcas", "lpass", "idle")
  PROVE  HmcsInv' /\ Moves(t) /\ RwAllowed(t)
  <1>1. PICK n \in NumaNodes : n = Home(t) /\ n = Hmcs!Local(t)
    BY HomeIs DEF HmcsInv
  <1>2. PICK m : m = nd[t].next
    OBVIOUS
  <1>3. PICK left \in NodeRec : left = Hmcs!Left(t)
    BY LeftIs
  <1>4. PICK from \in {"trycas", "lcas"}, pass \in {"trydrop", "lpass"} :
          /\ Hmcs!release_helper(t, n, t, -2, left, from, pass, "idle")
          /\ from = "trycas" <=> pass = "trydrop"
    BY <1>1, <1>3 DEF Hmcs!GiveUpLocal, Hmcs!ACQUIRE_PARENT
  <1>5. /\ Moves(t) /\ inWait' = inWait /\ loc' = loc
        /\ \/ pc[t] = from /\ lk.tail[n] # t /\ pc'[t] = pass /\ lk' = lk /\ nd' = nd
           \/ /\ pc[t] = from /\ lk.tail[n] = t /\ pc'[t] = "idle"
              /\ lk' = [lk EXCEPT !.tail[n] = NULL] /\ nd' = [nd EXCEPT ![t] = left]
           \/ /\ pc[t] = pass /\ m # NULL /\ pc'[t] = "idle" /\ lk' = lk
              /\ nd' = [nd EXCEPT ![m].status = -2, ![t] = left]
    <2>1. CASE /\ pc[t] = from
               /\ Hmcs!Step(t, from, IF lk.tail[n] = t THEN "idle" ELSE pass)
               /\ lk' = [lk EXCEPT !.tail[n] = IF lk.tail[n] = t THEN NULL ELSE lk.tail[n]]
               /\ nd' = [nd EXCEPT ![t] = IF lk.tail[n] = t THEN left ELSE nd[t]]
               /\ loc' = loc
      <3>1. [lk EXCEPT !.tail[n] = lk.tail[n]] = lk /\ [nd EXCEPT ![t] = nd[t]] = nd
        BY DEF HmcsInv, HmcsType, LkRec
      <3> QED
        BY <2>1, <3>1 DEF Hmcs!Step, Moves, HmcsInv, HmcsType
    <2>2. CASE /\ pc[t] = pass /\ m # NULL /\ Hmcs!Step(t, pass, "idle")
               /\ nd' = [nd EXCEPT ![m].status = -2, ![t] = left]
               /\ lk' = lk /\ loc' = loc
      BY <2>2 DEF Hmcs!Step, Moves, HmcsInv, HmcsType
    <2> QED
      BY <1>2, <1>4, <2>1, <2>2 DEF Hmcs!release_helper
  <1>6. pc[t] \in {"lcas", "lpass", "trycas", "trydrop"}
    BY <1>5
  <1>7. ~Up(t) /\ ACQUIRE_PARENT = -2
    BY <1>6 DEF Up, GlobalPcs, ACQUIRE_PARENT
  <1>8. CASE pc'[t] = "idle"
    <2>1. \/ /\ ~Up(t) /\ lk.tail[n] = t /\ lk' = [lk EXCEPT !.tail[n] = NULL]
             /\ nd' = Dropped(t, left)
          \/ m # NULL /\ lk' = lk /\ nd' = Passed(t, m, ACQUIRE_PARENT, left)
      BY <1>5, <1>7, <1>8 DEF Dropped, Passed
    <2>2. HmcsInv'
      <3>1. PICK s \in Int : s = ACQUIRE_PARENT
        BY <1>7
      <3>2. \/ /\ ~Up(t) /\ lk.tail[n] = t /\ lk' = [lk EXCEPT !.tail[n] = NULL]
               /\ nd' = Dropped(t, left)
            \/ m # NULL /\ lk' = lk /\ nd' = Passed(t, m, s, left)
        BY <2>1, <3>1
      <3>3. Moves(t) /\ inWait' = inWait /\ loc' = loc
        BY <1>5
      <3>4. pc[t] \in {"lcas", "lpass", "trycas", "trydrop", "unlock"}
        BY <1>6
      <3> QED
        BY <1>1, <1>2, <1>7, <1>8, <3>1, <3>2, <3>3, <3>4, LocalLeaves
    <2>3. RwAllowed(t)
      BY <1>6, <1>8, ClassOf DEF RwAllowed, Trying
    <2> QED
      BY <1>5, <2>2, <2>3
  <1>9. CASE pc'[t] # "idle"
    <2>1. /\ \/ pc[t] = "trycas" /\ pc'[t] = "trydrop"
             \/ pc[t] = "lcas" /\ pc'[t] = "lpass"
          /\ lk' = lk /\ nd' = nd
      BY <1>4, <1>5, <1>9
    <2>2. HmcsInv'
      BY <1>5, <2>1, LocalStays
    <2>3. RwAllowed(t)
      BY <2>1, ClassOf DEF RwAllowed, Trying
    <2> QED
      BY <1>5, <2>2, <2>3
  <1> QED
    BY <1>8, <1>9

\* Both locks go to the next thread of the NUMA node.
LEMMA WriterPasses ==
  ASSUME HmcsInv, algo' = algo, NEW t \in Threads, Hmcs!PassLocal(t)
  PROVE  HmcsInv' /\ Moves(t) /\ RwAllowed(t)
  <1>1. PICK n \in NumaNodes : n = Home(t)
    BY HomeIs DEF HmcsInv
  <1>2. PICK m : m = nd[t].next
    OBVIOUS
  <1>3. PICK left \in NodeRec : left = Hmcs!Left(t)
    BY LeftIs
  <1>4. pc[t] = "unlock"
    BY DEF Hmcs!PassLocal, Hmcs!Step
  <1>5. Queued(t) /\ ~Waits(t) /\ Up(t)
    BY <1>4 DEF Queued, Waits, Up, QueuedPcs, GlobalPcs
  <1>6. PICK s \in Nat \ {0} : s = Hmcs!CountPass(nd[t].status)
    <2>1. PICK c \in Nat \ {0} : c = nd[t].status
      BY <1>5, NextIs
    <2> QED
      BY <2>1 DEF Hmcs!CountPass
  <1>7. /\ pc'[t] = "idle" /\ Moves(t) /\ inWait' = inWait /\ loc' = loc /\ lk' = lk /\ m # NULL
        /\ nd' = Passed(t, m, s, left)
    BY <1>2, <1>3, <1>6 DEF Passed, Hmcs!PassLocal, Hmcs!Step, Hmcs!After, Moves, HmcsInv, HmcsType
  <1>8. HmcsInv'
    BY <1>1, <1>2, <1>4, <1>5, <1>7, LocalLeaves
  <1>9. RwAllowed(t)
    BY <1>4, <1>7, ClassOf DEF RwAllowed, Writing
  <1> QED
    BY <1>7, <1>8, <1>9

\* The call of unlock, by a reader or a writer as the context says.
UnlockCall(t) ==
  /\ pc[t] \in {"rd", "wr"}
  /\ lk' = IF lk.lock_status[t] = Hmcs!READ_STATE
           THEN [lk EXCEPT !.active_readers[Hmcs!Local(t)] = @ - 1, !.lock_status[t] = Hmcs!NO_STATE]
           ELSE [lk EXCEPT !.lock_status[t] = Hmcs!NO_STATE]
  /\ Hmcs!Step(t, pc[t], IF lk.lock_status[t] = Hmcs!READ_STATE THEN "idle" ELSE "unlock")
  /\ nd' = nd /\ loc' = loc

LEMMA UnlockStep ==
  ASSUME HmcsInv, algo' = algo, NEW t \in Threads, UnlockCall(t)
  PROVE  HmcsInv' /\ Moves(t) /\ RwAllowed(t)
  <1>1. PICK n \in NumaNodes : n = Home(t) /\ n = Hmcs!Local(t)
    BY HomeIs DEF HmcsInv
  <1>2. lk.lock_status[t] = 2 <=> pc[t] = "rd"
    BY DEF HmcsInv, HmcsRest, StatusKnown
  <1>3. /\ Moves(t) /\ inWait' = inWait /\ nd' = nd /\ loc' = loc /\ pc[t] \in {"rd", "wr"}
        /\ pc'[t] = IF pc[t] = "rd" THEN "idle" ELSE "unlock"
        /\ pc[t] = "rd" => lk' = [lk EXCEPT !.active_readers[n] = @ - 1, !.lock_status[t] = -1]
        /\ pc[t] = "wr" => lk' = [lk EXCEPT !.lock_status[t] = -1]
    BY <1>1, <1>2 DEF UnlockCall, Hmcs!Step, Hmcs!READ_STATE, Hmcs!NO_STATE, Moves, HmcsInv, HmcsType
  <1>4. \A v \in Nodes : SameNode(v)
    BY <1>3 DEF SameNode
  <1>5. CASE pc[t] = "rd"
    <2>1. algo # "hmcsrw_mutex"
      BY <1>5 DEF HmcsInv, HmcsRest, MutexOnly, RdOnlyPcs, CountedPcs
    <2>2. PICK k : k = [lk EXCEPT !.active_readers[n] = @ - 1]
      OBVIOUS
    <2>3. /\ k \in LkRec /\ k.tail = lk.tail /\ k.lock_status = lk.lock_status
          /\ k.active_readers = [lk.active_readers EXCEPT ![n] = @ - 1]
      BY <2>2 DEF HmcsInv, HmcsType, LkRec
    <2>4. lk' = [k EXCEPT !.lock_status[t] = -1]
      BY <1>3, <1>5, <2>2
    <2>5. /\ lk' \in LkRec /\ lk'.tail = lk.tail
          /\ lk'.active_readers = [lk.active_readers EXCEPT ![n] = @ - 1]
          /\ \A u \in Threads : u # t => lk'.lock_status[u] = lk.lock_status[u]
          /\ lk'.lock_status[t] = -1
      BY <2>3, <2>4 DEF LkRec
    <2>6. HmcsType'
      BY <1>3, <1>5, <2>5 DEF HmcsInv, HmcsType, Moves, HmcsPcs
    <2>7. /\ pc[t] \in CountedPcs /\ pc[t] \in RdOnlyPcs \cup {"idle"} /\ pc[t] # "tryscan"
          /\ pc'[t] = "idle" /\ pc'[t] \notin CountedPcs /\ pc'[t] # "rd"
      BY <1>3, <1>5 DEF RdOnlyPcs, CountedPcs
    <2>8. lk'.active_readers = [lk.active_readers EXCEPT ![Home(t)] = @ - 1]
      BY <1>1, <2>5
    <2>9. HmcsInv'
      <3>1. /\ Moves(t) /\ loc' = loc /\ pc[t] \notin {"tryscan"} /\ pc'[t] \notin {"tryscan"}
            /\ pc'[t] \in RdOnlyPcs \cup {"idle"} /\ (lk'.lock_status[t] = 2 <=> pc'[t] = "rd")
        BY <1>3, <2>5, <2>7
      <3> QED
        BY <1>4, <2>1, <2>5, <2>6, <2>7, <2>8, <3>1, ReaderStep
    <2>10. RwAllowed(t)
      BY <1>3, <1>5, ClassOf DEF RwAllowed, Reading
    <2> QED
      BY <1>3, <2>9, <2>10
  <1>6. CASE pc[t] = "wr"
    <2>1. /\ lk' \in LkRec /\ lk'.tail = lk.tail /\ lk'.active_readers = lk.active_readers
          /\ \A u \in Threads : u # t => lk'.lock_status[u] = lk.lock_status[u]
          /\ lk'.lock_status[t] # 2
      BY <1>3, <1>6 DEF HmcsInv, HmcsType, LkRec
    <2>2. Queued(t) /\ ~Waits(t) /\ Up(t) /\ Up(t)'
      BY <1>3, <1>6 DEF Queued, Waits, Up, QueuedPcs, GlobalPcs
    <2>3. loc[t] = NULL
      BY <1>6 DEF HmcsInv, HmcsRest, Scanning
    <2>4. loc' = [loc EXCEPT ![t] = NULL]
      BY <1>3, <2>3 DEF HmcsInv, HmcsType
    <2>5. HmcsInv'
      BY <1>3, <1>6, <2>1, <2>2, <2>4, FrontQuiet DEF QueuedPcs, GlobalPcs
    <2>6. RwAllowed(t)
      BY <1>3, <1>6, ClassOf DEF RwAllowed, Writing
    <2> QED
      BY <1>3, <2>5, <2>6
  <1> QED
    BY <1>3, <1>5, <1>6

LEMMA ReleaseStep ==
  ASSUME HmcsInv, algo' = algo, NEW t \in Threads, Hmcs!hmcsrw_rwlock_unlock(t)
  PROVE  HmcsInv' /\ Moves(t) /\ RwAllowed(t)
  <1>1. \/ Hmcs!PassLocal(t)
        \/ Hmcs!Read(t, "unlock", "gcas")
        \/ Hmcs!release_helper(t, Hmcs!GLOBAL, Hmcs!Local(t), Hmcs!UNLOCKED, Hmcs!Left(Hmcs!Local(t)),
                               "gcas", "gpass", "lcas")
        \/ Hmcs!release_helper(t, Hmcs!Local(t), t, Hmcs!ACQUIRE_PARENT, Hmcs!Left(t),
                               "lcas", "lpass", "idle")
        \/ UnlockCall(t)
    BY Zenon DEF Hmcs!hmcsrw_rwlock_unlock, Hmcs!LocalUnlock, UnlockCall
  <1> QED
    BY <1>1, WriterPasses, WriterReads, WriterLeavesTop, WriterLeaves, UnlockStep

\* Every step of hmcsrw.c, as a reader-writer lock ...
LEMMA HmcsStep ==
  ASSUME HmcsInv, algo' = algo, algo = "hmcsrw", NEW t \in Threads, Hmcs!hmcsrw(t)
  PROVE  HmcsInv' /\ Moves(t) /\ RwAllowed(t)
  <1>1. CASE Hmcs!CallLock(t)
    BY <1>1, CallLockStep
  <1>2. CASE Hmcs!Read(t, "idle", "rdlock")
    BY <1>2, ReaderReads
  <1>3. CASE Hmcs!hmcsrw_rwlock_rdlock(t)
    <2>1. \/ \E n \in Hmcs!current_numa_node(t) : Hmcs!OnNode(t, n)
          \/ Hmcs!NoWriter(t)
          \/ Hmcs!Add(t, 1, "rdadd", "rdcheck")
          \/ Hmcs!RecheckWriter(t, "rdcheck", "rdsub")
          \/ Hmcs!Add(t, -1, "rdsub", "rdwait")
      BY <1>3, Zenon DEF Hmcs!hmcsrw_rwlock_rdlock
    <2> QED
      BY <2>1, ReaderReads, ReaderAdds, ReaderRechecks
  <1>4. CASE Hmcs!hmcsrw_rwlock_wrlock(t)
    <2>1. \/ \E n \in Hmcs!current_numa_node(t) : Hmcs!LocalEnqueue(t, n)
          \/ Hmcs!LinkTo(t, t, "link", "spin")
          \/ Hmcs!LocalGranted(t)
          \/ Hmcs!StartCohort(t, Hmcs!Local(t))
          \/ Hmcs!LinkTo(t, Hmcs!Local(t), "glink", "gspin")
          \/ Hmcs!GlobalGranted(t)
          \/ Hmcs!ScanReaders(t, "posix", "posix", "wr")
      BY <1>4, Zenon DEF Hmcs!hmcsrw_rwlock_wrlock
    <2> QED
      BY <2>1, WriterQueues, WriterLinks, WriterReads, WriterStarts, WriterScans
  <1>5. CASE Hmcs!hmcsrw_rwlock_tryrdlock(t)
    <2>1. \/ \E n \in Hmcs!current_numa_node(t) :
               /\ Hmcs!Step(t, "idle", "trycheck")
               /\ nd' = [nd EXCEPT ![t].last_local = n]
               /\ lk' = [lk EXCEPT !.active_readers[n] = @ + 1]
               /\ loc' = loc
          \/ Hmcs!RecheckWriter(t, "trycheck", "trysub")
          \/ Hmcs!Add(t, -1, "trysub", "idle")
      BY <1>5, Zenon DEF Hmcs!hmcsrw_rwlock_tryrdlock
    <2>2. Hmcs!current_numa_node(t) \subseteq NumaNodes
      BY NodesAre DEF Hmcs!current_numa_node
    <2> QED
      BY <2>1, <2>2, ReaderTries, ReaderAdds, ReaderRechecks
  <1>6. CASE Hmcs!hmcsrw_rwlock_trywrlock(t)
    <2>1. \/ Hmcs!ScanReaders(t, "idle", "tryscan", "trylock")
          \/ Hmcs!ScanReaders(t, "tryscan", "tryscan", "trylock")
          \/ /\ Hmcs!Step(t, "tryscan", "idle") /\ loc' = [loc EXCEPT ![t] = NULL]
             /\ lk' = lk /\ nd' = nd
          \/ \E n \in Hmcs!current_numa_node(t) : Hmcs!TryLocal(t, n, "trylock")
          \/ Hmcs!TryGlobal(t)
          \/ Hmcs!GiveUpLocal(t)
          \/ Hmcs!ScanReaders(t, "tryposix", "tryposix", "wr")
      BY <1>6, Zenon DEF Hmcs!hmcsrw_rwlock_trywrlock
    <2> QED
      BY <2>1, TryScans, WriterTries, WriterTriesTop, WriterLeaves, WriterScans
  <1>7. CASE Hmcs!hmcsrw_rwlock_unlock(t)
    BY <1>7, ReleaseStep
  <1> QED
    BY <1>1, <1>2, <1>3, <1>4, <1>5, <1>6, <1>7, Zenon DEF Hmcs!hmcsrw

\* ... and as the mutex of the same library.
LEMMA HmcsMutexStep ==
  ASSUME HmcsInv, algo' = algo, algo = "hmcsrw_mutex", NEW t \in Threads, Hmcs!hmcsrw_mutex(t)
  PROVE  HmcsInv' /\ Moves(t) /\ RwAllowed(t)
  <1>1. \/ Hmcs!CallLock(t)
        \/ \E n \in Hmcs!current_numa_node(t) : Hmcs!LocalEnqueue(t, n)
        \/ Hmcs!LinkTo(t, t, "link", "spin")
        \/ Hmcs!LocalGranted(t)
        \/ Hmcs!StartCohort(t, Hmcs!Local(t))
        \/ Hmcs!LinkTo(t, Hmcs!Local(t), "glink", "gspin")
        \/ Hmcs!GlobalGranted(t)
        \/ Hmcs!Read(t, "posix", "wr")
        \/ \E n \in Hmcs!current_numa_node(t) : Hmcs!TryLocal(t, n, "idle")
        \/ Hmcs!TryGlobal(t)
        \/ Hmcs!GiveUpLocal(t)
        \/ Hmcs!Read(t, "tryposix", "wr")
        \/ Hmcs!hmcsrw_rwlock_unlock(t)
    BY Zenon DEF Hmcs!hmcsrw_mutex, Hmcs!hmcsrw_rwlock_lock, Hmcs!hmcsrw_rwlock_trylock
  <1> QED
    BY <1>1, CallLockStep, WriterQueues, WriterLinks, WriterReads, WriterStarts, MutexGets,
       WriterTries, WriterTriesTop, WriterLeaves, ReleaseStep

-----------------------------------------------------------------------------
(* The theorems.                                                             *)

IInv ==
  /\ algo \in Algos
  /\ algo \in HmcsAlgos => HmcsInv
  /\ algo = "ttasrw" => TtasInv
  /\ algo = "rwsem" => SemInv

LEMMA Initially == Init => IInv /\ RW!Init
  <1> SUFFICES ASSUME Init
               PROVE  IInv /\ RW!Init
    OBVIOUS
  <1>1. /\ algo \in Algos /\ algo \in {"hmcsrw", "hmcsrw_mutex", "ttasrw", "rwsem"}
        /\ algo = "hmcsrw" => Hmcs!hmcsrw_rwlock_create
        /\ algo = "hmcsrw_mutex" => Hmcs!hmcsrw_mutex_create
        /\ algo = "ttasrw" => Ttas!Init
        /\ algo = "rwsem" => Sem!Init
    BY RwLocksAssumption DEF Init
  <1>2. IInv
    BY <1>1, HmcsInitial, TtasInitial, SemInitial DEF IInv, HmcsAlgos
  <1>3. pc = [t \in Threads |-> "idle"]
    BY <1>1 DEF Hmcs!hmcsrw_rwlock_create, Hmcs!hmcsrw_mutex_create, Hmcs!InitContexts, Hmcs!ApiInit,
                Ttas!Init, Ttas!ApiInit, Sem!Init, Sem!ApiInit
  <1>4. RW!Init
    <2>1. \A t \in Threads : Class(pc[t]) = "idle"
      BY <1>3, ClassOf
    <2> QED
      BY <2>1, RwPcIs DEF RW!Init
  <1> QED
    BY <1>2, <1>4

LEMMA ThreadSteps ==
  ASSUME IInv, NEW t \in Threads, ThreadStep(t)
  PROVE  IInv' /\ [RW!Next]_RwPc
  <1>1. algo' = algo /\ algo \in Algos
    BY DEF ThreadStep, IInv
  <1>2. \/ algo = "hmcsrw" /\ Hmcs!hmcsrw(t)
        \/ algo = "hmcsrw_mutex" /\ Hmcs!hmcsrw_mutex(t)
        \/ algo = "ttasrw" /\ Ttas!ttasrw(t)
        \/ algo = "rwsem" /\ Sem!rwsem(t)
    BY DEF ThreadStep
  <1>3. /\ algo \in HmcsAlgos => HmcsInv' /\ Moves(t) /\ RwAllowed(t)
        /\ algo = "ttasrw" => TtasInv' /\ Moves(t) /\ RwAllowed(t)
        /\ algo = "rwsem" => SemInv' /\ Moves(t) /\ RwAllowed(t)
    BY <1>1, <1>2, HmcsStep, HmcsMutexStep, TtasStep, SemStep DEF IInv, HmcsAlgos
  <1>4. algo \in HmcsAlgos \/ algo = "ttasrw" \/ algo = "rwsem"
    BY <1>2 DEF HmcsAlgos
  <1>5. \E S : pc \in [Threads -> S]
    BY <1>4 DEF IInv, HmcsInv, HmcsType, TtasInv, TtasType, SemInv, SemType
  <1>6. IInv'
    BY <1>1, <1>3 DEF IInv
  <1>7. [RW!Next]_RwPc
    BY <1>3, <1>4, <1>5, RwAllowedStep
  <1> QED
    BY <1>6, <1>7

LEMMA Stutters ==
  ASSUME IInv, UNCHANGED vars
  PROVE  IInv' /\ RwPc' = RwPc
  <1>1. /\ algo' = algo /\ lk' = lk /\ nd' = nd /\ loc' = loc /\ pc' = pc /\ inWait' = inWait
    BY DEF vars, apiVars
  <1>2. HmcsInv' <=> HmcsInv
    <2>1. \A Q \in [NumaNodes -> Seq(Threads)], g \in Seq(NumaNodes) : HInv(Q, g)' <=> HInv(Q, g)
      BY <1>1 DEF HInv, Homes, Counts, LocalAt, TopAt, ChainOf, In, NextOf, Linking, TopLinking, Home,
                  Queued, Waits, Up
    <2>2. HmcsQueues' <=> HmcsQueues
      BY <2>1 DEF HmcsQueues
    <2> QED
      BY <1>1, <2>2 DEF HmcsInv, HmcsType, HmcsRest, ReadersCounted, CountedOn, Home, Scanning,
                        StatusKnown, MutexOnly
  <1>3. TtasInv' <=> TtasInv
    BY <1>1 DEF TtasInv, TtasType, TtasRead, TtasData, TtasReal, TtasReaders, TtasWriters
  <1>4. SemInv' <=> SemInv
    BY <1>1 DEF SemInv, SemType, SemReaders, SemAlone
  <1>5. RwPc' = RwPc
    BY <1>1 DEF RwPc
  <1> QED
    BY <1>1, <1>2, <1>3, <1>4, <1>5 DEF IInv

LEMMA FreeWhenUnused == IInv => RwFreeWhenUnused
  <1> SUFFICES ASSUME IInv, \A t \in Threads : pc[t] = "idle"
               PROVE  /\ algo = "ttasrw" => lk.lock_data = 0 /\ lk.rd = {} /\ lk.wr = NULL
                      /\ algo = "rwsem" => lk = [wlocked |-> FALSE, readers |-> 0, wait_lock |-> NULL]
                      /\ algo \in HmcsAlgos => /\ \A h \in DOMAIN lk.tail : lk.tail[h] = NULL
                                               /\ \A n \in NumaNodes : lk.active_readers[n] = 0
    BY RwLocksAssumption DEF RwFreeWhenUnused, IInv, HmcsAlgos
  <1>1. ASSUME algo = "ttasrw"
        PROVE  lk.lock_data = 0 /\ lk.rd = {} /\ lk.wr = NULL
    <2>1. TtasReaders = {} /\ TtasWriters = {}
      BY DEF TtasReaders, TtasWriters, TtasCounted, TtasOwning
    <2>2. lk.lock_data = 0
      BY <1>1, <2>1, FS_EmptySet DEF IInv, TtasInv, TtasData
    <2>3. lk.rd = {} /\ lk.wr = NULL
      BY <1>1 DEF IInv, TtasInv, TtasReal, TtasType
    <2> QED
      BY <2>2, <2>3
  <1>2. ASSUME algo = "rwsem"
        PROVE  lk = [wlocked |-> FALSE, readers |-> 0, wait_lock |-> NULL]
    <2>1. SemReaders = {}
      BY DEF SemReaders, SemCounted
    <2>2. lk.readers = 0
      BY <1>2, <2>1, FS_EmptySet DEF IInv, SemInv
    <2>3. lk.wlocked = FALSE /\ lk.wait_lock = NULL
      BY <1>2 DEF IInv, SemInv, SemType, SemOwning, SemMutex
    <2> QED
      BY <1>2, <2>2, <2>3 DEF IInv, SemInv, SemType
  <1>3. ASSUME algo \in HmcsAlgos
        PROVE  /\ \A h \in DOMAIN lk.tail : lk.tail[h] = NULL
               /\ \A n \in NumaNodes : lk.active_readers[n] = 0
    <2>1. HmcsInv
      BY <1>3 DEF IInv
    <2>2. PICK Q \in [NumaNodes -> Seq(Threads)], g \in Seq(NumaNodes) : HInv(Q, g)
      BY <2>1 DEF HmcsInv, HmcsQueues
    <2>3. \A t \in Threads : ~Queued(t)
      BY DEF Queued, QueuedPcs, GlobalPcs
    <2>4. DOMAIN lk.tail = NumaNodes \cup {GLOBAL}
      BY <2>1 DEF HmcsInv, HmcsType, LkRec
    <2>5. \A h \in DOMAIN lk.tail : lk.tail[h] = NULL
      BY <2>2, <2>3, <2>4, EmptyQueues
    <2>6. \A n \in NumaNodes : CountedOn(n) = {}
      BY DEF CountedOn, CountedPcs
    <2>7. \A n \in NumaNodes : lk.active_readers[n] = 0
      BY <2>1, <2>6, FS_EmptySet DEF HmcsInv, HmcsRest, ReadersCounted
    <2> QED
      BY <2>5, <2>7
  <1> QED
    BY <1>1, <1>2, <1>3

\* No reader is let in beside a writer and no writer beside anybody, by the lock
\* words and queues of hmcsrw.c, ttasrw.c and the kernel's semaphore alone and
\* whatever the calls that wait, try or give up do in between: each implements RwLock.
THEOREM RwLocksCorrect == FairSpec => ImplementsRwLock
  <1>1. Init => IInv /\ RW!Init
    BY Initially
  <1>2. IInv /\ [Next]_vars => IInv' /\ [RW!Next]_RwPc
    BY ThreadSteps, Stutters DEF Next
  <1> QED
    BY <1>1, <1>2, PTL DEF FairSpec, ImplementsRwLock, RW!Spec

\* A lock that nobody uses is free, whichever trylocks failed half-way: no node is
\* left in a queue of hmcsrw.c, no reader counted, no mask or byte left set.
THEOREM RwFreeCorrect == FairSpec => []RwFreeWhenUnused
  <1>1. Init => IInv
    BY Initially
  <1>2. IInv /\ [Next]_vars => IInv'
    BY ThreadSteps, Stutters DEF Next
  <1>3. IInv => RwFreeWhenUnused
    BY FreeWhenUnused
  <1> QED
    BY <1>1, <1>2, <1>3, PTL DEF FairSpec
=============================================================================
