--------------------------- MODULE NumaLocksProof ---------------------------
(***************************************************************************)
(* Theorems about NumaLocks, for any number of threads and NUMA nodes: its *)
(* locks implement the lock under the condition variables, and pass the    *)
(* global lock on for as long as they are configured to, and no longer.    *)
(***************************************************************************)
EXTENDS NumaLocks, LockApiProof, FunctionTheorems

-----------------------------------------------------------------------------
(* A ticket lock whose tickets wrap around, by who waits and whether         *)
(* somebody has it, e = 1: x[t] is the ticket that t waits with.             *)

TicketAt(req, gr, e, W, x) ==
  /\ req \in 0..TicketMod - 1 /\ gr \in 0..TicketMod - 1 /\ e \in {0, 1}
  /\ IsFiniteSet(W) /\ e + Cardinality(W) < TicketMod
  /\ req = (gr + (e + Cardinality(W))) % TicketMod
  /\ \A t \in W : \E k \in e..(e + Cardinality(W) - 1) : x[t] = (gr + k) % TicketMod
  /\ \A t, u \in W : x[t] = x[u] => t = u

LEMMA TicketFacts ==
  ASSUME NEW req, NEW gr, NEW e, NEW W, NEW x, TicketAt(req, gr, e, W, x)
  PROVE  /\ TicketMod \in Nat \ {0} /\ e \in {0, 1} /\ Cardinality(W) \in Nat
         /\ e + Cardinality(W) \in 0..TicketMod - 1 /\ gr \in 0..TicketMod - 1 /\ req \in 0..TicketMod - 1
         /\ IsFiniteSet(W)
  <1>1. TicketMod \in Nat /\ IsFiniteSet(W) /\ e \in {0, 1} /\ e + Cardinality(W) < TicketMod
    BY NumaLocksAssumption DEF TicketAt
  <1>2. Cardinality(W) \in Nat
    BY <1>1, FS_CardinalityType
  <1>3. e + Cardinality(W) \in 0..TicketMod - 1 /\ TicketMod \in Nat \ {0}
    BY <1>1, <1>2
  <1> QED
    BY <1>1, <1>2, <1>3 DEF TicketAt

\* Somebody else draws a ticket.
LEMMA TicketDrawn ==
  ASSUME NEW req, NEW gr, NEW e, NEW W, NEW x, TicketAt(req, gr, e, W, x),
         NEW v, v \notin W, e + Cardinality(W) + 1 < TicketMod,
         NEW x2, x2[v] = req, \A t \in W : x2[t] = x[t]
  PROVE  TicketAt((req + 1) % TicketMod, gr, e, W \cup {v}, x2)
  <1> DEFINE M == TicketMod  c == e + Cardinality(W)
  <1>1. /\ M \in Nat \ {0} /\ e \in {0, 1} /\ Cardinality(W) \in Nat /\ c \in 0..M - 1
        /\ gr \in 0..M - 1 /\ IsFiniteSet(W) /\ req = (gr + c) % M
    BY TicketFacts DEF TicketAt
  <1>2. IsFiniteSet(W \cup {v}) /\ Cardinality(W \cup {v}) = Cardinality(W) + 1
    BY <1>1, FS_AddElement
  <1>3. (req + 1) % M = (gr + (e + Cardinality(W \cup {v}))) % M
    <2>1. (req + 1) % M = (gr + (c + 1)) % M
      BY <1>1, ModNext
    <2>2. c + 1 = e + Cardinality(W \cup {v})
      BY <1>1, <1>2
    <2> QED
      BY <2>1, <2>2
  <1>4. (req + 1) % M \in 0..M - 1
    <2>1. req + 1 \in Nat
      BY TicketFacts
    <2> QED
      BY <1>1, <2>1
  <1>5. ASSUME NEW t \in W \cup {v}
        PROVE  \E k \in e..(e + Cardinality(W \cup {v}) - 1) : x2[t] = (gr + k) % M
    <2>1. CASE t = v
      <3>1. c \in e..(e + Cardinality(W \cup {v}) - 1)
        BY <1>1, <1>2
      <3> QED
        BY <1>1, <2>1, <3>1
    <2>2. CASE t \in W
      <3>1. PICK k \in e..(e + Cardinality(W) - 1) : x[t] = (gr + k) % M
        BY <2>2 DEF TicketAt
      <3>2. k \in e..(e + Cardinality(W \cup {v}) - 1)
        BY <1>1, <1>2, <3>1
      <3> QED
        BY <2>2, <3>1, <3>2
    <2> QED
      BY <2>1, <2>2
  <1>6. ASSUME NEW t \in W
        PROVE  x2[t] # req
    <2>1. PICK k \in e..(e + Cardinality(W) - 1) : x[t] = (gr + k) % M
      BY DEF TicketAt
    <2>2. k \in 0..M - 1 /\ k # c
      BY <1>1, <2>1
    <2> QED
      BY <1>1, <2>1, <2>2, ModDiffer
  <1>7. \A t, u \in W \cup {v} : x2[t] = x2[u] => t = u
    BY <1>6 DEF TicketAt
  <1>8. e + Cardinality(W \cup {v}) < M
    BY <1>1, <1>2
  <1> QED
    BY <1>1, <1>2, <1>3, <1>4, <1>5, <1>7, <1>8 DEF TicketAt

\* Who has the ticket that is granted finds the lock free and gets it.
LEMMA TicketGot ==
  ASSUME NEW req, NEW gr, NEW e, NEW W, NEW x, TicketAt(req, gr, e, W, x),
         NEW v \in W, x[v] = gr,
         NEW x2, \A t \in W \ {v} : x2[t] = x[t]
  PROVE  e = 0 /\ TicketAt(req, gr, 1, W \ {v}, x2)
  <1> DEFINE M == TicketMod  c == e + Cardinality(W)
  <1>1. /\ M \in Nat \ {0} /\ e \in {0, 1} /\ Cardinality(W) \in Nat /\ c \in 0..M - 1
        /\ gr \in 0..M - 1 /\ IsFiniteSet(W) /\ req = (gr + c) % M /\ req \in 0..M - 1
    BY TicketFacts DEF TicketAt
  <1>2. IsFiniteSet(W \ {v}) /\ Cardinality(W \ {v}) = Cardinality(W) - 1
    BY <1>1, FS_RemoveElement
  <1>3. e = 0
    <2>1. PICK k \in e..(e + Cardinality(W) - 1) : x[v] = (gr + k) % M
      BY DEF TicketAt
    <2>2. k \in 0..M - 1 /\ (gr + k) % M = gr
      BY <1>1, <2>1
    <2>3. k = 0
      BY <1>1, <2>2, ModSame
    <2> QED
      BY <1>1, <2>1, <2>3
  <1>4. 1 + Cardinality(W \ {v}) = c
    BY <1>1, <1>2, <1>3
  <1>5. ASSUME NEW t \in W \ {v}
        PROVE  \E k \in 1..(1 + Cardinality(W \ {v}) - 1) : x2[t] = (gr + k) % M
    <2>1. PICK k \in e..(e + Cardinality(W) - 1) : x[t] = (gr + k) % M
      BY DEF TicketAt
    <2>2. k # 0
      <3>1. \A g \in 0..M - 1 : (g + 0) % M = g
        BY <1>1, Mod0
      <3>2. k = 0 => x[t] = x[v]
        BY <1>1, <2>1, <3>1
      <3> QED
        BY <3>2 DEF TicketAt
    <2>3. k \in 1..(1 + Cardinality(W \ {v}) - 1)
      BY <1>1, <1>2, <1>3, <2>1, <2>2
    <2> QED
      BY <2>1, <2>3
  <1>6. \A t, u \in W \ {v} : x2[t] = x2[u] => t = u
    BY DEF TicketAt
  <1>7. 1 + Cardinality(W \ {v}) < M /\ req = (gr + (1 + Cardinality(W \ {v}))) % M
    BY <1>1, <1>4
  <1> QED
    BY <1>1, <1>2, <1>3, <1>5, <1>6, <1>7 DEF TicketAt

\* The holder grants the next ticket.
LEMMA TicketGranted ==
  ASSUME NEW req, NEW gr, NEW W, NEW x, TicketAt(req, gr, 1, W, x),
         NEW x2, \A t \in W : x2[t] = x[t]
  PROVE  TicketAt(req, (gr + 1) % TicketMod, 0, W, x2)
  <1> DEFINE M == TicketMod  c == Cardinality(W)
  <1>1. /\ M \in Nat \ {0} /\ c \in Nat /\ 1 + c \in 0..M - 1
        /\ gr \in 0..M - 1 /\ IsFiniteSet(W) /\ req = (gr + (1 + c)) % M /\ req \in 0..M - 1
    BY TicketFacts DEF TicketAt
  <1>2. (gr + 1) % M \in 0..M - 1
    <2>1. gr + 1 \in Nat
      BY <1>1
    <2> QED
      BY <1>1, <2>1
  <1>3. \A k \in 0..M - 1 : (gr + (1 + k)) % M = (((gr + 1) % M) + k) % M
    BY <1>1, ModFrom
  <1>4. c \in 0..M - 1 /\ 0 + c = c
    BY <1>1
  <1>5. req = (((gr + 1) % M) + (0 + c)) % M
    BY <1>1, <1>3, <1>4
  <1>6. ASSUME NEW t \in W
        PROVE  \E k \in 0..(0 + c - 1) : x2[t] = (((gr + 1) % M) + k) % M
    <2>1. PICK k \in 1..(1 + c - 1) : x[t] = (gr + k) % M
      BY DEF TicketAt
    <2>2. k - 1 \in 0..(0 + c - 1) /\ k - 1 \in 0..M - 1 /\ 1 + (k - 1) = k
      BY <1>1, <2>1
    <2>3. x[t] = (((gr + 1) % M) + (k - 1)) % M
      BY <1>3, <2>1, <2>2
    <2> QED
      BY <2>2, <2>3
  <1>7. \A t, u \in W : x2[t] = x2[u] => t = u
    BY DEF TicketAt
  <1>8. 0 + c < M
    BY <1>1
  <1> QED
    BY <1>1, <1>2, <1>5, <1>6, <1>7, <1>8 DEF TicketAt

\* A trylock that finds the counters equal finds the lock free, and takes it.
LEMMA TicketTaken ==
  ASSUME NEW req, NEW gr, NEW e, NEW W, NEW x, TicketAt(req, gr, e, W, x), req = gr, 1 < TicketMod,
         NEW x2
  PROVE  e = 0 /\ W = {} /\ TicketAt((req + 1) % TicketMod, gr, 1, W, x2)
  <1> DEFINE M == TicketMod  c == e + Cardinality(W)
  <1>1. /\ M \in Nat \ {0} /\ e \in {0, 1} /\ Cardinality(W) \in Nat /\ c \in 0..M - 1
        /\ gr \in 0..M - 1 /\ IsFiniteSet(W) /\ (gr + c) % M = gr
    <2>1. req = (gr + c) % M
      BY DEF TicketAt
    <2> QED
      BY <2>1, TicketFacts
  <1>2. c = 0
    BY <1>1, ModSame
  <1>3. e = 0 /\ W = {} /\ Cardinality(W) = 0
    BY <1>1, <1>2, FS_EmptySet
  <1>4. (req + 1) % M \in 0..M - 1
    <2>1. req + 1 \in Nat
      BY <1>1
    <2> QED
      BY <1>1, <2>1
  <1>5. 1 + Cardinality(W) = 1
    BY <1>3
  <1> QED
    BY <1>1, <1>3, <1>4, <1>5 DEF TicketAt

\* The waiters' tickets are all that matters.
LEMMA TicketKept ==
  ASSUME NEW req, NEW gr, NEW e, NEW W, NEW x, TicketAt(req, gr, e, W, x),
         NEW x2, \A t \in W : x2[t] = x[t]
  PROVE  TicketAt(req, gr, e, W, x2)
  BY DEF TicketAt

-----------------------------------------------------------------------------
(* htlockepfl.c                                                              *)

\* t was granted the local lock, and with it the global one, but has not noticed.
HtTransit(t) == pc[t] = "spin" /\ loc[t] = lk.local[nd[t]].grant

\* t has the global lock.
HtOwns(t) == Hold(t) \/ HtTransit(t)

\* t is the one whose local tickets are in use: it has fetched the global lock for
\* its node or is about to, or it was passed on to t.
HtLead(t) ==
  \/ pc[t] \in {"top", "topspin"}
  \/ Hold(t) /\ pc[t] \notin {"refill", "topunlock"}
  \/ HtTransit(t)

HtFollows(t) == pc[t] = "spin" /\ ~HtTransit(t)

HtTopWaits == {t \in Threads : pc[t] = "topspin"}

HtOwned == IF \E t \in Threads : HtOwns(t) THEN 1 ELSE 0

\* The local tickets of node n.  Those below grant and not below request are drawn,
\* and who has one waits behind the leader; request is negative while the ticket
\* to fetch the next batch is out.
HtReq(n) == lk.local[n].request
HtGrant(n) == lk.local[n].grant
HtLed(n) == \E t \in Threads : HtLead(t) /\ nd[t] = n
HtBehind(t, n) == HtFollows(t) /\ nd[t] = n

HtLocal(n) ==
  /\ HtReq(n) \in Int /\ HtReq(n) <= NB_TICKETS_LOCAL
  /\ HtGrant(n) \in 0..NB_TICKETS_LOCAL
  /\ \A t \in Threads : pc[t] = "fetch" /\ nd[t] = n => HtReq(n) < 0
  /\ HtLed(n) =>
       /\ HtReq(n) <= HtGrant(n)
       /\ \A t \in Threads : HtBehind(t, n) => loc[t] \in HtReq(n)..HtGrant(n) - 1 /\ loc[t] \in Nat
       /\ \A k \in 0..HtGrant(n) - 1 : HtReq(n) <= k => \E t \in Threads : HtBehind(t, n) /\ loc[t] = k
  /\ ~HtLed(n) =>
       /\ HtReq(n) <= 0
       /\ \A t \in Threads : ~HtBehind(t, n)
       /\ HtGrant(n) = NB_TICKETS_LOCAL \/ \E t \in Threads : pc[t] = "refill" /\ nd[t] = n

HtType ==
  /\ nd \in [Threads -> NumaNodes] /\ loc = [t \in Threads |-> loc[t]]
  /\ lk \in [global : [request : 0..TicketMod - 1, grant : 0..TicketMod - 1],
             local : [NumaNodes -> [request : Int, grant : Int]]]

\* One thread has the global lock, one on each node has the tickets or is to fetch
\* them, and no ticket is drawn twice.
HtAlone ==
  /\ \A t, u \in Threads : HtOwns(t) /\ HtOwns(u) => t = u
  /\ \A t, u \in Threads : HtLead(t) /\ HtLead(u) /\ nd[t] = nd[u] => t = u
  /\ \A t, u \in Threads : pc[t] = "fetch" /\ pc[u] = "fetch" /\ nd[t] = nd[u] => t = u
  /\ \A t, u \in Threads :
       HtFollows(t) /\ HtFollows(u) /\ nd[t] = nd[u] /\ loc[t] = loc[u] => t = u

HtGlobal == TicketAt(lk.global.request, lk.global.grant, HtOwned, HtTopWaits, loc)

\* What a thread knows of its node's tickets, and of the passes before it.
HtKnows(t) ==
  LET l == lk.local[nd[t]]
  IN  /\ pc[t] \in {"top", "topspin"} => l.grant = NB_TICKETS_LOCAL
      /\ pc[t] = "pass" => 0 < l.grant /\ l.request < l.grant
      /\ Hold(t) /\ pc[t] \notin {"refill", "topunlock"} => batch + l.grant <= NB_TICKETS_LOCAL
      /\ HtTransit(t) => batch + l.grant < NB_TICKETS_LOCAL

HtInv ==
  /\ Cardinality(Threads) <= NB_TICKETS_LOCAL + 1
  /\ HtType /\ HtAlone /\ HtGlobal
  /\ \A n \in NumaNodes : HtLocal(n)
  /\ batch \in 0..NB_TICKETS_LOCAL /\ \A t \in Threads : HtKnows(t)

\* The history variable's part of ThreadStep.
Batched(t) ==
  batch' = IF ~Acquires(t) \/ batch > Limit THEN batch ELSE IF pc[t] \in TopPcs THEN 0 ELSE batch + 1

LEMMA NumaPcs ==
  \A p \in {"lock", "again", "spin", "fetch", "top", "topspin", "toptas", "got", "link", "sleep",
            "start", "glink", "gspin"} : LockPc(p) /\ p \notin HeldPcs
  BY DEF LockPc, HeldPcs, WrapperPcs, UnlockPcs, ReleasedPcs, TryPcs

LEMMA HtCalls ==
  ASSUME NEW t \in Threads
  PROVE  /\ Ht!CallLock(t) => CallLock(t)
         /\ Ht!PosixLock(t) => PosixLock(t)
         /\ Ht!PosixUnlock(t) => PosixUnlock(t)
         /\ Ht!CondTimedwait(t) => CondTimedwait(t)
         /\ \A p, q : Ht!Step(t, p, q) => Step(t, p, q)
         /\ Ht!After(t) = After(t)
  <1>1. Ht!CallLock(t) => CallLock(t)
    BY DEF Ht!CallLock, CallLock, Ht!Read, Read, Ht!Step, Step, Ht!mem, mem
  <1>2. Ht!PosixLock(t) => PosixLock(t)
    BY DEF Ht!PosixLock, PosixLock, Ht!mem, mem
  <1>3. Ht!PosixUnlock(t) => PosixUnlock(t)
    BY DEF Ht!PosixUnlock, PosixUnlock, Ht!mem, mem
  <1>4. Ht!RealWake(t) => RealWake(t)
    BY DEF Ht!RealWake, RealWake, Ht!Read, Read, Ht!Step, Step, Ht!mem, mem
  <1>5. Ht!CondTimedwait(t) => CondTimedwait(t)
    BY <1>4, Zenon DEF Ht!CondTimedwait, CondTimedwait, Ht!CallWait, CallWait, Ht!RealWait, RealWait,
                Ht!RealReturn, RealReturn, Ht!WaitPosixUnlock, WaitPosixUnlock, Ht!mem, mem
  <1>6. \A p, q : Ht!Step(t, p, q) => Step(t, p, q)
    BY DEF Ht!Step, Step
  <1>7. Ht!After(t) = After(t)
    BY DEF Ht!After, After
  <1> QED
    BY <1>1, <1>2, <1>3, <1>5, <1>6, <1>7

\* A step of t alone.
Only(t) == \A u \in Threads \ {t} : pc'[u] = pc[u] /\ nd'[u] = nd[u] /\ loc'[u] = loc[u]

LEMMA HtOthers ==
  ASSUME NEW t \in Threads, Only(t),
         \A u \in Threads \ {t} : pc[u] = "spin" => lk'.local[nd[u]].grant = lk.local[nd[u]].grant
  PROVE  \A u \in Threads \ {t} :
           /\ Hold(u)' <=> Hold(u)
           /\ HtTransit(u)' <=> HtTransit(u)
           /\ HtOwns(u)' <=> HtOwns(u)
           /\ HtLead(u)' <=> HtLead(u)
           /\ HtFollows(u)' <=> HtFollows(u)
  <1> TAKE u \in Threads \ {t}
  <1>1. pc'[u] = pc[u] /\ nd'[u] = nd[u] /\ loc'[u] = loc[u]
    BY DEF Only
  <1>2. Hold(u)' <=> Hold(u)
    BY <1>1 DEF Hold
  <1>3. HtTransit(u)' <=> HtTransit(u)
    BY <1>1 DEF HtTransit
  <1> QED
    BY <1>1, <1>2, <1>3 DEF HtOwns, HtLead, HtFollows

LEMMA HtLocalKept ==
  ASSUME NEW n \in NumaNodes, HtLocal(n), lk'.local[n] = lk.local[n],
         \A u \in Threads :
           /\ HtLead(u)' /\ nd'[u] = n <=> HtLead(u) /\ nd[u] = n
           /\ HtBehind(u, n)' <=> HtBehind(u, n)
           /\ HtBehind(u, n) => loc'[u] = loc[u]
           /\ pc'[u] = "fetch" /\ nd'[u] = n => pc[u] = "fetch" /\ nd[u] = n
           /\ pc[u] = "refill" /\ nd[u] = n => pc'[u] = "refill" /\ nd'[u] = n
  PROVE  HtLocal(n)'
  <1>1. HtLed(n)' <=> HtLed(n)
    BY DEF HtLed
  <1>2. HtReq(n)' = HtReq(n) /\ HtGrant(n)' = HtGrant(n)
    BY DEF HtReq, HtGrant
  <1>3. \A k : (\E u \in Threads : HtBehind(u, n) /\ loc[u] = k) => \E u \in Threads : HtBehind(u, n)' /\ loc'[u] = k
    OBVIOUS
  <1> QED
    BY <1>1, <1>2, <1>3 DEF HtLocal

LEMMA HtGlobalKept ==
  ASSUME HtGlobal, lk'.global = lk.global,
         (\E u \in Threads : HtOwns(u)') <=> (\E u \in Threads : HtOwns(u)),
         \A u \in Threads : /\ pc'[u] = "topspin" <=> pc[u] = "topspin"
                            /\ pc[u] = "topspin" => loc'[u] = loc[u]
  PROVE  HtGlobal'
  <1>1. HtOwned' = HtOwned /\ HtTopWaits' = HtTopWaits
    BY DEF HtOwned, HtTopWaits
  <1>2. \A u \in HtTopWaits : loc'[u] = loc[u]
    BY DEF HtTopWaits
  <1> QED
    BY <1>1, <1>2, TicketKept DEF HtGlobal

\* A step that moves nobody into or out of these program points.
LEMMA HtSame ==
  ASSUME HtInv, lk' = lk, nd' = nd, loc' = loc, batch' = batch,
         \A u \in Threads :
           /\ Hold(u)' <=> Hold(u)
           /\ \A p \in {"spin", "fetch", "top", "topspin", "pass", "refill", "topunlock"} :
                pc'[u] = p <=> pc[u] = p
  PROVE  HtInv'
  <1>1. \A u \in Threads :
          /\ HtTransit(u)' <=> HtTransit(u)
          /\ HtOwns(u)' <=> HtOwns(u)
          /\ HtLead(u)' <=> HtLead(u)
          /\ HtFollows(u)' <=> HtFollows(u)
    BY DEF HtTransit, HtOwns, HtLead, HtFollows
  <1>2. HtType' /\ HtAlone'
    BY <1>1 DEF HtInv, HtType, HtAlone
  <1>3. HtGlobal'
    BY <1>1, HtGlobalKept DEF HtInv
  <1>4. \A n \in NumaNodes : HtLocal(n)'
    BY <1>1, HtLocalKept DEF HtInv, HtBehind
  <1>5. \A u \in Threads : HtKnows(u)'
    BY <1>1 DEF HtInv, HtKnows
  <1> QED
    BY <1>2, <1>3, <1>4, <1>5 DEF HtInv

LEMMA HtWrapped ==
  ASSUME ApiInv, HtInv, NEW t \in Threads, Wrapped(t), Batched(t)
  PROVE  HtInv'
  <1>1. OneHolder
    BY DEF HtInv, HtAlone, HtOwns, OneHolder
  <1>2. lk' = lk /\ nd' = nd /\ loc' = loc /\ \A u \in Threads : Around(u) /\ (Hold(u)' <=> Hold(u))
    BY <1>1, WrappedKeeps
  <1>3. \A u \in Threads : \A p \in {"spin", "fetch", "top", "topspin", "pass", "refill", "topunlock"} :
                pc'[u] = p <=> pc[u] = p
    BY <1>2 DEF Around, RestPcs
  <1>4. batch' = batch
    BY <1>2 DEF Batched, Acquires, Around, RestPcs
  <1> QED
    BY <1>2, <1>3, <1>4, HtSame

\* The nodes where nothing happens.
LEMMA HtElsewhere ==
  ASSUME HtInv, NEW t \in Threads, Only(t), NEW n \in NumaNodes, nd'[t] = n,
         nd[t] = n \/ pc[t] \in {"lock", "again"},
         \A m \in NumaNodes \ {n} : lk'.local[m] = lk.local[m]
  PROVE  \A m \in NumaNodes \ {n} : HtLocal(m)'
  <1> TAKE m \in NumaNodes \ {n}
  <1>1. m \in NumaNodes /\ HtLocal(m) /\ lk'.local[m] = lk.local[m] /\ m # n
    BY DEF HtInv
  <1>2. \A u \in Threads \ {t} : pc'[u] = pc[u] /\ nd'[u] = nd[u] /\ loc'[u] = loc[u]
    BY DEF Only
  <1>3. \A u \in Threads \ {t} : nd[u] = m =>
          /\ HtTransit(u)' <=> HtTransit(u)
          /\ Hold(u)' <=> Hold(u)
    BY <1>1, <1>2 DEF HtTransit, Hold
  <1>4. \A u \in Threads \ {t} :
          /\ HtLead(u)' /\ nd'[u] = m <=> HtLead(u) /\ nd[u] = m
          /\ HtBehind(u, m)' <=> HtBehind(u, m)
    BY <1>2, <1>3 DEF HtLead, HtBehind, HtFollows
  <1>5. "lock" \notin HeldPcs /\ "again" \notin HeldPcs
    BY NumaPcs
  <1>6. nd[t] = m => ~HtLead(t) /\ ~HtFollows(t) /\ pc[t] \notin {"fetch", "refill"}
    BY <1>1, <1>5 DEF HtLead, HtFollows, HtTransit, Hold
  <1> QED
    BY <1>1, <1>2, <1>4, <1>6, HtLocalKept DEF HtBehind

\* A ticket is drawn on node n.
LEMMA HtDraw ==
  ASSUME HtInv, NEW t \in Threads, NEW n \in NumaNodes, Only(t), HtType', batch' = batch,
         pc[t] \in {"lock", "again"}, nd'[t] = n, HtReq(n) - 1 >= -1,
         pc'[t] = IF HtReq(n) - 1 >= 0 THEN "spin" ELSE "fetch",
         HtReq(n)' = HtReq(n) - 1, HtGrant(n)' = HtGrant(n), lk'.global = lk.global,
         HtReq(n) - 1 >= 0 => loc'[t] = HtReq(n) - 1,
         \A m \in NumaNodes \ {n} : lk'.local[m] = lk.local[m]
  PROVE  HtInv'
  <1>1. \A u \in Threads \ {t} : pc'[u] = pc[u] /\ nd'[u] = nd[u] /\ loc'[u] = loc[u]
    BY DEF Only
  <1>2. ~Hold(t) /\ ~HtTransit(t) /\ ~HtOwns(t) /\ ~HtLead(t) /\ ~HtFollows(t)
    BY NumaPcs DEF Hold, HtTransit, HtOwns, HtLead, HtFollows
  <1>3. HtLocal(n) /\ \A u \in Threads : nd[u] \in NumaNodes
    BY DEF HtInv, HtType
  <1>4. \A m \in NumaNodes : lk'.local[m].grant = lk.local[m].grant
    BY DEF HtGrant
  <1>5. \A u \in Threads \ {t} :
           /\ Hold(u)' <=> Hold(u)
           /\ HtTransit(u)' <=> HtTransit(u)
           /\ HtOwns(u)' <=> HtOwns(u)
           /\ HtLead(u)' <=> HtLead(u)
           /\ HtFollows(u)' <=> HtFollows(u)
    BY <1>3, <1>4, HtOthers
  <1>6. HtReq(n) \in Int /\ HtGrant(n) \in 0..NB_TICKETS_LOCAL /\ NB_TICKETS_LOCAL \in Nat
    BY <1>3, NumaLocksAssumption DEF HtLocal
  <1>7. HtReq(n) - 1 >= 0 => HtLed(n) /\ HtReq(n) <= HtGrant(n)
    BY <1>3, <1>6 DEF HtLocal
  <1>8. ~Hold(t)' /\ ~HtTransit(t)' /\ ~HtOwns(t)' /\ ~HtLead(t)'
    <2>1. pc'[t] \in {"spin", "fetch"}
      OBVIOUS
    <2>2. ~Hold(t)'
      BY <2>1, NumaPcs DEF Hold
    <2>3. ~HtTransit(t)'
      <3> SUFFICES ASSUME pc'[t] = "spin"
                   PROVE  loc'[t] # lk'.local[nd'[t]].grant
        BY DEF HtTransit
      <3>1. HtReq(n) - 1 >= 0 /\ loc'[t] = HtReq(n) - 1
        OBVIOUS
      <3> QED
        BY <3>1, <1>6, <1>7 DEF HtGrant
    <2> QED
      BY <2>1, <2>2, <2>3 DEF HtOwns, HtLead
  <1>9. HtFollows(t)' <=> HtReq(n) - 1 >= 0
    BY <1>8 DEF HtFollows
  <1>10. /\ HtLed(n)' <=> HtLed(n)
         /\ \A u \in Threads \ {t} : HtBehind(u, n)' <=> HtBehind(u, n)
         /\ ~HtBehind(t, n)
         /\ HtBehind(t, n)' <=> HtReq(n) - 1 >= 0
    BY <1>1, <1>2, <1>5, <1>8, <1>9 DEF HtLed, HtBehind
  <1>11. \A u \in Threads \ {t} : HtBehind(u, n) => HtReq(n) <= loc[u] /\ loc[u] \in Nat /\ loc[u] < HtGrant(n)
    BY <1>3, <1>6 DEF HtLocal
  <1>12. HtLocal(n)'
    <2>1. HtReq(n)' \in Int /\ HtReq(n)' <= NB_TICKETS_LOCAL /\ HtGrant(n)' \in 0..NB_TICKETS_LOCAL
      BY <1>3, <1>6 DEF HtLocal
    <2>2. \A u \in Threads : pc'[u] = "fetch" /\ nd'[u] = n => HtReq(n)' < 0
      BY <1>1, <1>3, <1>6 DEF HtLocal
    <2>3. ASSUME HtLed(n)
          PROVE  /\ HtReq(n)' <= HtGrant(n)'
                 /\ \A u \in Threads : HtBehind(u, n)' => loc'[u] \in HtReq(n)'..HtGrant(n)' - 1 /\ loc'[u] \in Nat
                 /\ \A k \in 0..HtGrant(n)' - 1 : HtReq(n)' <= k => \E u \in Threads : HtBehind(u, n)' /\ loc'[u] = k
      <3>1. HtReq(n) <= HtGrant(n) /\ HtReq(n)' <= HtGrant(n)'
        BY <1>3, <1>6, <2>3 DEF HtLocal
      <3>2. ASSUME NEW u \in Threads, HtBehind(u, n)'
            PROVE  loc'[u] \in HtReq(n)'..HtGrant(n)' - 1 /\ loc'[u] \in Nat
        <4>1. CASE u = t
          BY <4>1, <3>1, <3>2, <1>6, <1>10
        <4>2. CASE u # t
          BY <4>2, <3>2, <1>1, <1>6, <1>10, <1>11
        <4> QED
          BY <4>1, <4>2
      <3>3. ASSUME NEW k \in 0..HtGrant(n)' - 1, HtReq(n)' <= k
            PROVE  \E u \in Threads : HtBehind(u, n)' /\ loc'[u] = k
        <4>1. CASE k = HtReq(n) - 1
          BY <4>1, <1>6, <1>10
        <4>2. CASE k # HtReq(n) - 1
          <5>1. k \in 0..HtGrant(n) - 1 /\ HtReq(n) <= k
            BY <4>2, <3>3, <1>6
          <5>2. PICK u \in Threads : HtBehind(u, n) /\ loc[u] = k
            BY <5>1, <1>3, <2>3 DEF HtLocal
          <5> QED
            BY <5>2, <1>1, <1>10
        <4> QED
          BY <4>1, <4>2
      <3> QED
        BY <3>1, <3>2, <3>3
    <2>4. ASSUME ~HtLed(n)
          PROVE  /\ HtReq(n)' <= 0
                 /\ \A u \in Threads : ~HtBehind(u, n)'
                 /\ HtGrant(n)' = NB_TICKETS_LOCAL \/ \E u \in Threads : pc'[u] = "refill" /\ nd'[u] = n
      <3>1. HtReq(n) <= 0 /\ (\A u \in Threads : ~HtBehind(u, n))
            /\ (HtGrant(n) = NB_TICKETS_LOCAL \/ \E u \in Threads : pc[u] = "refill" /\ nd[u] = n)
        BY <1>3, <2>4 DEF HtLocal
      <3>2. (\E u \in Threads : pc[u] = "refill" /\ nd[u] = n) => \E u \in Threads : pc'[u] = "refill" /\ nd'[u] = n
        BY <1>1
      <3> QED
        BY <3>1, <3>2, <1>6, <1>7, <1>10, <2>4
    <2> QED
      BY <1>10, <2>1, <2>2, <2>3, <2>4 DEF HtLocal
  <1>13. \A m \in NumaNodes : HtLocal(m)'
    <2>1. nd[t] = n \/ pc[t] \in {"lock", "again"}
      OBVIOUS
    <2> QED
      BY <1>12, <2>1, HtElsewhere
  <1>14. HtAlone'
    <2>1. \A u \in Threads : HtOwns(u)' => HtOwns(u) /\ u # t
      BY <1>5, <1>8
    <2>2. \A u \in Threads : HtLead(u)' => HtLead(u) /\ nd'[u] = nd[u] /\ u # t
      BY <1>1, <1>5, <1>8
    <2>3. \A u \in Threads \ {t} : pc[u] = "fetch" /\ nd[u] = n => HtReq(n) - 1 < -1
      BY <1>3, <1>6 DEF HtLocal
    <2>4. \A u, v \in Threads : pc'[u] = "fetch" /\ pc'[v] = "fetch" /\ nd'[u] = nd'[v] => u = v
      <3> SUFFICES ASSUME NEW u \in Threads, NEW v \in Threads, pc'[u] = "fetch", pc'[v] = "fetch", nd'[u] = nd'[v]
                   PROVE  u = v
        OBVIOUS
      <3>1. u = t => v = t
        BY <1>1, <1>6, <2>3
      <3>2. v = t => u = t
        BY <1>1, <1>6, <2>3
      <3>3. u # t /\ v # t => u = v
        BY <1>1 DEF HtInv, HtAlone
      <3> QED
        BY <3>1, <3>2, <3>3
    <2>5. \A u, v \in Threads : HtFollows(u)' /\ HtFollows(v)' /\ nd'[u] = nd'[v] /\ loc'[u] = loc'[v] => u = v
      <3> SUFFICES ASSUME NEW u \in Threads, NEW v \in Threads, HtFollows(u)', HtFollows(v)',
                          nd'[u] = nd'[v], loc'[u] = loc'[v]
                   PROVE  u = v
        OBVIOUS
      <3>0. \A w \in Threads \ {t} : HtFollows(w)' /\ nd'[w] = n => loc'[w] # HtReq(n) - 1
        <4> SUFFICES ASSUME NEW w \in Threads \ {t}, HtFollows(w)', nd'[w] = n
                     PROVE  loc'[w] # HtReq(n) - 1
          OBVIOUS
        <4>1. HtBehind(w, n)
          BY <1>1, <1>5 DEF HtBehind
        <4> QED
          BY <4>1, <1>1, <1>6, <1>11
      <3>1. u = t => v = t
        BY <1>9, <3>0
      <3>2. v = t => u = t
        BY <1>9, <3>0
      <3>3. u # t /\ v # t => u = v
        BY <1>1, <1>5 DEF HtInv, HtAlone
      <3> QED
        BY <3>1, <3>2, <3>3
    <2> QED
      BY <2>1, <2>2, <2>4, <2>5 DEF HtInv, HtAlone
  <1>15. HtGlobal'
    <2>1. (\E u \in Threads : HtOwns(u)') <=> (\E u \in Threads : HtOwns(u))
      BY <1>2, <1>5, <1>8
    <2>2. \A u \in Threads : /\ pc'[u] = "topspin" <=> pc[u] = "topspin"
                             /\ pc[u] = "topspin" => loc'[u] = loc[u]
      BY <1>1
    <2> QED
      BY <2>1, <2>2, HtGlobalKept DEF HtInv
  <1>16. \A u \in Threads : HtKnows(u)'
    <2> TAKE u \in Threads
    <2>1. CASE u = t
      <3>1. pc'[t] \in {"spin", "fetch"}
        OBVIOUS
      <3> QED
        BY <2>1, <3>1, <1>8 DEF HtKnows
    <2>2. CASE u # t
      <3>1. HtKnows(u)
        BY DEF HtInv
      <3>2. pc'[u] = pc[u] /\ nd'[u] = nd[u] /\ (Hold(u)' <=> Hold(u)) /\ (HtTransit(u)' <=> HtTransit(u))
            /\ nd[u] \in NumaNodes
        BY <1>1, <1>3, <1>5, <2>2
      <3>3. lk'.local[nd[u]].grant = lk.local[nd[u]].grant
        BY <1>4, <3>2
      <3>4. lk'.local[nd[u]].request = lk.local[nd[u]].request \/ lk'.local[nd[u]].request = lk.local[nd[u]].request - 1
        BY <3>2 DEF HtReq
      <3>5. lk.local[nd[u]].request \in Int /\ lk.local[nd[u]].grant \in Int
        BY <3>2 DEF HtInv, HtType
      <3> QED
        BY <3>1, <3>2, <3>3, <3>4, <3>5 DEF HtKnows
    <2> QED
      BY <2>1, <2>2
  <1> QED
    BY <1>13, <1>14, <1>15, <1>16 DEF HtInv

\* t stays the owner and the leader of its node, or neither, and the locks are not
\* touched.
LEMMA HtQuiet ==
  ASSUME HtInv, NEW t \in Threads, Only(t), HtType', lk' = lk, nd'[t] = nd[t],
         \/ HtOwns(t)' /\ HtLead(t)' /\ HtOwns(t) /\ HtLead(t)
         \/ ~HtOwns(t)' /\ ~HtLead(t)' /\ ~HtOwns(t) /\ ~HtLead(t),
         ~HtFollows(t), ~HtFollows(t)', pc'[t] # "fetch", pc[t] # "refill",
         pc[t] # "topspin", pc'[t] # "topspin",
         batch' = batch \/ (HtOwns(t) /\ batch' \in 0..NB_TICKETS_LOCAL),
         HtKnows(t)'
  PROVE  HtInv'
  <1>1. \A u \in Threads \ {t} : pc'[u] = pc[u] /\ nd'[u] = nd[u] /\ loc'[u] = loc[u]
    BY DEF Only
  <1>2. \A u \in Threads \ {t} :
           /\ Hold(u)' <=> Hold(u)
           /\ HtTransit(u)' <=> HtTransit(u)
           /\ HtOwns(u)' <=> HtOwns(u)
           /\ HtLead(u)' <=> HtLead(u)
           /\ HtFollows(u)' <=> HtFollows(u)
    BY HtOthers
  <1>3. /\ \A u \in Threads : nd'[u] = nd[u] /\ (HtOwns(u)' <=> HtOwns(u)) /\ (HtLead(u)' <=> HtLead(u))
        /\ \A u \in Threads : (HtFollows(u)' <=> HtFollows(u)) /\ (HtFollows(u) => loc'[u] = loc[u])
        /\ \A u \in Threads : pc'[u] = "fetch" => pc[u] = "fetch"
        /\ \A u \in Threads : pc[u] = "refill" => pc'[u] = "refill"
    BY <1>1, <1>2
  <1>4. HtAlone'
    BY <1>3 DEF HtInv, HtAlone
  <1>5. \A n \in NumaNodes : HtLocal(n)'
    BY <1>3, HtLocalKept DEF HtInv, HtBehind
  <1>6. HtGlobal'
    BY <1>1, <1>3, HtGlobalKept DEF HtInv
  <1>7. \A u \in Threads : HtKnows(u)'
    <2> SUFFICES ASSUME NEW u \in Threads \ {t}
                 PROVE  HtKnows(u)'
      OBVIOUS
    <2>1. HtKnows(u) /\ (batch' = batch \/ (~Hold(u) /\ ~HtTransit(u)))
      BY DEF HtInv, HtAlone, HtOwns
    <2> QED
      BY <1>1, <1>2, <2>1 DEF HtKnows
  <1> QED
    BY <1>4, <1>5, <1>6, <1>7 DEF HtInv

\* t's ticket is granted.
LEMMA HtGot ==
  ASSUME HtInv, NEW t \in Threads, Only(t), HtType', lk' = lk, nd'[t] = nd[t],
         HtTransit(t), pc'[t] = "posix", batch' = batch + 1
  PROVE  HtInv'
  <1>1. "posix" \in HeldPcs
    BY DEF HeldPcs
  <1>2. Hold(t)' /\ HtOwns(t)' /\ HtLead(t)' /\ HtOwns(t) /\ HtLead(t)
        /\ ~HtFollows(t) /\ ~HtFollows(t)' /\ ~HtTransit(t)'
    BY <1>1 DEF Hold, HtOwns, HtLead, HtFollows, HtTransit
  <1>3. nd[t] \in NumaNodes /\ lk.local[nd[t]].grant \in 0..NB_TICKETS_LOCAL
    BY DEF HtInv, HtType, HtLocal, HtGrant
  <1>4. batch + lk.local[nd[t]].grant < NB_TICKETS_LOCAL
    BY DEF HtInv, HtKnows
  <1>5. NB_TICKETS_LOCAL \in Nat /\ batch \in 0..NB_TICKETS_LOCAL
    BY NumaLocksAssumption DEF HtInv
  <1>6. batch' \in 0..NB_TICKETS_LOCAL /\ batch' + lk.local[nd[t]].grant <= NB_TICKETS_LOCAL
    BY <1>3, <1>4, <1>5
  <1>7. HtKnows(t)'
    BY <1>2, <1>6 DEF HtKnows
  <1> QED
    BY <1>2, <1>6, <1>7, HtQuiet DEF HtTransit

\* Between the tickets and the leader there is no room for who is to fetch more.
LEMMA HtRoom ==
  ASSUME HtInv, NEW t \in Threads, pc[t] = "fetch", HtGrant(nd[t]) = NB_TICKETS_LOCAL
  PROVE  ~HtLed(nd[t])
  <1> DEFINE n == nd[t]
  <1> SUFFICES ASSUME HtLed(n)
               PROVE  FALSE
    OBVIOUS
  <1>1. PICK l \in Threads : HtLead(l) /\ nd[l] = n
    BY DEF HtLed
  <1>2. n \in NumaNodes /\ HtLocal(n)
    BY DEF HtInv, HtType
  <1>3. \A k \in 0..NB_TICKETS_LOCAL - 1 : \E u \in Threads : HtBehind(u, n) /\ loc[u] = k
    BY <1>2 DEF HtLocal
  <1> DEFINE f == [k \in 0..NB_TICKETS_LOCAL - 1 |-> CHOOSE u \in Threads : HtBehind(u, n) /\ loc[u] = k]
             S == Threads \ {t, l}
  <1>4. \A k \in 0..NB_TICKETS_LOCAL - 1 : f[k] \in Threads /\ HtBehind(f[k], n) /\ loc[f[k]] = k
    BY <1>3
  <1>5. ~HtFollows(l) /\ ~HtFollows(t) /\ l # t
    BY <1>1, NumaPcs DEF HtFollows, HtLead, Hold, HtTransit
  <1>6. \A k \in 0..NB_TICKETS_LOCAL - 1 : f[k] \in S
    BY <1>4, <1>5 DEF HtBehind
  <1>7. f \in Injection(0..NB_TICKETS_LOCAL - 1, S)
    <2>1. f \in [0..NB_TICKETS_LOCAL - 1 -> S]
      BY <1>6
    <2>2. \A j, k \in 0..NB_TICKETS_LOCAL - 1 : f[j] = f[k] => j = k
      BY <1>4
    <2> HIDE DEF f
    <2> QED
      BY <2>1, <2>2 DEF Injection, IsInjective
  <1>8. IsFiniteSet(Threads) /\ NB_TICKETS_LOCAL \in Nat \ {0}
    BY NumaLocksAssumption
  <1>9. IsFiniteSet(S) /\ Cardinality(S) = Cardinality(Threads) - 2 /\ Cardinality(Threads) \in Nat
    <2>1. IsFiniteSet(Threads \ {t}) /\ Cardinality(Threads \ {t}) = Cardinality(Threads) - 1
      BY <1>8, FS_RemoveElement
    <2>2. l \in Threads \ {t}
      BY <1>1, <1>5
    <2>3. IsFiniteSet((Threads \ {t}) \ {l}) /\ Cardinality((Threads \ {t}) \ {l}) = Cardinality(Threads \ {t}) - 1
      BY <2>1, <2>2, FS_RemoveElement
    <2>4. S = (Threads \ {t}) \ {l}
      OBVIOUS
    <2>5. Cardinality(Threads) \in Nat
      BY <1>8, FS_CardinalityType
    <2> QED
      BY <2>1, <2>3, <2>4, <2>5
  <1>10. IsFiniteSet(0..NB_TICKETS_LOCAL - 1) /\ Cardinality(0..NB_TICKETS_LOCAL - 1) = NB_TICKETS_LOCAL
    <2>1. NB_TICKETS_LOCAL - 1 \in Int /\ 0 \in Int /\ ~(0 > NB_TICKETS_LOCAL - 1)
      BY <1>8
    <2>2. IsFiniteSet(0..NB_TICKETS_LOCAL - 1) /\ Cardinality(0..NB_TICKETS_LOCAL - 1) = (NB_TICKETS_LOCAL - 1) - 0 + 1
      BY <2>1, FS_Interval
    <2> QED
      BY <1>8, <2>2
  <1>11. Cardinality(0..NB_TICKETS_LOCAL - 1) <= Cardinality(S)
    <2> HIDE DEF f, S
    <2> QED
      BY <1>7, <1>9, FS_Injection
  <1>12. Cardinality(Threads) <= NB_TICKETS_LOCAL + 1
    BY DEF HtInv
  <1> QED
    BY <1>8, <1>9, <1>10, <1>11, <1>12

\* New tickets for those that draw while t fetches the global lock.
LEMMA HtNewTickets ==
  ASSUME HtInv, NEW t \in Threads, NEW n \in NumaNodes, n = nd[t], Only(t), HtType', batch' = batch,
         pc[t] = "fetch", pc'[t] = "top", HtGrant(n) = NB_TICKETS_LOCAL, nd'[t] = n,
         HtReq(n)' = NB_TICKETS_LOCAL, HtGrant(n)' = HtGrant(n), lk'.global = lk.global,
         \A m \in NumaNodes \ {n} : lk'.local[m] = lk.local[m]
  PROVE  HtInv'
  <1>1. \A u \in Threads \ {t} : pc'[u] = pc[u] /\ nd'[u] = nd[u] /\ loc'[u] = loc[u]
    BY DEF Only
  <1>2. ~Hold(t) /\ ~HtTransit(t) /\ ~HtOwns(t) /\ ~HtLead(t) /\ ~HtFollows(t)
        /\ ~Hold(t)' /\ ~HtTransit(t)' /\ ~HtOwns(t)' /\ HtLead(t)' /\ ~HtFollows(t)'
    BY NumaPcs DEF Hold, HtTransit, HtOwns, HtLead, HtFollows
  <1>3. ~HtLed(n) /\ HtLocal(n) /\ \A u \in Threads : nd[u] \in NumaNodes
    BY HtRoom DEF HtInv, HtType
  <1>4. \A m \in NumaNodes : lk'.local[m].grant = lk.local[m].grant
    BY DEF HtGrant
  <1>5. \A u \in Threads \ {t} :
           /\ Hold(u)' <=> Hold(u)
           /\ HtTransit(u)' <=> HtTransit(u)
           /\ HtOwns(u)' <=> HtOwns(u)
           /\ HtLead(u)' <=> HtLead(u)
           /\ HtFollows(u)' <=> HtFollows(u)
    BY <1>3, <1>4, HtOthers
  <1>6. HtLed(n)' /\ (\A u \in Threads : ~HtBehind(u, n)') /\ ~\E u \in Threads \ {t} : HtLead(u) /\ nd[u] = n
    BY <1>1, <1>2, <1>3, <1>5 DEF HtLed, HtBehind, HtLocal
  <1>7. \A u \in Threads : ~(pc'[u] = "fetch" /\ nd'[u] = n)
    BY <1>1 DEF HtInv, HtAlone
  <1>8. HtLocal(n)'
    <2>1. NB_TICKETS_LOCAL \in Nat
      BY NumaLocksAssumption
    <2>2. HtReq(n)' = NB_TICKETS_LOCAL /\ HtGrant(n)' = NB_TICKETS_LOCAL
      OBVIOUS
    <2> QED
      BY <1>6, <1>7, <2>1, <2>2 DEF HtLocal
  <1>9. \A m \in NumaNodes : HtLocal(m)'
    <2>1. nd[t] = n \/ pc[t] \in {"lock", "again"}
      OBVIOUS
    <2> QED
      BY <1>8, <2>1, HtElsewhere
  <1>10. HtAlone'
    <2>1. \A u \in Threads : HtOwns(u)' => HtOwns(u)
      BY <1>2, <1>5
    <2>2. \A u, v \in Threads : HtLead(u)' /\ HtLead(v)' /\ nd'[u] = nd'[v] => u = v
      <3> SUFFICES ASSUME NEW u \in Threads, NEW v \in Threads, HtLead(u)', HtLead(v)', nd'[u] = nd'[v]
                   PROVE  u = v
        OBVIOUS
      <3>1. (u = t => v = t) /\ (v = t => u = t)
        BY <1>1, <1>5, <1>6
      <3>2. u # t /\ v # t => u = v
        BY <1>1, <1>5 DEF HtInv, HtAlone
      <3> QED
        BY <3>1, <3>2
    <2>3. \A u, v \in Threads : pc'[u] = "fetch" /\ pc'[v] = "fetch" /\ nd'[u] = nd'[v] => u = v
      BY <1>1 DEF HtInv, HtAlone
    <2>4. \A u \in Threads : HtFollows(u)' => HtFollows(u) /\ u # t
      BY <1>2, <1>5
    <2>5. \A u, v \in Threads : HtFollows(u)' /\ HtFollows(v)' /\ nd'[u] = nd'[v] /\ loc'[u] = loc'[v] => u = v
      BY <1>1, <2>4 DEF HtInv, HtAlone
    <2>6. \A u, v \in Threads : HtOwns(u)' /\ HtOwns(v)' => u = v
      BY <2>1 DEF HtInv, HtAlone
    <2> QED
      BY <2>2, <2>3, <2>5, <2>6 DEF HtAlone
  <1>11. HtGlobal'
    <2>1. (\E u \in Threads : HtOwns(u)') <=> (\E u \in Threads : HtOwns(u))
      BY <1>2, <1>5
    <2>2. \A u \in Threads : /\ pc'[u] = "topspin" <=> pc[u] = "topspin"
                             /\ pc[u] = "topspin" => loc'[u] = loc[u]
      BY <1>1
    <2> QED
      BY <2>1, <2>2, HtGlobalKept DEF HtInv
  <1>12. \A u \in Threads : HtKnows(u)'
    <2> TAKE u \in Threads
    <2>1. CASE u = t
      BY <2>1, <1>2 DEF HtKnows, HtGrant
    <2>2. CASE u # t
      <3>1. HtKnows(u) /\ pc'[u] = pc[u] /\ nd'[u] = nd[u] /\ (Hold(u)' <=> Hold(u)) /\ (HtTransit(u)' <=> HtTransit(u))
            /\ nd[u] \in NumaNodes
        BY <1>1, <1>3, <1>5, <2>2 DEF HtInv
      <3>2. pc[u] = "pass" => nd[u] # n
        <4>1. "pass" \in HeldPcs
          BY DEF HeldPcs, UnlockPcs
        <4> QED
          BY <4>1, <1>6, <2>2 DEF HtLead, Hold
      <3> QED
        BY <3>1, <3>2, <1>4 DEF HtKnows
    <2> QED
      BY <2>1, <2>2
  <1> QED
    BY <1>9, <1>10, <1>11, <1>12 DEF HtInv

\* t waits for the global lock.
LEMMA HtTopTicket ==
  ASSUME HtInv, NEW t \in Threads, Only(t), HtType', batch' = batch, nd'[t] = nd[t],
         pc[t] = "top", pc'[t] = "topspin", loc'[t] = lk.global.request,
         lk'.global.request = (lk.global.request + 1) % TicketMod,
         lk'.global.grant = lk.global.grant, lk'.local = lk.local
  PROVE  HtInv'
  <1>1. \A u \in Threads \ {t} : pc'[u] = pc[u] /\ nd'[u] = nd[u] /\ loc'[u] = loc[u]
    BY DEF Only
  <1>2. \A u \in Threads \ {t} :
           /\ Hold(u)' <=> Hold(u)
           /\ HtTransit(u)' <=> HtTransit(u)
           /\ HtOwns(u)' <=> HtOwns(u)
           /\ HtLead(u)' <=> HtLead(u)
           /\ HtFollows(u)' <=> HtFollows(u)
    BY HtOthers
  <1>3. ~Hold(t) /\ ~HtTransit(t) /\ ~HtOwns(t) /\ HtLead(t) /\ ~HtFollows(t)
        /\ ~Hold(t)' /\ ~HtTransit(t)' /\ ~HtOwns(t)' /\ HtLead(t)' /\ ~HtFollows(t)'
    BY NumaPcs DEF Hold, HtTransit, HtOwns, HtLead, HtFollows
  <1>4. \A n \in NumaNodes : HtLocal(n)'
    BY <1>1, <1>2, <1>3, HtLocalKept DEF HtInv, HtBehind
  <1>5. HtAlone'
    <2>1. \A u \in Threads : nd'[u] = nd[u] /\ (HtOwns(u)' <=> HtOwns(u)) /\ (HtLead(u)' <=> HtLead(u))
                             /\ (HtFollows(u)' <=> HtFollows(u)) /\ (HtFollows(u) => loc'[u] = loc[u])
                             /\ (pc'[u] = "fetch" => pc[u] = "fetch")
      BY <1>1, <1>2, <1>3
    <2> QED
      BY <2>1 DEF HtInv, HtAlone
  <1>6. HtGlobal'
    <2>1. HtOwned' = HtOwned
      BY <1>2, <1>3 DEF HtOwned
    <2>2. HtTopWaits' = HtTopWaits \cup {t} /\ t \notin HtTopWaits /\ \A u \in HtTopWaits : loc'[u] = loc[u]
      BY <1>1 DEF HtTopWaits
    <2>3. TicketAt(lk.global.request, lk.global.grant, HtOwned, HtTopWaits, loc)
      BY DEF HtInv, HtGlobal
    <2>4. HtOwned + Cardinality(HtTopWaits) + 1 < TicketMod
      <3>1. /\ IsFiniteSet(Threads) /\ Cardinality(Threads) < TicketMod /\ TicketMod \in Nat
            /\ IsFiniteSet(HtTopWaits) /\ Cardinality(HtTopWaits) \in Nat /\ Cardinality(Threads) \in Nat
        BY <2>3, TicketFacts, NumaLocksAssumption, FS_CardinalityType
      <3>2. IsFiniteSet(HtTopWaits \cup {t}) /\ Cardinality(HtTopWaits \cup {t}) = Cardinality(HtTopWaits) + 1
        BY <2>2, <3>1, FS_AddElement
      <3>3. CASE \E o \in Threads : HtOwns(o)
        <4>1. PICK o \in Threads : HtOwns(o)
          BY <3>3
        <4>2. o \notin HtTopWaits \cup {t}
          BY <1>3, <4>1, NumaPcs DEF HtTopWaits, HtOwns, HtTransit, Hold
        <4>3. /\ IsFiniteSet((HtTopWaits \cup {t}) \cup {o})
              /\ Cardinality((HtTopWaits \cup {t}) \cup {o}) = Cardinality(HtTopWaits \cup {t}) + 1
          BY <3>2, <4>2, FS_AddElement
        <4>4. (HtTopWaits \cup {t}) \cup {o} \subseteq Threads
          BY DEF HtTopWaits
        <4>5. Cardinality((HtTopWaits \cup {t}) \cup {o}) <= Cardinality(Threads)
          BY <3>1, <4>4, FS_Subset
        <4>6. HtOwned = 1
          BY <3>3 DEF HtOwned
        <4> QED
          BY <3>1, <3>2, <4>3, <4>5, <4>6
      <3>4. CASE ~\E o \in Threads : HtOwns(o)
        <4>1. HtTopWaits \cup {t} \subseteq Threads
          BY DEF HtTopWaits
        <4>2. Cardinality(HtTopWaits \cup {t}) <= Cardinality(Threads)
          BY <3>1, <4>1, FS_Subset
        <4>3. HtOwned = 0
          BY <3>4 DEF HtOwned
        <4> QED
          BY <3>1, <3>2, <4>2, <4>3
      <3> QED
        BY <3>3, <3>4
    <2>5. TicketAt((lk.global.request + 1) % TicketMod, lk.global.grant, HtOwned, HtTopWaits \cup {t}, loc')
      BY <2>2, <2>3, <2>4, TicketDrawn
    <2> QED
      BY <2>1, <2>2, <2>5 DEF HtGlobal
  <1>7. \A u \in Threads : HtKnows(u)'
    <2> SUFFICES ASSUME NEW u \in Threads
                 PROVE  HtKnows(u)'
      OBVIOUS
    <2>1. HtKnows(u)
      BY DEF HtInv
    <2>2. nd'[u] = nd[u] /\ (pc'[u] = pc[u] \/ u = t) /\ (Hold(u)' <=> Hold(u)) /\ (HtTransit(u)' <=> HtTransit(u))
      BY <1>1, <1>2, <1>3
    <2> QED
      BY <1>3, <2>1, <2>2 DEF HtKnows
  <1> QED
    BY <1>4, <1>5, <1>6, <1>7 DEF HtInv

\* t gets it, and a batch starts.
LEMMA HtTopGot ==
  ASSUME HtInv, NEW t \in Threads, Only(t), HtType', batch' = 0, nd'[t] = nd[t], lk' = lk,
         pc[t] = "topspin", pc'[t] = "posix", lk.global.grant = loc[t]
  PROVE  HtInv'
  <1>1. \A u \in Threads \ {t} : pc'[u] = pc[u] /\ nd'[u] = nd[u] /\ loc'[u] = loc[u]
    BY DEF Only
  <1>2. \A u \in Threads \ {t} :
           /\ Hold(u)' <=> Hold(u)
           /\ HtTransit(u)' <=> HtTransit(u)
           /\ HtOwns(u)' <=> HtOwns(u)
           /\ HtLead(u)' <=> HtLead(u)
           /\ HtFollows(u)' <=> HtFollows(u)
    BY HtOthers
  <1>3. ~Hold(t) /\ ~HtTransit(t) /\ ~HtOwns(t) /\ HtLead(t) /\ ~HtFollows(t)
    BY NumaPcs DEF Hold, HtTransit, HtOwns, HtLead, HtFollows
  <1>4. Hold(t)' /\ ~HtTransit(t)' /\ HtOwns(t)' /\ HtLead(t)' /\ ~HtFollows(t)'
    BY DEF Hold, HeldPcs, HtTransit, HtOwns, HtLead, HtFollows
  <1>5. HtOwned = 0 /\ TicketAt(lk.global.request, lk.global.grant, 1, HtTopWaits \ {t}, loc')
    <2>1. t \in HtTopWaits /\ \A u \in HtTopWaits \ {t} : loc'[u] = loc[u]
      BY <1>1 DEF HtTopWaits
    <2>2. TicketAt(lk.global.request, lk.global.grant, HtOwned, HtTopWaits, loc)
      BY DEF HtInv, HtGlobal
    <2>3. loc[t] = lk.global.grant
      OBVIOUS
    <2> QED
      BY <2>1, <2>2, <2>3, TicketGot
  <1>6. \A u \in Threads : ~HtOwns(u)
    BY <1>5 DEF HtOwned
  <1>7. HtGlobal'
    <2>1. HtOwned' = 1
      BY <1>4 DEF HtOwned
    <2>2. HtTopWaits' = HtTopWaits \ {t}
      BY <1>1 DEF HtTopWaits
    <2> QED
      BY <1>5, <2>1, <2>2 DEF HtGlobal
  <1>8. \A n \in NumaNodes : HtLocal(n)'
    BY <1>1, <1>2, <1>3, <1>4, HtLocalKept DEF HtInv, HtBehind
  <1>9. HtAlone'
    <2>1. \A u \in Threads : nd'[u] = nd[u] /\ (HtLead(u)' <=> HtLead(u))
                             /\ (HtFollows(u)' <=> HtFollows(u)) /\ (HtFollows(u) => loc'[u] = loc[u])
                             /\ (pc'[u] = "fetch" => pc[u] = "fetch")
      BY <1>1, <1>2, <1>3, <1>4
    <2>2. \A u \in Threads : HtOwns(u)' => u = t
      BY <1>2, <1>6
    <2> QED
      BY <2>1, <2>2 DEF HtInv, HtAlone
  <1>10. \A u \in Threads : HtKnows(u)'
    <2> SUFFICES ASSUME NEW u \in Threads
                 PROVE  HtKnows(u)'
      OBVIOUS
    <2>1. HtKnows(u) /\ NB_TICKETS_LOCAL \in Nat
      BY NumaLocksAssumption DEF HtInv
    <2>2. CASE u # t
      BY <1>1, <1>2, <1>6, <2>1, <2>2 DEF HtKnows, HtOwns
    <2>3. CASE u = t
      <3>1. lk.local[nd[t]].grant = NB_TICKETS_LOCAL
        BY <2>1, <2>3 DEF HtKnows
      <3>2. batch' + lk'.local[nd'[t]].grant <= NB_TICKETS_LOCAL
        BY <2>1, <3>1
      <3> QED
        BY <1>4, <2>3, <3>2 DEF HtKnows
    <2> QED
      BY <2>2, <2>3
  <1>11. batch' \in 0..NB_TICKETS_LOCAL
    BY NumaLocksAssumption
  <1> QED
    BY <1>7, <1>8, <1>9, <1>10, <1>11 DEF HtInv

\* The holder finds a waiter behind it or not.
LEMMA HtCas ==
  ASSUME HtInv, NEW t \in Threads, NEW n \in NumaNodes, n = nd[t], Only(t), HtType', batch' = batch, nd'[t] = n,
         pc[t] = "unlock", HtGrant(n)' = HtGrant(n), lk'.global = lk.global,
         pc'[t] = IF HtGrant(n) \in {0, HtReq(n)} THEN "refill" ELSE "pass",
         HtReq(n)' = IF HtReq(n) = HtGrant(n) THEN 0 ELSE HtReq(n),
         \A m \in NumaNodes \ {n} : lk'.local[m] = lk.local[m]
  PROVE  HtInv'
  <1>1. \A u \in Threads \ {t} : pc'[u] = pc[u] /\ nd'[u] = nd[u] /\ loc'[u] = loc[u]
    BY DEF Only
  <1>2. HtLocal(n) /\ \A u \in Threads : nd[u] \in NumaNodes
    BY DEF HtInv, HtType
  <1>3. \A m \in NumaNodes : lk'.local[m].grant = lk.local[m].grant
    BY DEF HtGrant
  <1>4. \A u \in Threads \ {t} :
           /\ Hold(u)' <=> Hold(u)
           /\ HtTransit(u)' <=> HtTransit(u)
           /\ HtOwns(u)' <=> HtOwns(u)
           /\ HtLead(u)' <=> HtLead(u)
           /\ HtFollows(u)' <=> HtFollows(u)
    BY <1>2, <1>3, HtOthers
  <1>5. {"unlock", "refill", "pass"} \subseteq HeldPcs
    BY DEF HeldPcs, UnlockPcs
  <1>6. Hold(t) /\ ~HtTransit(t) /\ HtOwns(t) /\ HtLead(t) /\ ~HtFollows(t)
    BY <1>5 DEF Hold, HtTransit, HtOwns, HtLead, HtFollows
  <1>7. Hold(t)' /\ ~HtTransit(t)' /\ HtOwns(t)' /\ ~HtFollows(t)' /\ (HtLead(t)' <=> pc'[t] = "pass")
    <2>1. pc'[t] \in {"refill", "pass"}
      OBVIOUS
    <2> QED
      BY <1>5, <2>1 DEF Hold, HtTransit, HtOwns, HtLead, HtFollows
  <1>8. /\ HtLed(n) /\ HtReq(n) \in Int /\ HtGrant(n) \in 0..NB_TICKETS_LOCAL /\ HtReq(n) <= HtGrant(n)
        /\ HtReq(n) <= NB_TICKETS_LOCAL
        /\ NB_TICKETS_LOCAL \in Nat
    BY <1>2, <1>6, NumaLocksAssumption DEF HtLocal, HtLed
  <1>9. /\ \A u \in Threads : HtBehind(u, n)' <=> HtBehind(u, n)
        /\ \A u \in Threads : HtBehind(u, n) => loc'[u] = loc[u]
        /\ HtLed(n)' <=> pc'[t] = "pass"
    <2>1. \A u \in Threads \ {t} : ~(HtLead(u)' /\ nd'[u] = n)
      BY <1>1, <1>4, <1>6 DEF HtInv, HtAlone
    <2> QED
      BY <1>1, <1>4, <1>6, <1>7, <2>1 DEF HtBehind, HtLed
  <1>10. HtLocal(n)'
    <2>1. CASE pc'[t] = "pass"
      <3>1. HtReq(n)' = HtReq(n)
        BY <2>1, <1>8
      <3>2. \A k : (\E u \in Threads : HtBehind(u, n) /\ loc[u] = k) => \E u \in Threads : HtBehind(u, n)' /\ loc'[u] = k
        BY <1>9
      <3> QED
        BY <1>1, <1>2, <1>8, <1>9, <2>1, <3>1, <3>2 DEF HtLocal
    <2>2. CASE pc'[t] = "refill"
      <3>1. HtGrant(n) = 0 \/ HtGrant(n) = HtReq(n)
        BY <2>2
      <3>2. HtReq(n)' <= 0 /\ HtReq(n)' \in Int
        BY <1>8, <3>1
      <3>3. \A u \in Threads : ~HtBehind(u, n)
        <4>1. \A u \in Threads : HtBehind(u, n) => loc[u] \in HtReq(n)..HtGrant(n) - 1 /\ loc[u] \in Nat
          BY <1>2, <1>8 DEF HtLocal
        <4> QED
          BY <1>8, <3>1, <4>1
      <3>4. \A u \in Threads : pc'[u] = "fetch" /\ nd'[u] = n => HtReq(n)' < 0
        <4>1. \A u \in Threads : pc'[u] = "fetch" /\ nd'[u] = n => HtReq(n) < 0
          BY <1>1, <1>2, <2>2 DEF HtLocal
        <4>2. HtReq(n) < 0 => HtReq(n)' = HtReq(n)
          BY <1>8
        <4> QED
          BY <4>1, <4>2
      <3>5. ~HtLed(n)'
        BY <1>9, <2>2
      <3>6. HtReq(n)' <= NB_TICKETS_LOCAL /\ HtGrant(n)' \in 0..NB_TICKETS_LOCAL
        BY <1>8, <3>2
      <3>7. \E u \in Threads : pc'[u] = "refill" /\ nd'[u] = n
        BY <2>2
      <3> QED
        BY <1>9, <3>2, <3>3, <3>4, <3>5, <3>6, <3>7 DEF HtLocal
    <2> QED
      BY <2>1, <2>2
  <1>11. \A m \in NumaNodes : HtLocal(m)'
    <2>1. nd[t] = n \/ pc[t] \in {"lock", "again"}
      OBVIOUS
    <2> QED
      BY <1>10, <2>1, HtElsewhere
  <1>12. HtAlone'
    <2>1. \A u \in Threads : nd'[u] = nd[u] /\ (HtOwns(u)' <=> HtOwns(u)) /\ (HtLead(u)' => HtLead(u))
                             /\ (HtFollows(u)' <=> HtFollows(u)) /\ (HtFollows(u) => loc'[u] = loc[u])
                             /\ (pc'[u] = "fetch" => pc[u] = "fetch")
      BY <1>1, <1>4, <1>6, <1>7
    <2> QED
      BY <2>1 DEF HtInv, HtAlone
  <1>13. HtGlobal'
    <2>1. \A u \in Threads : /\ pc'[u] = "topspin" <=> pc[u] = "topspin"
                             /\ pc[u] = "topspin" => loc'[u] = loc[u]
      BY <1>1
    <2> QED
      BY <1>4, <1>6, <1>7, <2>1, HtGlobalKept DEF HtInv
  <1>14. \A u \in Threads : HtKnows(u)'
    <2> SUFFICES ASSUME NEW u \in Threads
                 PROVE  HtKnows(u)'
      OBVIOUS
    <2>1. HtKnows(u) /\ nd[u] \in NumaNodes
      BY <1>2 DEF HtInv
    <2>2. CASE u # t
      <3>1. ~Hold(u) /\ ~HtTransit(u)
        BY <1>6, <2>2 DEF HtInv, HtAlone, HtOwns
      <3>2. pc'[u] = pc[u] /\ nd'[u] = nd[u] /\ ~Hold(u)' /\ ~HtTransit(u)' /\ pc[u] # "pass"
        BY <1>1, <1>4, <1>5, <2>2, <3>1 DEF Hold
      <3> QED
        BY <2>1, <3>2, <1>3 DEF HtKnows
    <2>3. CASE u = t
      <3>1. batch + HtGrant(n) <= NB_TICKETS_LOCAL
        BY <1>6, <2>1, <2>3 DEF HtKnows, HtGrant
      <3>2. lk'.local[n].grant = HtGrant(n) /\ lk'.local[n].request = HtReq(n)'
        BY <1>3 DEF HtGrant, HtReq
      <3>3. pc'[t] = "pass" => 0 < HtGrant(n) /\ HtReq(n)' < HtGrant(n)
        BY <1>8
      <3> QED
        BY <1>7, <2>3, <3>1, <3>2, <3>3 DEF HtKnows
    <2> QED
      BY <2>2, <2>3
  <1> QED
    BY <1>11, <1>12, <1>13, <1>14 DEF HtInv

\* No thread got a ticket behind the holder: another may fetch the global lock.
LEMMA HtRefill ==
  ASSUME HtInv, NEW t \in Threads, NEW n \in NumaNodes, n = nd[t], Only(t), HtType', batch' = batch, nd'[t] = n,
         pc[t] = "refill", pc'[t] = "topunlock", HtReq(n)' = HtReq(n), lk'.global = lk.global,
         HtGrant(n)' = NB_TICKETS_LOCAL,
         \A m \in NumaNodes \ {n} : lk'.local[m] = lk.local[m]
  PROVE  HtInv'
  <1>1. \A u \in Threads \ {t} : pc'[u] = pc[u] /\ nd'[u] = nd[u] /\ loc'[u] = loc[u]
    BY DEF Only
  <1>2. HtLocal(n) /\ \A u \in Threads : nd[u] \in NumaNodes
    BY DEF HtInv, HtType
  <1>3. {"topunlock", "refill", "pass"} \subseteq HeldPcs
    BY DEF HeldPcs, UnlockPcs
  <1>4. /\ Hold(t) /\ ~HtTransit(t) /\ HtOwns(t) /\ ~HtLead(t) /\ ~HtFollows(t)
        /\ Hold(t)' /\ ~HtTransit(t)' /\ HtOwns(t)' /\ ~HtLead(t)' /\ ~HtFollows(t)'
    BY <1>3 DEF Hold, HtTransit, HtOwns, HtLead, HtFollows
  <1>5. \A u \in Threads \ {t} : ~Hold(u) /\ ~HtTransit(u)
    BY <1>4 DEF HtInv, HtAlone, HtOwns
  <1>6. HtLed(n) => HtGrant(n) = NB_TICKETS_LOCAL
    <2> SUFFICES ASSUME NEW u \in Threads, HtLead(u), nd[u] = n
                 PROVE  HtGrant(n) = NB_TICKETS_LOCAL
      BY DEF HtLed
    <2>1. pc[u] \in {"top", "topspin"} /\ HtKnows(u)
      BY <1>4, <1>5 DEF HtLead, HtInv
    <2> QED
      BY <2>1 DEF HtKnows, HtGrant
  <1>7. \A u \in Threads \ {t} : pc[u] = "spin" => lk'.local[nd[u]].grant = lk.local[nd[u]].grant
    <2> SUFFICES ASSUME NEW u \in Threads \ {t}, pc[u] = "spin", nd[u] = n
                 PROVE  lk'.local[n].grant = lk.local[n].grant
      BY <1>2
    <2>1. HtBehind(u, n)
      BY <1>5 DEF HtBehind, HtFollows
    <2>2. HtLed(n)
      BY <1>2, <2>1 DEF HtLocal
    <2> QED
      BY <1>6, <2>2 DEF HtGrant
  <1>8. \A u \in Threads \ {t} :
           /\ Hold(u)' <=> Hold(u)
           /\ HtTransit(u)' <=> HtTransit(u)
           /\ HtOwns(u)' <=> HtOwns(u)
           /\ HtLead(u)' <=> HtLead(u)
           /\ HtFollows(u)' <=> HtFollows(u)
    BY <1>7, HtOthers
  <1>9. /\ HtLed(n)' <=> HtLed(n)
        /\ \A u \in Threads : HtBehind(u, n)' <=> HtBehind(u, n)
        /\ \A u \in Threads : HtBehind(u, n) => loc'[u] = loc[u]
    BY <1>1, <1>4, <1>8 DEF HtBehind, HtLed
  <1>10. HtLocal(n)'
    <2>1. \A u \in Threads : pc'[u] = "fetch" /\ nd'[u] = n => HtReq(n)' < 0
      BY <1>1, <1>2 DEF HtLocal
    <2>2. HtReq(n) \in Int /\ HtReq(n) <= NB_TICKETS_LOCAL /\ NB_TICKETS_LOCAL \in Nat
      BY <1>2, NumaLocksAssumption DEF HtLocal
    <2>3. CASE HtLed(n)
      <3>1. HtGrant(n)' = HtGrant(n)
        BY <1>6, <2>3
      <3>2. \A k : (\E u \in Threads : HtBehind(u, n) /\ loc[u] = k) => \E u \in Threads : HtBehind(u, n)' /\ loc'[u] = k
        BY <1>9
      <3> QED
        BY <1>2, <1>9, <2>1, <2>2, <2>3, <3>1, <3>2 DEF HtLocal
    <2>4. CASE ~HtLed(n)
      BY <1>2, <1>9, <2>1, <2>2, <2>4 DEF HtLocal
    <2> QED
      BY <2>3, <2>4
  <1>11. \A m \in NumaNodes : HtLocal(m)'
    <2>1. nd[t] = n \/ pc[t] \in {"lock", "again"}
      OBVIOUS
    <2> QED
      BY <1>10, <2>1, HtElsewhere
  <1>12. HtAlone'
    <2>1. \A u \in Threads : nd'[u] = nd[u] /\ (HtOwns(u)' <=> HtOwns(u)) /\ (HtLead(u)' <=> HtLead(u))
                             /\ (HtFollows(u)' <=> HtFollows(u)) /\ (HtFollows(u) => loc'[u] = loc[u])
                             /\ (pc'[u] = "fetch" => pc[u] = "fetch")
      BY <1>1, <1>4, <1>8
    <2> QED
      BY <2>1 DEF HtInv, HtAlone
  <1>13. HtGlobal'
    <2>1. \A u \in Threads : /\ pc'[u] = "topspin" <=> pc[u] = "topspin"
                             /\ pc[u] = "topspin" => loc'[u] = loc[u]
      BY <1>1
    <2> QED
      BY <1>4, <1>8, <2>1, HtGlobalKept DEF HtInv
  <1>14. \A u \in Threads : HtKnows(u)'
    <2> SUFFICES ASSUME NEW u \in Threads \ {t}
                 PROVE  HtKnows(u)'
      BY <1>4 DEF HtKnows
    <2>1. HtKnows(u) /\ nd[u] \in NumaNodes
      BY <1>2 DEF HtInv
    <2>2. pc'[u] = pc[u] /\ nd'[u] = nd[u] /\ ~Hold(u)' /\ ~HtTransit(u)' /\ pc[u] # "pass"
      BY <1>1, <1>3, <1>5, <1>8 DEF Hold
    <2>3. nd[u] = n => lk'.local[nd[u]].grant = NB_TICKETS_LOCAL
      BY DEF HtGrant
    <2>4. nd[u] # n => lk'.local[nd[u]] = lk.local[nd[u]]
      BY <2>1
    <2> QED
      BY <2>1, <2>2, <2>3, <2>4 DEF HtKnows
  <1> QED
    BY <1>11, <1>12, <1>13, <1>14 DEF HtInv

\* The global lock is granted to the next node.
LEMMA HtTopGrant ==
  ASSUME HtInv, NEW t \in Threads, Only(t), HtType', batch' = batch, nd'[t] = nd[t],
         pc[t] = "topunlock", pc'[t] \in RestPcs, lk'.local = lk.local,
         lk'.global.request = lk.global.request, lk'.global.grant = (lk.global.grant + 1) % TicketMod
  PROVE  HtInv'
  <1>1. \A u \in Threads \ {t} : pc'[u] = pc[u] /\ nd'[u] = nd[u] /\ loc'[u] = loc[u]
    BY DEF Only
  <1>2. \A u \in Threads \ {t} :
           /\ Hold(u)' <=> Hold(u)
           /\ HtTransit(u)' <=> HtTransit(u)
           /\ HtOwns(u)' <=> HtOwns(u)
           /\ HtLead(u)' <=> HtLead(u)
           /\ HtFollows(u)' <=> HtFollows(u)
    BY HtOthers
  <1>3. "topunlock" \in HeldPcs /\ pc'[t] \notin {"spin", "fetch", "top", "topspin", "pass", "refill"}
    BY DEF HeldPcs, UnlockPcs, RestPcs
  <1>4. Hold(t) /\ ~HtTransit(t) /\ HtOwns(t) /\ ~HtLead(t) /\ ~HtFollows(t)
    BY <1>3 DEF Hold, HtTransit, HtOwns, HtLead, HtFollows
  <1>5. ~Hold(t)' /\ ~HtTransit(t)' /\ ~HtOwns(t)' /\ ~HtLead(t)' /\ ~HtFollows(t)'
    BY <1>3, NotHeld DEF Hold, HtTransit, HtOwns, HtLead, HtFollows
  <1>6. \A u \in Threads : ~HtOwns(u)'
    BY <1>2, <1>4, <1>5 DEF HtInv, HtAlone
  <1>7. HtGlobal'
    <2>1. HtOwned = 1 /\ HtOwned' = 0
      BY <1>4, <1>6 DEF HtOwned
    <2>2. HtTopWaits' = HtTopWaits /\ \A u \in HtTopWaits : loc'[u] = loc[u]
      BY <1>1, <1>3 DEF HtTopWaits
    <2>3. TicketAt(lk.global.request, lk.global.grant, 1, HtTopWaits, loc)
      BY <2>1 DEF HtInv, HtGlobal
    <2>4. TicketAt(lk.global.request, (lk.global.grant + 1) % TicketMod, 0, HtTopWaits, loc')
      BY <2>2, <2>3, TicketGranted
    <2> QED
      BY <2>1, <2>2, <2>4 DEF HtGlobal
  <1>8. \A n \in NumaNodes : HtLocal(n)'
    BY <1>1, <1>2, <1>3, <1>4, <1>5, HtLocalKept DEF HtInv, HtBehind
  <1>9. HtAlone'
    <2>1. \A u \in Threads : nd'[u] = nd[u] /\ (HtLead(u)' <=> HtLead(u))
                             /\ (HtFollows(u)' <=> HtFollows(u)) /\ (HtFollows(u) => loc'[u] = loc[u])
                             /\ (pc'[u] = "fetch" => pc[u] = "fetch")
      BY <1>1, <1>2, <1>3, <1>4, <1>5
    <2> QED
      BY <1>6, <2>1 DEF HtInv, HtAlone
  <1>10. \A u \in Threads : HtKnows(u)'
    BY <1>1, <1>3, <1>5, <1>6 DEF HtInv, HtKnows, HtOwns
  <1> QED
    BY <1>7, <1>8, <1>9, <1>10 DEF HtInv

\* The next ticket of the node is granted, with the global lock.
LEMMA HtPass ==
  ASSUME HtInv, NEW t \in Threads, NEW n \in NumaNodes, n = nd[t], Only(t), HtType', batch' = batch, nd'[t] = n,
         pc[t] = "pass", pc'[t] \in RestPcs, HtReq(n)' = HtReq(n), lk'.global = lk.global,
         HtGrant(n)' = HtGrant(n) - 1,
         \A m \in NumaNodes \ {n} : lk'.local[m] = lk.local[m]
  PROVE  HtInv'
  <1>1. \A u \in Threads \ {t} : pc'[u] = pc[u] /\ nd'[u] = nd[u] /\ loc'[u] = loc[u]
    BY DEF Only
  <1>2. HtLocal(n) /\ \A u \in Threads : nd[u] \in NumaNodes
    BY DEF HtInv, HtType
  <1>3. "pass" \in HeldPcs /\ pc'[t] \notin {"spin", "fetch", "top", "topspin", "pass", "refill"}
    BY DEF HeldPcs, UnlockPcs, RestPcs
  <1>4. Hold(t) /\ ~HtTransit(t) /\ HtOwns(t) /\ HtLead(t) /\ ~HtFollows(t)
    BY <1>3 DEF Hold, HtTransit, HtOwns, HtLead, HtFollows
  <1>5. ~Hold(t)' /\ ~HtTransit(t)' /\ ~HtOwns(t)' /\ ~HtLead(t)' /\ ~HtFollows(t)'
    BY <1>3, NotHeld DEF Hold, HtTransit, HtOwns, HtLead, HtFollows
  <1>6. \A u \in Threads \ {t} : ~Hold(u) /\ ~HtTransit(u)
    BY <1>4 DEF HtInv, HtAlone, HtOwns
  <1>7. /\ HtLed(n) /\ HtReq(n) \in Int /\ HtReq(n) <= NB_TICKETS_LOCAL /\ NB_TICKETS_LOCAL \in Nat
        /\ HtGrant(n) \in 0..NB_TICKETS_LOCAL
        /\ \A u \in Threads : HtBehind(u, n) => loc[u] \in HtReq(n)..HtGrant(n) - 1 /\ loc[u] \in Nat
        /\ \A k \in 0..HtGrant(n) - 1 : HtReq(n) <= k => \E u \in Threads : HtBehind(u, n) /\ loc[u] = k
    BY <1>2, <1>4, NumaLocksAssumption DEF HtLocal, HtLed
  <1>8. 0 < HtGrant(n) /\ HtReq(n) < HtGrant(n) /\ batch + HtGrant(n) <= NB_TICKETS_LOCAL
    <2>1. HtKnows(t)
      BY DEF HtInv
    <2> QED
      BY <1>4, <2>1 DEF HtKnows, HtGrant, HtReq
  <1>9. PICK w \in Threads : HtBehind(w, n) /\ loc[w] = HtGrant(n) - 1
    <2>1. HtGrant(n) - 1 \in 0..HtGrant(n) - 1 /\ HtReq(n) <= HtGrant(n) - 1
      BY <1>7, <1>8
    <2> QED
      BY <1>7, <2>1
  <1>10. w # t /\ pc[w] = "spin" /\ nd[w] = n /\ HtFollows(w) /\ ~HtLead(w) /\ ~HtOwns(w)
    BY <1>4, <1>6, <1>9 DEF HtBehind, HtFollows, HtLead, HtOwns
  <1>11. HtTransit(w)' /\ HtLead(w)' /\ HtOwns(w)' /\ ~HtFollows(w)'
    BY <1>1, <1>9, <1>10 DEF HtTransit, HtLead, HtOwns, HtFollows, HtGrant
  <1>12. \A u \in Threads \ {t, w} : HtBehind(u, n) => loc[u] \in HtReq(n)..(HtGrant(n) - 1) - 1
    <2> SUFFICES ASSUME NEW u \in Threads \ {t, w}, HtBehind(u, n)
                 PROVE  loc[u] \in HtReq(n)..(HtGrant(n) - 1) - 1
      OBVIOUS
    <2>1. loc[u] # loc[w]
      BY <1>9 DEF HtBehind, HtInv, HtAlone
    <2> QED
      BY <1>7, <1>9, <2>1
  <1>13. \A u \in Threads \ {t, w} : /\ ~Hold(u)' /\ ~HtTransit(u)' /\ ~HtOwns(u)'
                                     /\ HtLead(u)' <=> HtLead(u)
                                     /\ HtFollows(u)' <=> HtFollows(u)
    <2> SUFFICES ASSUME NEW u \in Threads \ {t, w}
                 PROVE  /\ ~Hold(u)' /\ ~HtTransit(u)' /\ ~HtOwns(u)'
                        /\ HtLead(u)' <=> HtLead(u)
                        /\ HtFollows(u)' <=> HtFollows(u)
      OBVIOUS
    <2>1. pc'[u] = pc[u] /\ nd'[u] = nd[u] /\ loc'[u] = loc[u] /\ ~Hold(u) /\ ~HtTransit(u) /\ nd[u] \in NumaNodes
      BY <1>1, <1>2, <1>6
    <2>2. ~HtTransit(u)'
      <3>1. CASE nd[u] = n
        <4>1. pc[u] = "spin" => loc[u] # HtGrant(n) - 1
          BY <1>7, <1>12, <2>1, <3>1 DEF HtBehind, HtFollows
        <4> QED
          BY <2>1, <3>1, <4>1 DEF HtTransit, HtGrant
      <3>2. CASE nd[u] # n
        BY <2>1, <3>2 DEF HtTransit
      <3> QED
        BY <3>1, <3>2
    <2> QED
      BY <2>1, <2>2 DEF Hold, HtOwns, HtLead, HtFollows
  <1>14. /\ HtLed(n)'
         /\ \A u \in Threads : HtBehind(u, n)' <=> HtBehind(u, n) /\ u # w
         /\ \A u \in Threads : HtBehind(u, n) => loc'[u] = loc[u] /\ u # t
         /\ nd'[w] = n
    BY <1>1, <1>4, <1>5, <1>10, <1>11, <1>13 DEF HtBehind, HtLed
  <1>15. HtLocal(n)'
    <2>1. HtReq(n)' <= HtGrant(n)' /\ HtGrant(n)' \in 0..NB_TICKETS_LOCAL
      BY <1>7, <1>8
    <2>2. \A u \in Threads : pc'[u] = "fetch" /\ nd'[u] = n => HtReq(n)' < 0
      BY <1>1, <1>2, <1>3 DEF HtLocal
    <2>3. \A u \in Threads : HtBehind(u, n)' => loc'[u] \in HtReq(n)'..HtGrant(n)' - 1 /\ loc'[u] \in Nat
      BY <1>7, <1>12, <1>14
    <2>4. ASSUME NEW k \in 0..HtGrant(n)' - 1, HtReq(n)' <= k
          PROVE  \E u \in Threads : HtBehind(u, n)' /\ loc'[u] = k
      <3>1. k \in 0..HtGrant(n) - 1 /\ HtReq(n) <= k /\ k # HtGrant(n) - 1
        BY <1>7, <2>4
      <3>2. PICK u \in Threads : HtBehind(u, n) /\ loc[u] = k
        BY <1>7, <3>1
      <3>3. u # w
        BY <1>9, <3>1, <3>2
      <3> QED
        BY <1>14, <3>2, <3>3
    <2> QED
      BY <1>7, <1>14, <2>1, <2>2, <2>3, <2>4 DEF HtLocal
  <1>16. \A m \in NumaNodes : HtLocal(m)'
    <2>1. nd[t] = n \/ pc[t] \in {"lock", "again"}
      OBVIOUS
    <2> QED
      BY <1>15, <2>1, HtElsewhere
  <1>17. HtAlone'
    <2>1. \A u \in Threads : HtOwns(u)' => u = w
      BY <1>5, <1>13
    <2>2. \A u \in Threads : HtLead(u)' => nd'[u] = nd[u] /\ (u = w \/ (HtLead(u) /\ u # t))
      BY <1>1, <1>5, <1>13, <1>14
    <2>3. \A u \in Threads : HtLead(u)' /\ nd'[u] = n => u = w
      BY <1>4, <2>2 DEF HtInv, HtAlone
    <2>4. \A u, v \in Threads : HtLead(u)' /\ HtLead(v)' /\ nd'[u] = nd'[v] => u = v
      BY <1>14, <2>2, <2>3 DEF HtInv, HtAlone
    <2>5. \A u \in Threads : /\ HtFollows(u)' => HtFollows(u) /\ nd'[u] = nd[u] /\ loc'[u] = loc[u]
                             /\ pc'[u] = "fetch" => pc[u] = "fetch" /\ nd'[u] = nd[u]
      BY <1>1, <1>3, <1>5, <1>11, <1>13
    <2> QED
      BY <2>1, <2>4, <2>5 DEF HtInv, HtAlone
  <1>18. HtGlobal'
    <2>1. \A u \in Threads : /\ pc'[u] = "topspin" <=> pc[u] = "topspin"
                             /\ pc[u] = "topspin" => loc'[u] = loc[u]
      BY <1>1, <1>3
    <2>2. (\E u \in Threads : HtOwns(u)') <=> (\E u \in Threads : HtOwns(u))
      BY <1>4, <1>11
    <2> QED
      BY <2>1, <2>2, HtGlobalKept DEF HtInv
  <1>19. \A u \in Threads : HtKnows(u)'
    <2> SUFFICES ASSUME NEW u \in Threads
                 PROVE  HtKnows(u)'
      OBVIOUS
    <2>1. CASE u = t
      BY <1>3, <1>5, <2>1 DEF HtKnows
    <2>2. CASE u = w
      <3>1. batch' + lk'.local[nd'[w]].grant < NB_TICKETS_LOCAL
        <4>1. lk'.local[nd'[w]].grant = HtGrant(n) - 1 /\ batch' = batch /\ batch \in Int
          BY <1>14 DEF HtGrant, HtInv
        <4> QED
          BY <4>1, <1>7, <1>8
      <3>2. pc'[w] = "spin" /\ ~Hold(w)'
        BY <1>1, <1>10, NumaPcs DEF Hold
      <3> QED
        BY <2>2, <3>1, <3>2 DEF HtKnows
    <2>3. CASE u \notin {t, w}
      <3>1. HtKnows(u) /\ pc'[u] = pc[u] /\ nd'[u] = nd[u] /\ ~Hold(u)' /\ ~HtTransit(u)' /\ pc[u] # "pass"
            /\ nd[u] \in NumaNodes
        BY <1>1, <1>2, <1>3, <1>6, <1>13, <2>3 DEF HtInv, Hold
      <3>2. pc[u] \in {"top", "topspin"} => nd[u] # n
        BY <1>4, <2>3 DEF HtLead, HtInv, HtAlone
      <3> QED
        BY <3>1, <3>2 DEF HtKnows
    <2> QED
      BY <2>1, <2>2, <2>3
  <1> QED
    BY <1>16, <1>17, <1>18, <1>19 DEF HtInv

\* A ticket below -1 is drawn, for nothing.
LEMMA HtLow ==
  ASSUME HtInv, NEW t \in Threads, NEW n \in NumaNodes, Only(t), HtType', batch' = batch,
         pc[t] = "lock", pc'[t] = "again", nd'[t] = n, HtReq(n) < 0,
         HtReq(n)' \in Int, HtReq(n)' < 0, HtGrant(n)' = HtGrant(n), lk'.global = lk.global,
         \A m \in NumaNodes \ {n} : lk'.local[m] = lk.local[m]
  PROVE  HtInv'
  <1>1. \A u \in Threads \ {t} : pc'[u] = pc[u] /\ nd'[u] = nd[u] /\ loc'[u] = loc[u]
    BY DEF Only
  <1>2. ~Hold(t) /\ ~HtTransit(t) /\ ~HtOwns(t) /\ ~HtLead(t) /\ ~HtFollows(t)
    BY NumaPcs DEF Hold, HtTransit, HtOwns, HtLead, HtFollows
  <1>3. ~Hold(t)' /\ ~HtTransit(t)' /\ ~HtOwns(t)' /\ ~HtLead(t)' /\ ~HtFollows(t)'
    BY NumaPcs DEF Hold, HtTransit, HtOwns, HtLead, HtFollows
  <1>4. HtLocal(n) /\ \A u \in Threads : nd[u] \in NumaNodes
    BY DEF HtInv, HtType
  <1>5. \A m \in NumaNodes : lk'.local[m].grant = lk.local[m].grant
    BY DEF HtGrant
  <1>6. \A u \in Threads \ {t} :
           /\ Hold(u)' <=> Hold(u)
           /\ HtTransit(u)' <=> HtTransit(u)
           /\ HtOwns(u)' <=> HtOwns(u)
           /\ HtLead(u)' <=> HtLead(u)
           /\ HtFollows(u)' <=> HtFollows(u)
    BY <1>4, <1>5, HtOthers
  <1>7. /\ HtLed(n)' <=> HtLed(n)
        /\ \A u \in Threads : HtBehind(u, n)' <=> HtBehind(u, n)
        /\ \A u \in Threads : HtBehind(u, n) => u # t
    BY <1>1, <1>2, <1>3, <1>6 DEF HtLed, HtBehind
  <1>8. /\ HtReq(n) \in Int /\ HtGrant(n) \in 0..NB_TICKETS_LOCAL /\ NB_TICKETS_LOCAL \in Nat
        /\ HtGrant(n)' \in 0..NB_TICKETS_LOCAL
    BY <1>4, NumaLocksAssumption DEF HtLocal
  <1>9. HtLocal(n)'
    <2>1. ASSUME HtLed(n)
          PROVE  /\ HtReq(n)' <= HtGrant(n)'
                 /\ \A u \in Threads : HtBehind(u, n)' => loc'[u] \in HtReq(n)'..HtGrant(n)' - 1 /\ loc'[u] \in Nat
                 /\ \A k \in 0..HtGrant(n)' - 1 : HtReq(n)' <= k => \E u \in Threads : HtBehind(u, n)' /\ loc'[u] = k
      <3>1. HtReq(n)' <= HtGrant(n)'
        BY <1>8
      <3>2. ASSUME NEW u \in Threads, HtBehind(u, n)'
            PROVE  loc'[u] \in HtReq(n)'..HtGrant(n)' - 1 /\ loc'[u] \in Nat
        <4>1. loc[u] \in HtReq(n)..HtGrant(n) - 1 /\ loc[u] \in Nat /\ loc'[u] = loc[u]
          BY <1>1, <1>4, <1>7, <2>1, <3>2 DEF HtLocal
        <4> QED
          BY <4>1, <1>8
      <3>3. ASSUME NEW k \in 0..HtGrant(n)' - 1
            PROVE  \E u \in Threads : HtBehind(u, n)' /\ loc'[u] = k
        <4>1. k \in 0..HtGrant(n) - 1 /\ HtReq(n) <= k
          BY <1>8
        <4>2. PICK u \in Threads : HtBehind(u, n) /\ loc[u] = k
          BY <4>1, <1>4, <2>1 DEF HtLocal
        <4> QED
          BY <4>2, <1>1, <1>7
      <3> QED
        BY <3>1, <3>2, <3>3
    <2>2. ASSUME ~HtLed(n)
          PROVE  /\ HtReq(n)' <= 0
                 /\ \A u \in Threads : ~HtBehind(u, n)'
                 /\ HtGrant(n)' = NB_TICKETS_LOCAL \/ \E u \in Threads : pc'[u] = "refill" /\ nd'[u] = n
      <3>1. /\ \A u \in Threads : ~HtBehind(u, n)
            /\ HtGrant(n) = NB_TICKETS_LOCAL \/ \E u \in Threads : pc[u] = "refill" /\ nd[u] = n
        BY <1>4, <2>2 DEF HtLocal
      <3>2. (\E u \in Threads : pc[u] = "refill" /\ nd[u] = n) => \E u \in Threads : pc'[u] = "refill" /\ nd'[u] = n
        BY <1>1
      <3> QED
        BY <3>1, <3>2, <1>7
    <2>3. HtReq(n)' <= NB_TICKETS_LOCAL
      BY <1>8
    <2> QED
      BY <1>7, <1>8, <2>1, <2>2, <2>3 DEF HtLocal
  <1>10. \A m \in NumaNodes : HtLocal(m)'
    BY <1>9, HtElsewhere
  <1>11. HtAlone'
    <2>1. \A u \in Threads : HtOwns(u)' => HtOwns(u) /\ u # t
      BY <1>3, <1>6
    <2>2. \A u \in Threads : HtLead(u)' => HtLead(u) /\ nd'[u] = nd[u]
      BY <1>1, <1>3, <1>6
    <2>3. \A u \in Threads : pc'[u] = "fetch" => pc[u] = "fetch" /\ nd'[u] = nd[u]
      BY <1>1
    <2>4. \A u \in Threads : HtFollows(u)' => HtFollows(u) /\ nd'[u] = nd[u] /\ loc'[u] = loc[u]
      BY <1>1, <1>3, <1>6
    <2> QED
      BY <2>1, <2>2, <2>3, <2>4 DEF HtInv, HtAlone
  <1>12. HtGlobal'
    <2>1. (\E u \in Threads : HtOwns(u)') <=> (\E u \in Threads : HtOwns(u))
      BY <1>2, <1>3, <1>6
    <2>2. \A u \in Threads : /\ pc'[u] = "topspin" <=> pc[u] = "topspin"
                             /\ pc[u] = "topspin" => loc'[u] = loc[u]
      BY <1>1
    <2> QED
      BY <2>1, <2>2, HtGlobalKept DEF HtInv
  <1>13. \A u \in Threads : HtKnows(u)'
    <2> TAKE u \in Threads
    <2>1. CASE u = t
      BY <2>1, <1>3 DEF HtKnows
    <2>2. CASE u # t
      <3>1. HtKnows(u)
        BY DEF HtInv
      <3>2. pc'[u] = pc[u] /\ nd'[u] = nd[u] /\ (Hold(u)' <=> Hold(u)) /\ (HtTransit(u)' <=> HtTransit(u))
            /\ nd[u] \in NumaNodes
        BY <1>1, <1>4, <1>6, <2>2
      <3>3. lk'.local[nd[u]].grant = lk.local[nd[u]].grant
        BY <1>5, <3>2
      <3>4. lk'.local[nd[u]].request = lk.local[nd[u]].request \/ lk'.local[nd[u]].request < 0
        BY <3>2 DEF HtReq
      <3>5. lk.local[nd[u]].request \in Int /\ lk.local[nd[u]].grant \in Int /\ lk'.local[nd[u]].request \in Int
        BY <3>2 DEF HtInv, HtType
      <3> QED
        BY <3>1, <3>2, <3>3, <3>4, <3>5 DEF HtKnows
    <2> QED
      BY <2>1, <2>2
  <1> QED
    BY <1>10, <1>11, <1>12, <1>13 DEF HtInv

\* The steps of htlockepfl.c.
LEMMA HtMoves ==
  ASSUME ApiInv, HtType, NEW t \in Threads, NEW p, NEW q, Step(t, p, q), NEW v, NEW w,
         nd' = [nd EXCEPT ![t] = v], loc' = [loc EXCEPT ![t] = w], v \in NumaNodes
  PROVE  /\ pc[t] = p /\ pc'[t] = q /\ Only(t) /\ (Legal(t, p, q) => Allowed(t))
         /\ nd' \in [Threads -> NumaNodes] /\ loc' = [u \in Threads |-> loc'[u]]
         /\ nd'[t] = v /\ loc'[t] = w
  <1>1. /\ pc[t] = p /\ pc'[t] = q /\ \A u \in Threads \ {t} : pc'[u] = pc[u]
        /\ Legal(t, p, q) => Allowed(t)
    BY StepMoves
  <1>2. /\ nd' \in [Threads -> NumaNodes] /\ nd'[t] = v
        /\ \A u \in Threads \ {t} : nd'[u] = nd[u]
    BY DEF HtType
  <1>3. /\ loc' = [u \in Threads |-> loc'[u]] /\ loc'[t] = w
        /\ \A u \in Threads \ {t} : loc'[u] = loc[u]
    BY DEF HtType
  <1> QED
    BY <1>1, <1>2, <1>3 DEF Only

LEMMA HtLegal ==
  ASSUME NEW t \in Threads
  PROVE  /\ \A p, q \in {"lock", "again", "spin", "fetch", "top", "topspin"} : Legal(t, p, q)
         /\ Legal(t, "spin", "posix") /\ Legal(t, "topspin", "posix")
         /\ \A p, q \in {"unlock", "refill", "pass", "topunlock"} : Legal(t, p, q)
         /\ Legal(t, "topunlock", After(t)) /\ Legal(t, "pass", After(t))
  <1>1. {"unlock", "refill", "pass", "topunlock"} \subseteq UnlockPcs
    BY DEF UnlockPcs
  <1> QED
    BY <1>1, NumaPcs DEF Legal
\* The assignments to the lock, field by field.
LEMMA HtSetRequest ==
  ASSUME HtType, NEW n \in NumaNodes, NEW v \in Int, lk' = [lk EXCEPT !.local[n].request = v]
  PROVE  /\ lk'.local[n].request = v /\ lk'.local[n].grant = lk.local[n].grant
         /\ lk'.global = lk.global /\ \A m \in NumaNodes \ {n} : lk'.local[m] = lk.local[m]
         /\ lk' \in [global : [request : 0..TicketMod - 1, grant : 0..TicketMod - 1],
                     local : [NumaNodes -> [request : Int, grant : Int]]]
  BY DEF HtType

LEMMA HtSetGrant ==
  ASSUME HtType, NEW n \in NumaNodes, NEW v \in Int, lk' = [lk EXCEPT !.local[n].grant = v]
  PROVE  /\ lk'.local[n].grant = v /\ lk'.local[n].request = lk.local[n].request
         /\ lk'.global = lk.global /\ \A m \in NumaNodes \ {n} : lk'.local[m] = lk.local[m]
         /\ lk' \in [global : [request : 0..TicketMod - 1, grant : 0..TicketMod - 1],
                     local : [NumaNodes -> [request : Int, grant : Int]]]
  BY DEF HtType

LEMMA HtSetTop ==
  ASSUME HtType, NEW v \in 0..TicketMod - 1
  PROVE  /\ lk' = [lk EXCEPT !.global.request = v] =>
              /\ lk'.global.request = v /\ lk'.global.grant = lk.global.grant /\ lk'.local = lk.local
              /\ lk' \in [global : [request : 0..TicketMod - 1, grant : 0..TicketMod - 1],
                          local : [NumaNodes -> [request : Int, grant : Int]]]
         /\ lk' = [lk EXCEPT !.global.grant = v] =>
              /\ lk'.global.grant = v /\ lk'.global.request = lk.global.request /\ lk'.local = lk.local
              /\ lk' \in [global : [request : 0..TicketMod - 1, grant : 0..TicketMod - 1],
                          local : [NumaNodes -> [request : Int, grant : Int]]]
  BY DEF HtType

\* What t's step leaves of the lock's type, with its assignment to the lock.
LEMMA HtTyped ==
  ASSUME HtType, nd' \in [Threads -> NumaNodes], loc' = [u \in Threads |-> loc'[u]],
         \/ lk' = lk
         \/ lk' \in [global : [request : 0..TicketMod - 1, grant : 0..TicketMod - 1],
                     local : [NumaNodes -> [request : Int, grant : Int]]]
  PROVE  HtType'
  BY DEF HtType

\* The history variable, with t's steps to the lock and the others.
LEMMA HtBatched ==
  ASSUME HtInv, algo = "htlockepfl", NEW t \in Threads, Batched(t), pc[t] \notin {"posix", "tryposix"}
  PROVE  /\ pc'[t] \notin {"posix", "tryposix"} => batch' = batch
         /\ pc'[t] = "posix" /\ pc[t] = "topspin" => batch' = 0
         /\ pc'[t] = "posix" /\ pc[t] = "spin" => batch' = batch + 1
  <1>1. Limit = NB_TICKETS_LOCAL /\ NB_TICKETS_LOCAL \in Nat
    BY NumaLocksAssumption DEF Limit
  <1>2. batch \in 0..NB_TICKETS_LOCAL
    BY DEF HtInv
  <1>3. ~(batch > Limit)
    BY <1>1, <1>2
  <1> QED
    BY <1>3 DEF Batched, Acquires, TopPcs

LEMMA HtLocalDraw ==
  ASSUME ApiInv, HtInv, algo = "htlockepfl", NEW t \in Threads, Batched(t),
         NEW n \in NumaNodes, Ht!LocalTicket(t, n)
  PROVE  HtInv' /\ Allowed(t)
  <1> DEFINE k == HtReq(n) - 1
             q == IF k >= 0 THEN "spin" ELSE IF k = -1 THEN "fetch" ELSE "again"
  <1>1. /\ Step(t, "lock", q)
        /\ lk' = [lk EXCEPT !.local[n].request = IF @ < -1 THEN @ ELSE k]
        /\ nd' = [nd EXCEPT ![t] = n]
        /\ loc' = [loc EXCEPT ![t] = IF k >= 0 THEN k ELSE NULL]
    BY HtCalls DEF Ht!LocalTicket, HtReq
  <1>2. HtType /\ HtReq(n) \in Int /\ k \in Int
    BY DEF HtInv, HtType, HtReq
  <1>3. q \in {"lock", "again", "spin", "fetch", "top", "topspin"} /\ Legal(t, "lock", q)
    BY HtLegal
  <1>4. PICK v \in Int : /\ v = IF HtReq(n) < -1 THEN HtReq(n) ELSE k
                         /\ lk' = [lk EXCEPT !.local[n].request = v]
    BY <1>1, <1>2 DEF HtReq
  <1>5. /\ lk'.local[n].request = v /\ lk'.local[n].grant = lk.local[n].grant
        /\ lk'.global = lk.global /\ \A m \in NumaNodes \ {n} : lk'.local[m] = lk.local[m]
        /\ lk' \in [global : [request : 0..TicketMod - 1, grant : 0..TicketMod - 1],
                    local : [NumaNodes -> [request : Int, grant : Int]]]
    <2>1. HtType /\ lk' = [lk EXCEPT !.local[n].request = v]
      BY <1>2, <1>4
    <2> QED
      BY <2>1, HtSetRequest
  <1>6. HtReq(n)' = v /\ HtGrant(n)' = HtGrant(n)
    BY <1>5 DEF HtReq, HtGrant
  <1> HIDE DEF k, q
  <1>7. /\ pc[t] = "lock" /\ pc'[t] = q /\ Only(t) /\ Allowed(t)
        /\ nd' \in [Threads -> NumaNodes] /\ loc' = [u \in Threads |-> loc'[u]]
        /\ nd'[t] = n /\ loc'[t] = IF k >= 0 THEN k ELSE NULL
    BY <1>1, <1>2, <1>3, HtMoves
  <1>8. HtType'
    BY <1>2, <1>5, <1>7, HtTyped
  <1>9. batch' = batch
    BY <1>3, <1>7, HtBatched
  <1>10. CASE k >= -1
    <2>1. /\ pc'[t] = IF HtReq(n) - 1 >= 0 THEN "spin" ELSE "fetch"
          /\ HtReq(n) - 1 >= -1 /\ HtReq(n)' = HtReq(n) - 1
          /\ HtReq(n) - 1 >= 0 => loc'[t] = HtReq(n) - 1
      BY <1>2, <1>4, <1>6, <1>7, <1>10 DEF k, q
    <2> QED
      BY <2>1, <1>5, <1>6, <1>7, <1>8, <1>9, HtDraw
  <1>11. CASE ~(k >= -1)
    <2>1. /\ pc'[t] = "again" /\ HtReq(n) < 0 /\ HtReq(n)' < 0 /\ HtReq(n)' \in Int
      BY <1>2, <1>4, <1>6, <1>7, <1>11 DEF k, q
    <2> QED
      BY <2>1, <1>5, <1>6, <1>7, <1>8, <1>9, HtLow
  <1> QED
    BY <1>7, <1>10, <1>11

LEMMA HtDrawAgain ==
  ASSUME ApiInv, HtInv, algo = "htlockepfl", NEW t \in Threads, Batched(t), Ht!AgainLocal(t)
  PROVE  HtInv' /\ Allowed(t)
  <1>0. HtType /\ nd[t] \in NumaNodes
    BY DEF HtInv, HtType
  <1>1. PICK n \in NumaNodes : n = nd[t]
    BY <1>0
  <1> DEFINE k == HtReq(n) - 1
             q == IF k >= 0 THEN "spin" ELSE "fetch"
  <1>2. /\ Step(t, "again", q) /\ HtReq(n) > -1
        /\ lk' = [lk EXCEPT !.local[n].request = k]
        /\ nd' = [nd EXCEPT ![t] = n]
        /\ loc' = [loc EXCEPT ![t] = IF k >= 0 THEN k ELSE NULL]
    <2>1. nd' = [nd EXCEPT ![t] = n]
      BY <1>0, <1>1 DEF Ht!AgainLocal, HtType
    <2> QED
      BY <1>1, <2>1, HtCalls DEF Ht!AgainLocal, Ht!Local, HtReq
  <1>3. HtReq(n) \in Int /\ k \in Int
    BY <1>0 DEF HtType, HtReq
  <1>4. q \in {"lock", "again", "spin", "fetch", "top", "topspin"} /\ Legal(t, "again", q)
    BY HtLegal
  <1> HIDE DEF k, q
  <1>5. /\ lk'.local[n].request = k /\ lk'.local[n].grant = lk.local[n].grant
        /\ lk'.global = lk.global /\ \A m \in NumaNodes \ {n} : lk'.local[m] = lk.local[m]
        /\ lk' \in [global : [request : 0..TicketMod - 1, grant : 0..TicketMod - 1],
                    local : [NumaNodes -> [request : Int, grant : Int]]]
    BY <1>0, <1>2, <1>3, HtSetRequest
  <1>6. HtReq(n)' = k /\ HtGrant(n)' = HtGrant(n)
    BY <1>5 DEF HtReq, HtGrant
  <1>7. /\ pc[t] = "again" /\ pc'[t] = q /\ Only(t) /\ Allowed(t)
        /\ nd' \in [Threads -> NumaNodes] /\ loc' = [u \in Threads |-> loc'[u]]
        /\ nd'[t] = n /\ loc'[t] = IF k >= 0 THEN k ELSE NULL
    BY <1>0, <1>2, <1>4, HtMoves
  <1>8. HtType'
    BY <1>0, <1>5, <1>7, HtTyped
  <1>9. batch' = batch
    BY <1>4, <1>7, HtBatched
  <1>10. /\ pc'[t] = IF HtReq(n) - 1 >= 0 THEN "spin" ELSE "fetch"
         /\ HtReq(n) - 1 >= -1 /\ HtReq(n)' = HtReq(n) - 1
         /\ HtReq(n) - 1 >= 0 => loc'[t] = HtReq(n) - 1
    BY <1>2, <1>3, <1>6, <1>7 DEF k, q
  <1> QED
    BY <1>5, <1>6, <1>7, <1>8, <1>9, <1>10, HtDraw

\* A step that reads the lock, or writes one of its counters.
LEMMA HtReads ==
  ASSUME ApiInv, HtType, NEW t \in Threads, NEW p, NEW q, Step(t, p, q), Legal(t, p, q),
         nd' = nd, loc' = loc \/ \E w : loc' = [loc EXCEPT ![t] = w],
         \/ lk' = lk
         \/ lk' \in [global : [request : 0..TicketMod - 1, grant : 0..TicketMod - 1],
                     local : [NumaNodes -> [request : Int, grant : Int]]]
  PROVE  pc[t] = p /\ pc'[t] = q /\ Only(t) /\ HtType' /\ Allowed(t) /\ nd'[t] = nd[t]
  <1>1. nd' = [nd EXCEPT ![t] = nd[t]] /\ nd[t] \in NumaNodes
    BY DEF HtType
  <1>2. \E w : loc' = [loc EXCEPT ![t] = w]
    <2>1. loc' = loc => loc' = [loc EXCEPT ![t] = loc[t]]
      BY DEF HtType
    <2> QED
      BY <2>1
  <1>3. PICK w : loc' = [loc EXCEPT ![t] = w]
    BY <1>2
  <1>4. /\ pc[t] = p /\ pc'[t] = q /\ Only(t) /\ Allowed(t)
        /\ nd' \in [Threads -> NumaNodes] /\ loc' = [u \in Threads |-> loc'[u]]
        /\ nd'[t] = nd[t]
    BY <1>1, <1>3, HtMoves
  <1> QED
    BY <1>4, HtTyped

LEMMA HtStep ==
  ASSUME ApiInv, HtInv, algo = "htlockepfl", NEW t \in Threads, Calls(t), Batched(t)
  PROVE  HtInv' /\ (Allowed(t) \/ Wrapped(t))
  <1>0. HtType /\ nd[t] \in NumaNodes /\ TicketMod \in Nat \ {0} /\ NB_TICKETS_LOCAL \in Int
    <2>1. lk.global.request \in 0..TicketMod - 1 /\ TicketMod \in Nat
      BY NumaLocksAssumption DEF HtInv, HtType
    <2> QED
      BY <2>1, NumaLocksAssumption DEF HtInv, HtType
  <1>1. PICK n \in NumaNodes : n = nd[t]
    BY <1>0
  <1>2. \/ Wrapped(t)
        \/ \E m \in Ht!current_numa_node(t) : Ht!LocalTicket(t, m)
        \/ Ht!AgainLocal(t) \/ Ht!wait_local_ticket(t) \/ Ht!NewTickets(t)
        \/ Ht!GlobalTicket(t) \/ Ht!wait_global_ticket(t)
        \/ Ht!CasRequest(t) \/ Ht!Refill(t) \/ Ht!GlobalGrant(t) \/ Ht!LocalGrant(t)
    <2>1. Ht!htlockepfl(t)
      BY DEF Calls
    <2> QED
      BY <2>1, HtCalls, Zenon
      DEF Ht!htlockepfl, Ht!htlockepfl_mutex_lock, Ht!htlockepfl_mutex_unlock,
          Ht!htlockepfl_cond_timedwait, Wrapped
  <1>3. /\ HtReq(n) \in Int /\ HtGrant(n) \in Int /\ HtReq(n) = lk.local[n].request
        /\ HtGrant(n) = lk.local[n].grant /\ Ht!Local(t) = lk.local[n]
        /\ lk.global.request \in 0..TicketMod - 1 /\ lk.global.grant \in 0..TicketMod - 1
    BY <1>0, <1>1 DEF HtType, HtReq, HtGrant, Ht!Local
  <1>4. CASE Wrapped(t)
    BY <1>4, HtWrapped
  <1>5. CASE \E m \in Ht!current_numa_node(t) : Ht!LocalTicket(t, m)
    <2>1. \A m \in Ht!current_numa_node(t) : m \in NumaNodes
      BY LockApiAssumption DEF Ht!current_numa_node
    <2> QED
      BY <1>5, <2>1, HtLocalDraw
  <1>6. CASE Ht!AgainLocal(t)
    BY <1>6, HtDrawAgain
  <1>7. CASE Ht!wait_local_ticket(t)
    <2>1. /\ Step(t, "spin", "posix") /\ lk.local[nd[t]].grant = loc[t]
          /\ loc' = [loc EXCEPT ![t] = NULL] /\ lk' = lk /\ nd' = nd
      BY <1>1, <1>3, <1>7, HtCalls DEF Ht!wait_local_ticket
    <2>2. pc[t] = "spin" /\ pc'[t] = "posix" /\ Only(t) /\ HtType' /\ Allowed(t) /\ nd'[t] = nd[t]
      BY <1>0, <2>1, HtReads, HtLegal
    <2>3. HtTransit(t) /\ batch' = batch + 1
      BY <2>1, <2>2, HtBatched DEF HtTransit
    <2> QED
      BY <2>1, <2>2, <2>3, HtGot
  <1>8. CASE Ht!NewTickets(t)
    <2>1. /\ Step(t, "fetch", "top") /\ HtGrant(n) = NB_TICKETS_LOCAL
          /\ lk' = [lk EXCEPT !.local[n].request = NB_TICKETS_LOCAL] /\ nd' = nd /\ loc' = loc
      BY <1>1, <1>3, <1>8, HtCalls DEF Ht!NewTickets
    <2>2. /\ lk'.local[n].request = NB_TICKETS_LOCAL /\ lk'.local[n].grant = lk.local[n].grant
          /\ lk'.global = lk.global /\ \A m \in NumaNodes \ {n} : lk'.local[m] = lk.local[m]
          /\ lk' \in [global : [request : 0..TicketMod - 1, grant : 0..TicketMod - 1],
                      local : [NumaNodes -> [request : Int, grant : Int]]]
      BY <1>0, <2>1, HtSetRequest
    <2>3. pc[t] = "fetch" /\ pc'[t] = "top" /\ Only(t) /\ HtType' /\ Allowed(t) /\ nd'[t] = nd[t]
      BY <1>0, <2>1, <2>2, HtReads, HtLegal
    <2>4. batch' = batch /\ HtReq(n)' = NB_TICKETS_LOCAL /\ HtGrant(n)' = HtGrant(n)
      BY <2>2, <2>3, HtBatched DEF HtReq, HtGrant
    <2> QED
      BY <1>1, <2>1, <2>2, <2>3, <2>4, HtNewTickets
  <1>9. CASE Ht!GlobalTicket(t)
    <2>1. /\ Step(t, "top", "topspin") /\ nd' = nd /\ loc' = [loc EXCEPT ![t] = lk.global.request]
          /\ lk' = [lk EXCEPT !.global.request = (lk.global.request + 1) % TicketMod]
      BY <1>9, HtCalls DEF Ht!GlobalTicket, Ht!Plus1
    <2>2. (lk.global.request + 1) % TicketMod \in 0..TicketMod - 1
      BY <1>0, <1>3
    <2>3. /\ lk'.global.request = (lk.global.request + 1) % TicketMod
          /\ lk'.global.grant = lk.global.grant /\ lk'.local = lk.local
          /\ lk' \in [global : [request : 0..TicketMod - 1, grant : 0..TicketMod - 1],
                      local : [NumaNodes -> [request : Int, grant : Int]]]
      BY <1>0, <2>1, <2>2, HtSetTop
    <2>4. pc[t] = "top" /\ pc'[t] = "topspin" /\ Only(t) /\ HtType' /\ Allowed(t) /\ nd'[t] = nd[t]
      BY <1>0, <2>1, <2>3, HtReads, HtLegal
    <2>5. batch' = batch
      BY <2>4, HtBatched
    <2>6. loc'[t] = lk.global.request
      BY <1>0, <2>1 DEF HtType
    <2> QED
      BY <2>3, <2>4, <2>5, <2>6, HtTopTicket
  <1>10. CASE Ht!wait_global_ticket(t)
    <2>1. /\ Step(t, "topspin", "posix") /\ lk.global.grant = loc[t]
          /\ loc' = [loc EXCEPT ![t] = NULL] /\ lk' = lk /\ nd' = nd
      BY <1>10, HtCalls DEF Ht!wait_global_ticket
    <2>2. pc[t] = "topspin" /\ pc'[t] = "posix" /\ Only(t) /\ HtType' /\ Allowed(t) /\ nd'[t] = nd[t]
      BY <1>0, <2>1, HtReads, HtLegal
    <2>3. batch' = 0
      BY <2>2, HtBatched
    <2> QED
      BY <2>1, <2>2, <2>3, HtTopGot
  <1>11. CASE Ht!CasRequest(t)
    <2> DEFINE q == IF HtGrant(n) \in {0, HtReq(n)} THEN "refill" ELSE "pass"
               v == IF HtReq(n) = HtGrant(n) THEN 0 ELSE HtReq(n)
    <2>1. /\ Step(t, "unlock", q) /\ nd' = nd /\ loc' = loc
          /\ lk' = [lk EXCEPT !.local[n].request = v]
      BY <1>1, <1>3, <1>11, HtCalls DEF Ht!CasRequest
    <2>2. v \in Int /\ q \in {"refill", "pass"} /\ Legal(t, "unlock", q)
      BY <1>3, HtLegal
    <2> HIDE DEF q, v
    <2>3. /\ lk'.local[n].request = v /\ lk'.local[n].grant = lk.local[n].grant
          /\ lk'.global = lk.global /\ \A m \in NumaNodes \ {n} : lk'.local[m] = lk.local[m]
          /\ lk' \in [global : [request : 0..TicketMod - 1, grant : 0..TicketMod - 1],
                      local : [NumaNodes -> [request : Int, grant : Int]]]
      BY <1>0, <2>1, <2>2, HtSetRequest
    <2>4. pc[t] = "unlock" /\ pc'[t] = q /\ Only(t) /\ HtType' /\ Allowed(t) /\ nd'[t] = nd[t]
      BY <1>0, <2>1, <2>2, <2>3, HtReads
    <2>5. batch' = batch
      BY <2>2, <2>4, HtBatched
    <2>6. HtReq(n)' = v /\ HtGrant(n)' = HtGrant(n)
      BY <2>3 DEF HtReq, HtGrant
    <2>7. /\ pc'[t] = IF HtGrant(n) \in {0, HtReq(n)} THEN "refill" ELSE "pass"
          /\ HtReq(n)' = IF HtReq(n) = HtGrant(n) THEN 0 ELSE HtReq(n)
      BY <2>4, <2>6 DEF q, v
    <2> QED
      BY <1>1, <2>3, <2>4, <2>5, <2>6, <2>7, HtCas
  <1>12. CASE Ht!Refill(t)
    <2>1. /\ Step(t, "refill", "topunlock") /\ nd' = nd /\ loc' = loc
          /\ lk' = [lk EXCEPT !.local[n].grant = NB_TICKETS_LOCAL]
      BY <1>1, <1>12, HtCalls DEF Ht!Refill
    <2>2. /\ lk'.local[n].grant = NB_TICKETS_LOCAL /\ lk'.local[n].request = lk.local[n].request
          /\ lk'.global = lk.global /\ \A m \in NumaNodes \ {n} : lk'.local[m] = lk.local[m]
          /\ lk' \in [global : [request : 0..TicketMod - 1, grant : 0..TicketMod - 1],
                      local : [NumaNodes -> [request : Int, grant : Int]]]
      BY <1>0, <2>1, HtSetGrant
    <2>3. pc[t] = "refill" /\ pc'[t] = "topunlock" /\ Only(t) /\ HtType' /\ Allowed(t) /\ nd'[t] = nd[t]
      BY <1>0, <2>1, <2>2, HtReads, HtLegal
    <2>4. batch' = batch /\ HtGrant(n)' = NB_TICKETS_LOCAL /\ HtReq(n)' = HtReq(n)
      BY <2>2, <2>3, HtBatched DEF HtReq, HtGrant
    <2> QED
      BY <1>1, <2>2, <2>3, <2>4, HtRefill
  <1>13. After(t) \in RestPcs /\ After(t) \notin {"posix", "tryposix"}
    BY DEF After, RestPcs
  <1>14. CASE Ht!GlobalGrant(t)
    <2>1. /\ Step(t, "topunlock", After(t)) /\ nd' = nd /\ loc' = loc
          /\ lk' = [lk EXCEPT !.global.grant = (lk.global.grant + 1) % TicketMod]
      BY <1>14, HtCalls DEF Ht!GlobalGrant, Ht!Plus1
    <2>2. (lk.global.grant + 1) % TicketMod \in 0..TicketMod - 1
      BY <1>0, <1>3
    <2>3. /\ lk'.global.grant = (lk.global.grant + 1) % TicketMod
          /\ lk'.global.request = lk.global.request /\ lk'.local = lk.local
          /\ lk' \in [global : [request : 0..TicketMod - 1, grant : 0..TicketMod - 1],
                      local : [NumaNodes -> [request : Int, grant : Int]]]
      BY <1>0, <2>1, <2>2, HtSetTop
    <2>4. pc[t] = "topunlock" /\ pc'[t] = After(t) /\ Only(t) /\ HtType' /\ Allowed(t) /\ nd'[t] = nd[t]
      BY <1>0, <2>1, <2>3, HtReads, HtLegal
    <2>5. batch' = batch
      BY <1>13, <2>4, HtBatched
    <2> QED
      BY <1>13, <2>3, <2>4, <2>5, HtTopGrant
  <1>15. CASE Ht!LocalGrant(t)
    <2>1. /\ Step(t, "pass", After(t)) /\ nd' = nd /\ loc' = loc
          /\ lk' = [lk EXCEPT !.local[n].grant = HtGrant(n) - 1]
      BY <1>1, <1>3, <1>15, HtCalls DEF Ht!LocalGrant
    <2>2. HtGrant(n) - 1 \in Int
      BY <1>3
    <2>3. /\ lk'.local[n].grant = HtGrant(n) - 1 /\ lk'.local[n].request = lk.local[n].request
          /\ lk'.global = lk.global /\ \A m \in NumaNodes \ {n} : lk'.local[m] = lk.local[m]
          /\ lk' \in [global : [request : 0..TicketMod - 1, grant : 0..TicketMod - 1],
                      local : [NumaNodes -> [request : Int, grant : Int]]]
      BY <1>0, <2>1, <2>2, HtSetGrant
    <2>4. pc[t] = "pass" /\ pc'[t] = After(t) /\ Only(t) /\ HtType' /\ Allowed(t) /\ nd'[t] = nd[t]
      BY <1>0, <2>1, <2>3, HtReads, HtLegal
    <2>5. batch' = batch /\ HtGrant(n)' = HtGrant(n) - 1 /\ HtReq(n)' = HtReq(n)
      BY <1>13, <2>3, <2>4, HtBatched DEF HtReq, HtGrant
    <2> QED
      BY <1>1, <1>13, <2>3, <2>4, <2>5, HtPass
  <1> QED
    BY <1>2, <1>4, <1>5, <1>6, <1>7, <1>8, <1>9, <1>10, <1>11, <1>12, <1>14, <1>15, Zenon

LEMMA HtInitial ==
  ASSUME Ht!Init, batch = 0, Cardinality(Threads) <= NB_TICKETS_LOCAL + 1
  PROVE  HtInv
  <1>1. /\ pc = [t \in Threads |-> "idle"] /\ nd = [t \in Threads |-> 0] /\ loc = [t \in Threads |-> NULL]
        /\ lk = [global |-> [request |-> 0, grant |-> 0],
                 local |-> [n \in NumaNodes |-> [request |-> 0, grant |-> NB_TICKETS_LOCAL]]]
    BY DEF Ht!Init, Ht!ApiInit, Ht!htlockepfl_mutex_create
  <1>2. NB_TICKETS_LOCAL \in Nat \ {0} /\ TicketMod \in Nat /\ 0 < TicketMod /\ 0 \in NumaNodes
    <2>1. Cardinality(Threads) \in Nat
      BY NumaLocksAssumption, FS_CardinalityType
    <2> QED
      BY <2>1, NumaLocksAssumption, LockApiAssumption
  <1>3. \A t \in Threads : ~Hold(t) /\ ~HtTransit(t) /\ ~HtOwns(t) /\ ~HtLead(t) /\ ~HtFollows(t)
    <2>1. "idle" \notin HeldPcs
      BY DEF HeldPcs, UnlockPcs
    <2> QED
      BY <1>1, <2>1 DEF Hold, HtTransit, HtOwns, HtLead, HtFollows
  <1>4. HtType
    BY <1>1, <1>2 DEF HtType
  <1>5. HtAlone
    BY <1>1, <1>3 DEF HtAlone
  <1>6. HtGlobal
    <2>1. HtOwned = 0 /\ HtTopWaits = {}
      BY <1>1, <1>3 DEF HtOwned, HtTopWaits
    <2>2. IsFiniteSet({}) /\ Cardinality({}) = 0
      BY FS_EmptySet
    <2>3. lk.global.request = 0 /\ lk.global.grant = 0
      BY <1>1
    <2>4. (0 + (0 + 0)) % TicketMod = 0 /\ 0 \in 0..TicketMod - 1
      BY <1>2
    <2>5. TicketAt(0, 0, 0, {}, loc)
      BY <1>2, <2>2, <2>4 DEF TicketAt
    <2> QED
      BY <2>1, <2>3, <2>5 DEF HtGlobal
  <1>7. \A n \in NumaNodes : HtLocal(n)
    <2> TAKE n \in NumaNodes
    <2>1. HtReq(n) = 0 /\ HtGrant(n) = NB_TICKETS_LOCAL
      BY <1>1 DEF HtReq, HtGrant
    <2>2. ~HtLed(n) /\ \A t \in Threads : ~HtBehind(t, n) /\ pc[t] # "fetch"
      BY <1>1, <1>3 DEF HtLed, HtBehind
    <2> QED
      BY <1>2, <2>1, <2>2 DEF HtLocal
  <1>8. \A t \in Threads : HtKnows(t)
    BY <1>1, <1>3 DEF HtKnows
  <1> QED
    BY <1>2, <1>4, <1>5, <1>6, <1>7, <1>8 DEF HtInv

-----------------------------------------------------------------------------
(* hmcs.c: the two levels of queues of LockApiProof.                         *)

HmPcs == (QueuedPcs \ {"wr"}) \cup RestPcs \cup {"lock"}

\* The program points of whoever has the global lock.
TurnPcs == GlobalPcs \ {"glink", "gspin"}

HmNode == [next : Nodes \cup {NULL}, status : Int, last_local : NumaNodes]
HmLock == [tail : [NumaNodes \cup {GLOBAL} -> Nodes \cup {NULL}]]

HmType ==
  /\ lk \in HmLock
  /\ nd \in [Nodes -> HmNode]
  /\ loc \in [Threads -> Nodes \cup {NULL}]
  /\ pc \in [Threads -> HmPcs]

HmQueues == \E Q \in [NumaNodes -> Seq(Threads)], g \in Seq(NumaNodes) : HInv(Q, g)

HmInv == HmType /\ HmQueues

LEMMA HmNodes ==
  /\ NULL \notin Threads /\ NULL \notin NumaNodes /\ Threads \cap NumaNodes = {} /\ 0 \in NumaNodes
  /\ \A t : H!current_numa_node(t) \subseteq NumaNodes
  BY LockApiAssumption DEF H!current_numa_node

LEMMA HmCalls ==
  ASSUME NEW t \in Threads
  PROVE  /\ H!CallLock(t) => CallLock(t)
         /\ H!PosixLock(t) => PosixLock(t)
         /\ H!PosixTryLock(t) => PosixTryLock(t)
         /\ H!PosixUnlock(t) => PosixUnlock(t)
         /\ H!CondTimedwait(t) => CondTimedwait(t)
         /\ \A p, q : H!Step(t, p, q) => Step(t, p, q)
         /\ \A p, q : H!Read(t, p, q) => Step(t, p, q) /\ lk' = lk /\ nd' = nd /\ loc' = loc
         /\ H!After(t) = After(t)
  <1>1. H!CallLock(t) => CallLock(t)
    BY DEF H!CallLock, CallLock, H!Read, Read, H!Step, Step, H!mem, mem
  <1>2. H!PosixLock(t) => PosixLock(t)
    BY DEF H!PosixLock, PosixLock, H!mem, mem
  <1>3. H!PosixTryLock(t) => PosixTryLock(t)
    BY DEF H!PosixTryLock, PosixTryLock, H!mem, mem
  <1>4. H!PosixUnlock(t) => PosixUnlock(t)
    BY DEF H!PosixUnlock, PosixUnlock, H!mem, mem
  <1>5. H!RealWake(t) => RealWake(t)
    BY DEF H!RealWake, RealWake, H!Read, Read, H!Step, Step, H!mem, mem
  <1>6. H!CondTimedwait(t) => CondTimedwait(t)
    BY <1>5, Zenon DEF H!CondTimedwait, CondTimedwait, H!CallWait, CallWait, H!RealWait, RealWait,
                H!RealReturn, RealReturn, H!WaitPosixUnlock, WaitPosixUnlock, H!mem, mem
  <1>7. \A p, q : H!Step(t, p, q) => Step(t, p, q)
    BY DEF H!Step, Step
  <1>8. \A p, q : H!Read(t, p, q) => Step(t, p, q) /\ lk' = lk /\ nd' = nd /\ loc' = loc
    BY <1>7 DEF H!Read, H!mem
  <1>9. H!After(t) = After(t)
    BY DEF H!After, After
  <1> QED
    BY <1>1, <1>2, <1>3, <1>4, <1>6, <1>7, <1>8, <1>9

LEMMA HmLegal ==
  ASSUME NEW t \in Threads
  PROVE  /\ \A p, q \in {"lock", "start", "link", "spin", "glink", "gspin"} : Legal(t, p, q)
         /\ Legal(t, "spin", "posix") /\ Legal(t, "gspin", "posix")
         /\ \A p \in {"idle", "trytop", "trycas", "trydrop"} :
              \A q \in {"idle", "trytop", "trycas", "trydrop", "tryposix"} : Legal(t, p, q)
         /\ \A p \in {"unlock", "gcas", "gpass"} : \A q \in {"gcas", "gpass", "lcas"} : Legal(t, p, q)
         /\ Legal(t, "unlock", After(t)) /\ Legal(t, "lcas", After(t)) /\ Legal(t, "lcas", "lpass")
         /\ Legal(t, "lpass", After(t))
  <1>1. /\ {"unlock", "gcas", "gpass"} \subseteq UnlockPcs /\ {"lcas", "lpass"} \subseteq ReleasedPcs
        /\ {"trytop", "trycas", "trydrop"} \subseteq TryPcs
    BY DEF UnlockPcs, ReleasedPcs, TryPcs
  <1> QED
    BY <1>1, NumaPcs DEF Legal

LEMMA HmMoves ==
  ASSUME ApiInv, HmType, NEW t \in Threads, NEW p, NEW q, Step(t, p, q), q \in HmPcs,
         NEW l \in Nodes \cup {NULL}, loc' = [loc EXCEPT ![t] = l]
  PROVE  /\ pc[t] = p /\ pc'[t] = q /\ Others(t) /\ (Legal(t, p, q) => Allowed(t))
         /\ pc' \in [Threads -> HmPcs] /\ loc' \in [Threads -> Nodes \cup {NULL}] /\ loc'[t] = l
  <1>1. /\ pc[t] = p /\ pc'[t] = q /\ \A u \in Threads \ {t} : pc'[u] = pc[u]
        /\ Legal(t, p, q) => Allowed(t)
    BY StepMoves
  <1>2. pc' \in [Threads -> HmPcs]
    BY DEF HmType, Step
  <1>3. /\ loc' \in [Threads -> Nodes \cup {NULL}] /\ loc'[t] = l
        /\ \A u \in Threads \ {t} : loc'[u] = loc[u]
    BY DEF HmType
  <1> QED
    BY <1>1, <1>2, <1>3 DEF Others

LEMMA HmSameLoc ==
  ASSUME HmType, NEW t \in Threads, loc' = loc
  PROVE  loc[t] \in Nodes \cup {NULL} /\ loc' = [loc EXCEPT ![t] = loc[t]]
  BY DEF HmType

LEMMA HmHome ==
  ASSUME HmType, NEW t \in Threads
  PROVE  Home(t) \in NumaNodes /\ H!Local(t) = Home(t) /\ t \in Nodes /\ Home(t) \in Nodes
  BY DEF HmType, HmNode, Nodes, Home, H!Local

\* Whose turn it is at the global queue.
LEMMA HmTurn ==
  ASSUME HmInv, NEW t \in Threads, pc[t] \in TurnPcs
  PROVE  /\ Up(t) /\ nd[Home(t)].status = UNLOCKED
         /\ \A u \in Threads : pc[u] \in TurnPcs => u = t
  <1>1. PICK Q \in [NumaNodes -> Seq(Threads)], g \in Seq(NumaNodes) : HInv(Q, g)
    BY DEF HmInv, HmQueues
  <1>2. \A u \in Threads : pc[u] \in TurnPcs => Up(u) /\ nd[Home(u)].status = UNLOCKED
    BY <1>1 DEF Up, HInv, TopAt, TurnPcs
  <1>3. \A u \in Threads : pc[u] \in TurnPcs => u = t
    BY <1>1, <1>2, OneOwner
  <1> QED
    BY <1>2, <1>3

LEMMA HmHolds ==
  ASSUME HmInv
  PROVE  (\A u \in Threads : Hold(u) => pc[u] \in TurnPcs) /\ OneHolder
  <1>1. \A p \in HmPcs : p \in HeldPcs => p \in TurnPcs
    BY DEF HmPcs, QueuedPcs, GlobalPcs, RestPcs, HeldPcs, UnlockPcs, TurnPcs
  <1>2. \A u \in Threads : Hold(u) => pc[u] \in TurnPcs
    BY <1>1 DEF HmInv, HmType, Hold
  <1> QED
    BY <1>2, HmTurn DEF OneHolder

\* The steps of the condition-variable code.
LEMMA HmWrapped ==
  ASSUME ApiInv, HmInv, NEW t \in Threads, Wrapped(t)
  PROVE  HmInv'
  <1>1. lk' = lk /\ nd' = nd /\ loc' = loc /\ \A u \in Threads : Around(u)
    BY HmHolds, WrappedKeeps
  <1>2. PcType'
    BY HmHolds, WrappedStep DEF ApiInv
  <1>3. \A u \in Threads : pc[u] \in HmPcs
    BY DEF HmInv, HmType
  <1>4. {"posix", "tryposix", "cs", "unlock"} \subseteq TurnPcs /\ RestPcs \cap QueuedPcs = {} /\ "lock" \notin QueuedPcs
    BY DEF TurnPcs, GlobalPcs, QueuedPcs, RestPcs
  <1>5. TurnPcs \subseteq QueuedPcs \cap GlobalPcs /\ TurnPcs \cap {"link", "spin", "glink", "gspin"} = {}
    BY DEF TurnPcs, GlobalPcs, QueuedPcs
  <1>6. \A u \in Threads :
          \/ pc'[u] = pc[u]
          \/ pc[u] \in TurnPcs /\ pc'[u] \in TurnPcs \cap {"cs", "unlock"}
          \/ pc[u] \notin QueuedPcs /\ pc'[u] \in RestPcs \cup {"lock"}
    BY <1>1, <1>4 DEF Around, RestPcs
  <1>7. \A u \in Threads : pc'[u] \in HmPcs
    BY <1>3, <1>6 DEF HmPcs, QueuedPcs, GlobalPcs
  <1>8. HmType'
    BY <1>1, <1>2, <1>7 DEF HmInv, HmType, PcType
  <1>9. GlobalPcs \subseteq QueuedPcs /\ {"link", "spin"} \subseteq QueuedPcs
    BY DEF QueuedPcs
  <1>10. \A u \in Threads :
          /\ Home(u)' = Home(u)
          /\ Queued(u)' <=> Queued(u)
          /\ pc'[u] = "link" <=> pc[u] = "link"
          /\ pc'[u] = "spin" <=> pc[u] = "spin"
          /\ pc'[u] = "glink" <=> pc[u] = "glink"
          /\ pc'[u] = "gspin" <=> pc[u] = "gspin"
          /\ pc'[u] \in GlobalPcs <=> pc[u] \in GlobalPcs
    <2> TAKE u \in Threads
    <2>1. CASE pc'[u] = pc[u]
      BY <2>1, <1>1 DEF Home, Queued
    <2>2. CASE pc[u] \in TurnPcs /\ pc'[u] \in TurnPcs
      BY <2>2, <1>1, <1>5 DEF Home, Queued
    <2>3. CASE pc[u] \notin QueuedPcs /\ pc'[u] \in RestPcs \cup {"lock"}
      <3>1. pc'[u] \notin QueuedPcs
        BY <2>3, <1>4
      <3>2. pc[u] \notin {"link", "spin", "glink", "gspin"} /\ pc'[u] \notin {"link", "spin", "glink", "gspin"}
        BY <2>3, <3>1 DEF QueuedPcs, GlobalPcs
      <3> QED
        BY <2>3, <3>1, <3>2, <1>1, <1>9 DEF Home, Queued
    <2> QED
      BY <2>1, <2>2, <2>3, <1>6
  <1>11. \A u \in Threads : (Waits(u)' <=> Waits(u)) /\ (Up(u)' <=> Up(u))
    BY <1>1, <1>10 DEF Waits, Up
  <1>12. PICK Q \in [NumaNodes -> Seq(Threads)], g \in Seq(NumaNodes) : HInv(Q, g)
    BY DEF HmInv, HmQueues
  <1>13. \A n \in NumaNodes : LocalAt(Q[n], n)'
    <2> TAKE n \in NumaNodes
    <2>1. Q[n] \in Seq(Threads) /\ LocalAt(Q[n], n)
      BY <1>12 DEF HInv
    <2> QED
      BY <2>1, <1>1, <1>10, <1>11, LocalKept
  <1>14. TopAt(g)'
    <2>1. TopAt(g)
      BY <1>12 DEF HInv
    <2>2. \A u \in Threads : Up(u)' /\ pc'[u] \notin {"glink", "gspin"} => nd'[Home(u)'].status = UNLOCKED
      BY <2>1, <1>1, <1>10, <1>11 DEF TopAt
    <2> QED
      BY <2>1, <2>2, <1>1, <1>10, <1>11, TopKept
  <1>15. Homes' /\ Counts'
    BY <1>1, <1>10, <1>11, <1>12 DEF HInv, Homes, Counts
  <1>16. HInv(Q, g)'
    BY <1>12, <1>13, <1>14, <1>15 DEF HInv
  <1> QED
    BY <1>8, <1>12, <1>16 DEF HmInv, HmQueues

LEMMA HmInitial ==
  ASSUME H!Init
  PROVE  HmInv
  <1>1. /\ pc = [t \in Threads |-> "idle"]
        /\ nd = [v \in Nodes |-> [next |-> NULL, status |-> 0, last_local |-> 0]]
        /\ loc = [t \in Threads |-> NULL]
        /\ lk = [tail |-> [h \in NumaNodes \cup {GLOBAL} |-> NULL]]
    BY DEF H!Init, H!ApiInit, H!hmcs_mutex_create, H!LOCKED, Nodes, H!GLOBAL, GLOBAL
  <1>2. HmType
    <2>1. "idle" \in HmPcs
      BY DEF HmPcs, RestPcs
    <2>2. nd \in [Nodes -> HmNode]
      BY <1>1, HmNodes DEF HmNode
    <2>3. lk \in HmLock
      BY <1>1 DEF HmLock
    <2> QED
      BY <1>1, <2>1, <2>2, <2>3 DEF HmType
  <1>3. HmQueues
    <2> DEFINE g == << >>
               Q == [n \in NumaNodes |-> << >>]
    <2>1. << >> \in Seq(Threads) /\ g \in Seq(NumaNodes) /\ Len(<< >>) = 0
      OBVIOUS
    <2>2. Q \in [NumaNodes -> Seq(Threads)]
      BY <2>1
    <2>3. Len(g) = 0 /\ \A n \in NumaNodes : Len(Q[n]) = 0
      BY <2>1
    <2> HIDE DEF Q, g
    <2>4. \A t \in Threads : ~Queued(t) /\ ~Up(t) /\ pc[t] = "idle"
      BY <1>1 DEF Queued, Up, QueuedPcs, GlobalPcs
    <2>5. lk.tail[GLOBAL] = NULL /\ \A n \in NumaNodes : lk.tail[n] = NULL
      BY <1>1 DEF GLOBAL
    <2>6. \A n \in NumaNodes : LocalAt(Q[n], n)
      BY <2>3, <2>4, <2>5 DEF LocalAt, ChainOf, In
    <2>7. TopAt(g)
      BY <2>3, <2>4, <2>5 DEF TopAt, ChainOf, In
    <2>8. Homes
      BY <1>1, HmNodes DEF Homes, Home, Nodes
    <2>9. Counts
      BY <2>4 DEF Counts
    <2> QED
      BY <2>1, <2>2, <2>6, <2>7, <2>8, <2>9 DEF HInv, HmQueues
  <1> QED
    BY <1>2, <1>3 DEF HmInv

\* The front of a local queue goes on, and leaves the nodes and tails alone.
LEMMA HmFront ==
  ASSUME ApiInv, HmInv, NEW t \in Threads, NEW p, NEW q, Step(t, p, q), Legal(t, p, q),
         lk' = lk, nd' = nd, loc' = loc, Queued(t), ~Waits(t), p # "glink",
         q \in (QueuedPcs \ {"link", "spin", "glink", "wr"}), Up(t)' <=> Up(t),
         q \in TurnPcs => p \notin {"glink", "gspin"} \/ nd[Home(t)].status = UNLOCKED
  PROVE  HmInv' /\ Allowed(t)
  <1>1. q \in HmPcs
    BY DEF HmPcs
  <1>2. /\ pc[t] = p /\ pc'[t] = q /\ Others(t) /\ Allowed(t) /\ pc' \in [Threads -> HmPcs]
    BY <1>1, HmMoves, HmSameLoc DEF HmInv
  <1>3. HmType'
    BY <1>2 DEF HmInv, HmType
  <1>4. PICK Q \in [NumaNodes -> Seq(Threads)], g \in Seq(NumaNodes) : HInv(Q, g)
    BY DEF HmInv, HmQueues
  <1>5. \A v \in Nodes : SameNode(v)
    BY DEF SameNode
  <1>6. HInv(Q, g)'
    BY <1>2, <1>4, <1>5, FrontStep DEF TurnPcs
  <1> QED
    BY <1>2, <1>3, <1>4, <1>6 DEF HmInv, HmQueues

\* A step that only looks.
LEMMA HmReads ==
  ASSUME ApiInv, HmInv, NEW t \in Threads,
         H!LocalGranted(t) \/ H!GlobalGranted(t) \/ H!Read(t, "unlock", "gcas")
  PROVE  HmInv' /\ Allowed(t)
  <1>1. PICK p, q :
          /\ \/ p = "spin" /\ nd[t].status # -1 /\ q = IF nd[t].status = -2 THEN "start" ELSE "posix"
             \/ p = "gspin" /\ q = "posix" /\ nd[Home(t)].status = UNLOCKED
             \/ p = "unlock" /\ q = "gcas"
          /\ Step(t, p, q) /\ lk' = lk /\ nd' = nd /\ loc' = loc
    <2>1. CASE H!LocalGranted(t)
      BY <2>1, HmCalls DEF H!LocalGranted, H!WAIT, H!ACQUIRE_PARENT
    <2>2. CASE H!GlobalGranted(t)
      BY <2>2, HmCalls DEF H!GlobalGranted, H!Local, Home, H!UNLOCKED, UNLOCKED
    <2>3. CASE H!Read(t, "unlock", "gcas")
      BY <2>3, HmCalls
    <2> QED
      BY <2>1, <2>2, <2>3
  <1>2. pc[t] = p /\ pc'[t] = q /\ Legal(t, p, q)
    BY <1>1, StepMoves, HmLegal
  <1>3. Queued(t) /\ ~Waits(t) /\ (Up(t)' <=> Up(t))
    BY <1>1, <1>2 DEF Queued, Waits, Up, QueuedPcs, GlobalPcs, WAIT, ACQUIRE_PARENT
  <1>4. p # "glink" /\ q \in QueuedPcs \ {"link", "spin", "glink", "wr"}
        /\ (q \in TurnPcs => p \notin {"glink", "gspin"} \/ nd[Home(t)].status = UNLOCKED)
    BY <1>1 DEF QueuedPcs, GlobalPcs, TurnPcs
  <1> QED
    BY <1>1, <1>2, <1>3, <1>4, HmFront

\* The swap of a local tail.
LEMMA HmEnqueues ==
  ASSUME ApiInv, HmInv, NEW t \in Threads, NEW n \in NumaNodes,
         NEW p \in {"idle", "lock"}, NEW q, Step(t, p, q), Legal(t, p, q),
         lk.tail[n] = NULL => q \in {"start", "trytop"},
         lk.tail[n] # NULL => q = "link",
         nd' = [nd EXCEPT ![t] = [next |-> NULL, status |-> -1, last_local |-> n]],
         lk' = [lk EXCEPT !.tail[n] = t],
         loc' = [loc EXCEPT ![t] = lk.tail[n]] \/ (lk.tail[n] = NULL /\ loc' = loc)
  PROVE  HmInv' /\ Allowed(t)
  <1>1. PICK Q \in [NumaNodes -> Seq(Threads)], g \in Seq(NumaNodes) : HInv(Q, g)
    BY DEF HmInv, HmQueues
  <1>2. lk.tail[n] \in Nodes \cup {NULL} /\ HmType
    BY DEF HmInv, HmType, HmLock
  <1>3. PICK l \in Nodes \cup {NULL} : loc' = [loc EXCEPT ![t] = l] /\ (lk.tail[n] # NULL => l = lk.tail[n])
    BY <1>2, HmSameLoc
  <1>4. q \in HmPcs
    BY DEF HmPcs, QueuedPcs, RestPcs
  <1>5. /\ pc[t] = p /\ pc'[t] = q /\ Others(t) /\ Allowed(t) /\ pc' \in [Threads -> HmPcs]
        /\ loc' \in [Threads -> Nodes \cup {NULL}] /\ loc'[t] = l
    BY <1>2, <1>3, <1>4, HmMoves
  <1>6. /\ lk' \in HmLock
        /\ lk'.tail[n] = t /\ \A h \in (NumaNodes \cup {GLOBAL}) \ {n} : lk'.tail[h] = lk.tail[h]
    BY HmHome DEF HmInv, HmType, HmLock
  <1>7. /\ nd' \in [Nodes -> HmNode] /\ \A v \in Nodes \ {t} : SameNode(v)
        /\ nd'[t].next = NULL /\ nd'[t].status = WAIT /\ nd'[t].last_local = n
    BY HmHome DEF HmInv, HmType, HmNode, SameNode, WAIT
  <1>8. HmType'
    BY <1>5, <1>6, <1>7 DEF HmType
  <1>9. pc[t] \notin QueuedPcs
    BY <1>5 DEF QueuedPcs, GlobalPcs
  <1>10. /\ lk.tail[n] # NULL => pc'[t] = "link" /\ loc'[t] = lk.tail[n]
         /\ lk.tail[n] = NULL => pc'[t] \in {"start", "trytop"}
    BY <1>3, <1>5
  <1>11. HInv([Q EXCEPT ![n] = Append(@, t)], g)'
    BY <1>1, <1>5, <1>6, <1>7, <1>9, <1>10, EnqueueStep
  <1>12. [Q EXCEPT ![n] = Append(@, t)] \in [NumaNodes -> Seq(Threads)]
    BY <1>1
  <1> QED
    BY <1>5, <1>8, <1>11, <1>12 DEF HmInv, HmQueues

LEMMA HmQueuesUp ==
  ASSUME ApiInv, HmInv, NEW t \in Threads, \E n \in H!current_numa_node(t) : H!LocalEnqueue(t, n)
  PROVE  HmInv' /\ Allowed(t)
  <1>1. PICK n \in NumaNodes : H!LocalEnqueue(t, n)
    BY HmNodes
  <1> DEFINE q == IF lk.tail[n] = NULL THEN "start" ELSE "link"
  <1>2. /\ Step(t, "lock", q) /\ Legal(t, "lock", q)
        /\ nd' = [nd EXCEPT ![t] = [next |-> NULL, status |-> -1, last_local |-> n]]
        /\ lk' = [lk EXCEPT !.tail[n] = t]
        /\ loc' = [loc EXCEPT ![t] = lk.tail[n]]
    BY <1>1, HmCalls, HmLegal DEF H!LocalEnqueue, H!WAIT
  <1> QED
    BY <1>2, HmEnqueues

LEMMA HmTries ==
  ASSUME ApiInv, HmInv, NEW t \in Threads, \E n \in H!current_numa_node(t) : H!TryLocal(t, n, "idle")
  PROVE  HmInv' /\ Allowed(t)
  <1>1. PICK n \in NumaNodes : H!TryLocal(t, n, "idle")
    BY HmNodes
  <1> DEFINE q == IF lk.tail[n] = NULL THEN "trytop" ELSE "idle"
  <1>2. /\ Step(t, "idle", q) /\ Legal(t, "idle", q) /\ loc' = loc
        /\ nd' = [nd EXCEPT ![t] = [next |-> NULL, status |-> -1, last_local |-> n]]
        /\ lk' = [lk EXCEPT !.tail[n] = IF lk.tail[n] = NULL THEN t ELSE lk.tail[n]]
    BY <1>1, HmCalls, HmLegal DEF H!TryLocal, H!WAIT
  <1>3. CASE lk.tail[n] = NULL
    <2>1. lk' = [lk EXCEPT !.tail[n] = t] /\ q = "trytop"
      BY <1>2, <1>3
    <2>2. Step(t, "idle", "trytop") /\ Legal(t, "idle", "trytop")
      BY <1>2, <2>1
    <2> QED
      BY <1>2, <1>3, <2>1, <2>2, HmEnqueues
  <1>4. CASE lk.tail[n] # NULL
    <2>1. lk' = lk
      <3>1. [lk EXCEPT !.tail[n] = lk.tail[n]] = lk
        BY DEF HmInv, HmType, HmLock
      <3> QED
        BY <1>2, <1>4, <3>1
    <2>2. "idle" \in HmPcs /\ "idle" \notin QueuedPcs
      BY DEF HmPcs, RestPcs, QueuedPcs, GlobalPcs
    <2>3. Step(t, "idle", "idle") /\ Legal(t, "idle", "idle")
      BY <1>2, <1>4
    <2>4. /\ pc[t] = "idle" /\ pc'[t] = "idle" /\ Others(t) /\ Allowed(t) /\ pc' \in [Threads -> HmPcs]
      BY <1>2, <2>2, <2>3, HmMoves, HmSameLoc DEF HmInv
    <2>5. /\ nd' \in [Nodes -> HmNode] /\ \A v \in Nodes \ {t} : SameNode(v)
          /\ nd'[t].last_local = n
      BY <1>2, HmHome DEF HmInv, HmType, HmNode, SameNode
    <2>6. PICK Q \in [NumaNodes -> Seq(Threads)], g \in Seq(NumaNodes) : HInv(Q, g)
      BY DEF HmInv, HmQueues
    <2>7. HInv(Q, g)'
      BY <2>1, <2>2, <2>4, <2>5, <2>6, OutsideStep
    <2>8. HmType'
      BY <1>2, <2>1, <2>4, <2>5 DEF HmInv, HmType
    <2> QED
      BY <2>4, <2>6, <2>7, <2>8 DEF HmInv, HmQueues
  <1> QED
    BY <1>3, <1>4

\* The store behind the swap.
LEMMA HmLinks ==
  ASSUME ApiInv, HmInv, NEW t \in Threads,
         H!LinkTo(t, t, "link", "spin") \/ H!LinkTo(t, H!Local(t), "glink", "gspin")
  PROVE  HmInv' /\ Allowed(t)
  <1>1. PICK Q \in [NumaNodes -> Seq(Threads)], g \in Seq(NumaNodes) : HInv(Q, g)
    BY DEF HmInv, HmQueues
  <1>2. PICK v \in Nodes, p \in {"link", "glink"}, q \in {"spin", "gspin"} :
          /\ \/ p = "link" /\ q = "spin" /\ v = t
             \/ p = "glink" /\ q = "gspin" /\ v = Home(t)
          /\ Step(t, p, q) /\ lk' = lk
          /\ nd' = [nd EXCEPT ![loc[t]].next = v] /\ loc' = [loc EXCEPT ![t] = NULL]
    BY HmHome, HmCalls DEF H!LinkTo, HmInv
  <1>3. Legal(t, p, q) /\ q \in HmPcs
    BY <1>2, HmLegal DEF HmPcs, QueuedPcs, GlobalPcs
  <1>4. /\ pc[t] = p /\ pc'[t] = q /\ Others(t) /\ Allowed(t) /\ pc' \in [Threads -> HmPcs]
        /\ loc' \in [Threads -> Nodes \cup {NULL}]
    BY <1>2, <1>3, HmMoves DEF HmInv
  <1>5. loc[t] \in Nodes
    BY <1>1, <1>2, <1>4, LinkingAt DEF Nodes
  <1>6. /\ nd' \in [Nodes -> HmNode] /\ nd'[loc[t]].next = v
        /\ \A x \in Nodes : x = loc[t] \/ nd'[x].next = nd[x].next
        /\ \A x \in Nodes : nd'[x].status = nd[x].status /\ nd'[x].last_local = nd[x].last_local
    BY <1>2, <1>5 DEF HmInv, HmType, HmNode
  <1>7. HmType'
    BY <1>2, <1>4, <1>6 DEF HmInv, HmType
  <1>8. HInv(Q, g)'
    BY <1>1, <1>2, <1>4, <1>6, LinkStep, TopLinkStep
  <1> QED
    BY <1>1, <1>4, <1>7, <1>8 DEF HmInv, HmQueues

\* A thread's node and that of its local lock change.
Started(t, n, s) == [nd EXCEPT ![t].status = 1, ![n].next = NULL, ![n].status = s]

LEMMA HmTwoNodes ==
  ASSUME HmType, NEW t \in Threads, NEW n \in NumaNodes, NEW s \in Int,
         nd' = Started(t, n, s)
  PROVE  /\ nd' \in [Nodes -> HmNode] /\ \A v \in Nodes \ {t, n} : SameNode(v)
         /\ nd'[t].last_local = nd[t].last_local
         /\ nd'[t].next = nd[t].next /\ nd'[t].status = 1
         /\ nd'[n].next = NULL /\ nd'[n].status = s
  <1>1. t # n /\ t \in Nodes /\ n \in Nodes
    BY HmNodes DEF Nodes
  <1>2. PICK f \in [Nodes -> HmNode] :
          /\ f = [nd EXCEPT ![t].status = 1]
          /\ f[t].next = nd[t].next /\ f[t].status = 1 /\ f[t].last_local = nd[t].last_local
          /\ \A v \in Nodes \ {t} : f[v] = nd[v]
    <2> DEFINE F == [nd EXCEPT ![t].status = 1]
    <2>1. /\ F \in [Nodes -> HmNode]
          /\ F[t].next = nd[t].next /\ F[t].status = 1 /\ F[t].last_local = nd[t].last_local
          /\ \A v \in Nodes \ {t} : F[v] = nd[v]
      BY <1>1 DEF HmType, HmNode
    <2> QED
      BY <2>1
  <1>3. PICK k \in [Nodes -> HmNode] :
          /\ k = [f EXCEPT ![n].next = NULL]
          /\ k[n].next = NULL
          /\ \A v \in Nodes \ {n} : k[v] = f[v]
    <2> DEFINE K == [f EXCEPT ![n].next = NULL]
    <2>1. /\ K \in [Nodes -> HmNode]
          /\ K[n].next = NULL
          /\ \A v \in Nodes \ {n} : K[v] = f[v]
      BY <1>1 DEF HmNode
    <2> QED
      BY <2>1
  <1>4. PICK m \in [Nodes -> HmNode] :
          /\ m = [k EXCEPT ![n].status = s]
          /\ m[n].next = NULL /\ m[n].status = s
          /\ \A v \in Nodes \ {n} : m[v] = k[v]
    <2> DEFINE M == [k EXCEPT ![n].status = s]
    <2>1. /\ M \in [Nodes -> HmNode]
          /\ M[n].next = k[n].next /\ M[n].status = s
          /\ \A v \in Nodes \ {n} : M[v] = k[v]
      BY <1>1 DEF HmNode
    <2> QED
      BY <1>3, <2>1
  <1>5. nd' = m
    BY <1>2, <1>3, <1>4 DEF Started
  <1>6. /\ nd'[t] = f[t] /\ \A v \in Nodes \ {t, n} : nd'[v] = nd[v]
    BY <1>1, <1>2, <1>3, <1>4, <1>5
  <1> QED
    BY <1>2, <1>4, <1>5, <1>6 DEF SameNode

\* The node of the local lock is put at the end of the global queue.
LEMMA HmStarts ==
  ASSUME ApiInv, HmInv, NEW t \in Threads, NEW n \in NumaNodes, n = Home(t),
         NEW p \in {"start", "trytop"}, NEW q, Step(t, p, q), Legal(t, p, q),
         lk.tail[GLOBAL] = NULL => q \in {"gspin", "tryposix"},
         lk.tail[GLOBAL] # NULL => q = "glink",
         nd' = Started(t, n, IF lk.tail[GLOBAL] = NULL THEN UNLOCKED ELSE LOCKED),
         lk' = [lk EXCEPT !.tail[GLOBAL] = n],
         loc' = [loc EXCEPT ![t] = lk.tail[GLOBAL]] \/ (lk.tail[GLOBAL] = NULL /\ loc' = loc)
  PROVE  HmInv' /\ Allowed(t)
  <1>1. PICK Q \in [NumaNodes -> Seq(Threads)], g \in Seq(NumaNodes) : HInv(Q, g)
    BY DEF HmInv, HmQueues
  <1>2. lk.tail[GLOBAL] \in Nodes \cup {NULL} /\ HmType
    BY DEF HmInv, HmType, HmLock
  <1>3. PICK l \in Nodes \cup {NULL} :
          loc' = [loc EXCEPT ![t] = l] /\ (lk.tail[GLOBAL] # NULL => l = lk.tail[GLOBAL])
    BY <1>2, HmSameLoc
  <1>4. q \in HmPcs
    BY DEF HmPcs, QueuedPcs, GlobalPcs
  <1>5. /\ pc[t] = p /\ pc'[t] = q /\ Others(t) /\ Allowed(t) /\ pc' \in [Threads -> HmPcs]
        /\ loc' \in [Threads -> Nodes \cup {NULL}] /\ loc'[t] = l
    BY <1>2, <1>3, <1>4, HmMoves
  <1>6. /\ lk' \in HmLock
        /\ lk'.tail[GLOBAL] = n /\ \A h \in NumaNodes : lk'.tail[h] = lk.tail[h]
    BY HmHome, HmNodes DEF HmInv, HmType, HmLock, GLOBAL
  <1>7. PICK s \in Int : s = IF lk.tail[GLOBAL] = NULL THEN UNLOCKED ELSE LOCKED
    BY DEF UNLOCKED, LOCKED
  <1>8. /\ nd' \in [Nodes -> HmNode] /\ \A v \in Nodes \ {t, n} : SameNode(v)
        /\ nd'[t].next = nd[t].next /\ nd'[t].last_local = n /\ nd'[t].status = 1
        /\ nd'[n].next = NULL /\ nd'[n].status = s
    <2>1. nd' = Started(t, n, s)
      BY <1>7
    <2>2. /\ nd' \in [Nodes -> HmNode] /\ \A v \in Nodes \ {t, n} : SameNode(v)
          /\ nd'[t].last_local = nd[t].last_local
          /\ nd'[t].next = nd[t].next /\ nd'[t].status = 1
          /\ nd'[n].next = NULL /\ nd'[n].status = s
      BY <1>2, <2>1, HmTwoNodes
    <2> QED
      BY <2>2 DEF Home
  <1>9. HmType'
    BY <1>5, <1>6, <1>8 DEF HmType
  <1>10. /\ lk.tail[GLOBAL] # NULL => pc'[t] = "glink" /\ loc'[t] = lk.tail[GLOBAL]
         /\ lk.tail[GLOBAL] = NULL => pc'[t] \in {"gspin", "tryposix"}
         /\ pc[t] \in {"start", "trytop"}
    BY <1>3, <1>5
  <1>11. nd'[t].status \in Nat \ {0} /\ nd'[n].status = IF lk.tail[GLOBAL] = NULL THEN UNLOCKED ELSE LOCKED
    BY <1>7, <1>8
  <1>12. HInv(Q, Append(g, n))'
    BY <1>1, <1>5, <1>6, <1>8, <1>10, <1>11, StartStep
  <1>13. Append(g, n) \in Seq(NumaNodes)
    BY <1>1
  <1> QED
    BY <1>5, <1>9, <1>12, <1>13 DEF HmInv, HmQueues

LEMMA HmCohort ==
  ASSUME ApiInv, HmInv, NEW t \in Threads, H!StartCohort(t, H!Local(t))
  PROVE  HmInv' /\ Allowed(t)
  <1>1. PICK n \in NumaNodes : n = Home(t) /\ n = H!Local(t)
    BY HmHome DEF HmInv
  <1> DEFINE q == IF lk.tail[GLOBAL] = NULL THEN "gspin" ELSE "glink"
  <1>2. /\ Step(t, "start", q) /\ Legal(t, "start", q)
        /\ nd' = Started(t, n, IF lk.tail[GLOBAL] = NULL THEN UNLOCKED ELSE LOCKED)
        /\ lk' = [lk EXCEPT !.tail[GLOBAL] = n]
        /\ loc' = [loc EXCEPT ![t] = lk.tail[GLOBAL]]
    BY <1>1, HmCalls, HmLegal
    DEF H!StartCohort, H!COHORT_START, H!Initially, H!GLOBAL, GLOBAL,
        H!UNLOCKED, UNLOCKED, H!LOCKED, LOCKED, Started
  <1> QED
    BY <1>1, <1>2, HmStarts

\* trylock tries the global lock once.
LEMMA HmTriesTop ==
  ASSUME ApiInv, HmInv, NEW t \in Threads, H!TryGlobal(t)
  PROVE  HmInv' /\ Allowed(t)
  <1>1. PICK n \in NumaNodes : n = Home(t) /\ n = H!Local(t)
    BY HmHome DEF HmInv
  <1> DEFINE q == IF lk.tail[GLOBAL] = NULL THEN "tryposix" ELSE "trycas"
  <1>2. /\ Step(t, "trytop", q) /\ Legal(t, "trytop", q) /\ loc' = loc
        /\ nd' = Started(t, n, IF lk.tail[GLOBAL] = NULL THEN UNLOCKED ELSE LOCKED)
        /\ lk' = [lk EXCEPT !.tail[GLOBAL] = IF lk.tail[GLOBAL] = NULL THEN n ELSE lk.tail[GLOBAL]]
    BY <1>1, HmCalls, HmLegal
    DEF H!TryGlobal, H!COHORT_START, H!Initially, H!GLOBAL, GLOBAL,
        H!UNLOCKED, UNLOCKED, H!LOCKED, LOCKED, Started
  <1>3. CASE lk.tail[GLOBAL] = NULL
    <2>1. /\ lk' = [lk EXCEPT !.tail[GLOBAL] = n] /\ Step(t, "trytop", "tryposix")
          /\ Legal(t, "trytop", "tryposix")
      BY <1>2, <1>3
    <2> QED
      BY <1>1, <1>2, <1>3, <2>1, HmStarts
  <1>4. CASE lk.tail[GLOBAL] # NULL
    <2>1. lk' = lk
      <3>1. [lk EXCEPT !.tail[GLOBAL] = lk.tail[GLOBAL]] = lk
        BY DEF HmInv, HmType, HmLock
      <3> QED
        BY <1>2, <1>4, <3>1
    <2>2. Step(t, "trytop", "trycas") /\ Legal(t, "trytop", "trycas")
      BY <1>2, <1>4
    <2>3. "trycas" \in HmPcs
      BY DEF HmPcs, QueuedPcs
    <2>4. /\ pc[t] = "trytop" /\ pc'[t] = "trycas" /\ Others(t) /\ Allowed(t) /\ pc' \in [Threads -> HmPcs]
      BY <1>2, <2>2, <2>3, HmMoves, HmSameLoc DEF HmInv
    <2>5. nd' = Started(t, n, 0)
      BY <1>2, <1>4 DEF LOCKED
    <2>6. /\ nd' \in [Nodes -> HmNode] /\ \A v \in Nodes \ {t, n} : SameNode(v)
          /\ nd'[t].next = nd[t].next /\ nd'[t].last_local = nd[t].last_local
      BY <2>5, HmTwoNodes, 0 \in Int DEF HmInv
    <2>7. HmType'
      BY <1>2, <2>1, <2>4, <2>6 DEF HmInv, HmType
    <2>8. PICK Q \in [NumaNodes -> Seq(Threads)], g \in Seq(NumaNodes) : HInv(Q, g)
      BY DEF HmInv, HmQueues
    <2>9. Queued(t) /\ ~Waits(t) /\ ~Up(t) /\ ~Up(t)'
      BY <2>4 DEF Queued, Waits, Up, QueuedPcs, GlobalPcs
    <2>10. pc'[t] \in QueuedPcs \ {"link", "spin", "glink"} /\ pc'[t] \notin GlobalPcs /\ pc[t] # "glink"
      BY <2>4 DEF QueuedPcs, GlobalPcs
    <2>11. \A v \in Nodes \ {t} : (v = Home(t) /\ ~Up(t)) \/ SameNode(v)
      BY <1>1, <2>6, <2>9
    <2>12. HInv(Q, g)'
      BY <2>1, <2>4, <2>6, <2>8, <2>9, <2>10, <2>11, FrontStep
    <2> QED
      BY <2>4, <2>7, <2>8, <2>12 DEF HmInv, HmQueues
  <1> QED
    BY <1>3, <1>4

\* The outcomes of __hmcs_release_helper.
HmGiven(v, m, s, left) == [nd EXCEPT ![m].status = s, ![v] = left]

HmKept(t, h, v, from, pass) == Step(t, from, pass) /\ lk.tail[h] # v /\ lk' = lk /\ nd' = nd /\ loc' = loc

HmEmptied(t, h, v, left, from, to) ==
  /\ Step(t, from, to) /\ lk.tail[h] = v /\ loc' = loc
  /\ lk' = [lk EXCEPT !.tail[h] = NULL] /\ nd' = [nd EXCEPT ![v] = left]

HmPassed(t, v, m, s, left, pass, to) ==
  /\ Step(t, pass, to) /\ m # NULL /\ loc' = loc /\ lk' = lk /\ nd' = HmGiven(v, m, s, left)

LEMMA HmReleases ==
  ASSUME HmInv, NEW t \in Threads, NEW h \in NumaNodes \cup {GLOBAL}, NEW v \in Nodes, NEW s, NEW left,
         NEW from, NEW pass, NEW to, H!release_helper(t, h, v, s, left, from, pass, to)
  PROVE  \/ HmKept(t, h, v, from, pass)
         \/ HmEmptied(t, h, v, left, from, to)
         \/ HmPassed(t, v, nd[v].next, s, left, pass, to)
  <1>1. CASE /\ H!Step(t, from, IF lk.tail[h] = v THEN to ELSE pass)
             /\ lk' = [lk EXCEPT !.tail[h] = IF lk.tail[h] = v THEN NULL ELSE lk.tail[h]]
             /\ nd' = [nd EXCEPT ![v] = IF lk.tail[h] = v THEN left ELSE nd[v]]
             /\ loc' = loc
    <2>1. [lk EXCEPT !.tail[h] = lk.tail[h]] = lk /\ [nd EXCEPT ![v] = nd[v]] = nd
      BY DEF HmInv, HmType, HmLock
    <2> QED
      BY <1>1, <2>1, HmCalls DEF HmKept, HmEmptied
  <1>2. CASE /\ nd[v].next # NULL /\ H!Step(t, pass, to)
             /\ nd' = [nd EXCEPT ![nd[v].next].status = s, ![v] = left]
             /\ lk' = lk /\ loc' = loc
    BY <1>2, HmCalls DEF HmPassed, HmGiven
  <1> QED
    BY <1>1, <1>2 DEF H!release_helper

LEMMA HmLeft == \A v : H!Left(v) \in HmNode
  BY LockApiAssumption DEF H!Left, H!LOCKED, HmNode

\* A node is left, and maybe another one is told its status.
LEMMA HmOneLeft ==
  ASSUME HmType, NEW v \in Nodes, NEW left \in HmNode, nd' = [nd EXCEPT ![v] = left]
  PROVE  nd' \in [Nodes -> HmNode] /\ nd'[v] = left /\ \A x \in Nodes \ {v} : nd'[x] = nd[x]
  BY DEF HmType

LEMMA HmTold ==
  ASSUME HmType, NEW v \in Nodes, NEW left \in HmNode, NEW m \in Nodes \ {v}, NEW s \in Int,
         nd' = HmGiven(v, m, s, left)
  PROVE  /\ nd' \in [Nodes -> HmNode] /\ nd'[v] = left
         /\ nd'[m].status = s /\ nd'[m].next = nd[m].next /\ nd'[m].last_local = nd[m].last_local
         /\ \A x \in Nodes \ {v, m} : nd'[x] = nd[x]
  <1> DEFINE F == [nd EXCEPT ![m].status = s]
  <1>1. /\ F \in [Nodes -> HmNode] /\ F[m].status = s /\ F[m].next = nd[m].next
        /\ F[m].last_local = nd[m].last_local
        /\ \A x \in Nodes \ {m} : F[x] = nd[x]
    BY DEF HmType, HmNode
  <1>2. nd' = [F EXCEPT ![v] = left]
    BY DEF HmGiven
  <1> HIDE DEF F
  <1>3. /\ nd' \in [Nodes -> HmNode] /\ nd'[v] = left /\ nd'[m] = F[m]
        /\ \A x \in Nodes \ {v} : nd'[x] = F[x]
    BY <1>1, <1>2
  <1> QED
    BY <1>1, <1>3

LEMMA HmTailOff ==
  ASSUME HmType, NEW h \in NumaNodes \cup {GLOBAL}, lk' = [lk EXCEPT !.tail[h] = NULL]
  PROVE  /\ lk' \in HmLock /\ lk'.tail[h] = NULL
         /\ \A i \in (NumaNodes \cup {GLOBAL}) \ {h} : lk'.tail[i] = lk.tail[i]
  BY DEF HmType, HmLock

LEMMA HmNextIs ==
  ASSUME HmInv, NEW t \in Threads, Queued(t), ~Waits(t)
  PROVE  /\ nd[t].next # NULL => nd[t].next \in Threads \ {t}
         /\ Up(t) /\ nd[Home(t)].status = UNLOCKED /\ nd[Home(t)].next # NULL
              => nd[Home(t)].next \in NumaNodes \ {Home(t)}
         /\ Up(t) => nd[t].status \in Nat \ {0}
  <1>1. PICK Q \in [NumaNodes -> Seq(Threads)], g \in Seq(NumaNodes) : HInv(Q, g)
    BY DEF HmInv, HmQueues
  <1>2. PICK n \in NumaNodes, q \in Seq(Threads) : n = Home(t) /\ q = Q[n]
    BY <1>1, HmHome DEF HmInv
  <1>3. NextOf[t] = nd[t].next /\ NextOf[n] = nd[n].next
    BY DEF NextOf, Nodes
  <1>4. ASSUME nd[t].next # NULL
        PROVE  nd[t].next \in Threads \ {t}
    <2>1. Len(q) \in Nat \ {0} /\ q[1] = t /\ ChainOf(q, NextOf, lk.tail[n], Linking)
      BY <1>1, <1>2, FrontIs DEF LocalAt
    <2>2. Len(q) > 1 /\ nd[t].next = q[2]
      BY <1>3, <1>4, <2>1, ChainAlone, HmNodes
    <2>3. q[2] \in Threads /\ q[2] # q[1]
      BY <2>1, <2>2 DEF ChainOf
    <2> QED
      BY <2>1, <2>2, <2>3
  <1>5. ASSUME Up(t), nd[n].status = UNLOCKED, nd[n].next # NULL
        PROVE  nd[n].next \in NumaNodes \ {n}
    <2>1. Len(g) \in Nat \ {0} /\ g[1] = n /\ ChainOf(g, NextOf, lk.tail[GLOBAL], TopLinking)
      BY <1>1, <1>2, <1>5, TurnIs DEF HInv, TopAt
    <2>2. Len(g) > 1 /\ nd[n].next = g[2]
      BY <1>3, <1>5, <2>1, ChainAlone, HmNodes
    <2>3. 1 \in 1..Len(g) /\ 2 \in 1..Len(g)
      BY <2>1, <2>2
    <2>4. g[2] \in NumaNodes /\ g[2] # g[1]
      BY <2>1, <2>3 DEF ChainOf
    <2> QED
      BY <2>1, <2>2, <2>4
  <1>6. Up(t) => nd[t].status \in Nat \ {0}
    BY <1>1 DEF HInv, Counts
  <1> QED
    BY <1>2, <1>4, <1>5, <1>6

\* The global lock goes to the next local lock, or to nobody.
LEMMA HmLeavesTop ==
  ASSUME ApiInv, HmInv, NEW t \in Threads,
         H!release_helper(t, H!GLOBAL, H!Local(t), H!UNLOCKED, H!Left(H!Local(t)), "gcas", "gpass", "lcas")
  PROVE  HmInv' /\ Allowed(t)
  <1>1. PICK n \in NumaNodes : n = Home(t) /\ n = H!Local(t)
    BY HmHome DEF HmInv
  <1>2. PICK left \in HmNode : left = H!Left(n)
    BY HmLeft
  <1>3. PICK m : m = nd[n].next
    OBVIOUS
  <1>4. n \in Nodes /\ HmType
    BY DEF Nodes, HmInv
  <1>5. \/ HmKept(t, GLOBAL, n, "gcas", "gpass")
        \/ HmEmptied(t, GLOBAL, n, left, "gcas", "lcas")
        \/ HmPassed(t, n, m, UNLOCKED, left, "gpass", "lcas")
    <2>1. H!release_helper(t, GLOBAL, n, UNLOCKED, left, "gcas", "gpass", "lcas")
      BY <1>1, <1>2 DEF H!GLOBAL, GLOBAL, H!UNLOCKED, UNLOCKED
    <2> QED
      BY <1>3, <1>4, <2>1, HmReleases
  <1>6. CASE HmKept(t, GLOBAL, n, "gcas", "gpass")
    <2>1. Step(t, "gcas", "gpass") /\ lk' = lk /\ nd' = nd /\ loc' = loc
      BY <1>6 DEF HmKept
    <2>2. pc[t] = "gcas" /\ pc'[t] = "gpass" /\ Legal(t, "gcas", "gpass")
      BY <2>1, StepMoves, HmLegal
    <2>3. /\ Queued(t) /\ ~Waits(t) /\ (Up(t)' <=> Up(t))
          /\ "gpass" \in QueuedPcs \ {"link", "spin", "glink", "wr"}
      BY <2>2 DEF Queued, Waits, Up, QueuedPcs, GlobalPcs
    <2> QED
      BY <2>1, <2>2, <2>3, HmFront
  <1>7. CASE \/ HmEmptied(t, GLOBAL, n, left, "gcas", "lcas")
             \/ HmPassed(t, n, m, UNLOCKED, left, "gpass", "lcas")
    <2>1. PICK p \in {"gcas", "gpass"} : Step(t, p, "lcas") /\ loc' = loc
      BY <1>7 DEF HmEmptied, HmPassed
    <2>2. Legal(t, p, "lcas") /\ "lcas" \in HmPcs
      BY <2>1, HmLegal DEF HmPcs, QueuedPcs
    <2>3. /\ pc[t] = p /\ pc'[t] = "lcas" /\ Others(t) /\ Allowed(t) /\ pc' \in [Threads -> HmPcs]
      BY <1>4, <2>1, <2>2, HmMoves, HmSameLoc
    <2>4. pc[t] \in GlobalPcs \ {"glink", "gspin"} /\ pc[t] \in TurnPcs
      BY <2>3 DEF GlobalPcs, TurnPcs
    <2>5. Queued(t) /\ ~Waits(t) /\ Up(t) /\ nd[n].status = UNLOCKED
      BY <1>1, <2>3, <2>4, HmTurn DEF Queued, Waits, QueuedPcs
    <2>6. m # NULL => m \in NumaNodes \ {n}
      BY <1>1, <1>3, <2>5, HmNextIs
    <2>7. /\ lk' \in HmLock /\ nd' \in [Nodes -> HmNode] /\ \A h \in NumaNodes : lk'.tail[h] = lk.tail[h]
          /\ \/ lk.tail[GLOBAL] = n /\ lk'.tail[GLOBAL] = NULL /\ \A v \in Nodes \ {n} : SameNode(v)
             \/ /\ m # NULL /\ lk'.tail[GLOBAL] = lk.tail[GLOBAL]
                /\ nd'[m].status = UNLOCKED /\ (m # n => nd'[m].next = nd[m].next)
                /\ \A v \in Nodes \ {n, m} : SameNode(v)
      <3>1. CASE HmEmptied(t, GLOBAL, n, left, "gcas", "lcas")
        <4>1. lk.tail[GLOBAL] = n /\ lk' = [lk EXCEPT !.tail[GLOBAL] = NULL] /\ nd' = [nd EXCEPT ![n] = left]
          BY <3>1 DEF HmEmptied
        <4>2. /\ lk' \in HmLock /\ lk'.tail[GLOBAL] = NULL
              /\ \A h \in NumaNodes : lk'.tail[h] = lk.tail[h]
          BY <1>4, <4>1, HmTailOff, HmNodes DEF GLOBAL
        <4>3. nd' \in [Nodes -> HmNode] /\ \A v \in Nodes \ {n} : nd'[v] = nd[v]
          BY <1>4, <4>1, HmOneLeft
        <4> QED
          BY <4>1, <4>2, <4>3 DEF SameNode
      <3>2. CASE HmPassed(t, n, m, UNLOCKED, left, "gpass", "lcas")
        <4>1. m # NULL /\ lk' = lk /\ nd' = HmGiven(n, m, UNLOCKED, left)
          BY <3>2 DEF HmPassed
        <4>2. m \in Nodes \ {n}
          BY <2>6, <4>1 DEF Nodes
        <4>3. PICK s \in Int : s = UNLOCKED
          BY DEF UNLOCKED
        <4>4. nd' = HmGiven(n, m, s, left)
          BY <4>1, <4>3
        <4>5. /\ nd' \in [Nodes -> HmNode] /\ nd'[m].status = UNLOCKED /\ nd'[m].next = nd[m].next
              /\ \A v \in Nodes \ {n, m} : nd'[v] = nd[v]
          BY <1>4, <4>2, <4>3, <4>4, HmTold
        <4>6. lk' \in HmLock
          BY <1>4, <4>1 DEF HmType
        <4> QED
          BY <4>1, <4>5, <4>6 DEF SameNode
      <3> QED
        BY <1>7, <3>1, <3>2
    <2>8. HmType'
      BY <1>4, <2>1, <2>3, <2>7 DEF HmType
    <2>9. PICK Q \in [NumaNodes -> Seq(Threads)], g \in Seq(NumaNodes) : HInv(Q, g)
      BY DEF HmInv, HmQueues
    <2>10. HInv(Q, Tail(g))'
      BY <1>1, <1>3, <2>3, <2>4, <2>7, <2>9, TopReleaseStep
    <2>11. Tail(g) \in Seq(NumaNodes)
      BY <2>9, <2>10 DEF HInv
    <2> QED
      BY <2>3, <2>8, <2>9, <2>10, <2>11 DEF HmInv, HmQueues
  <1> QED
    BY <1>5, <1>6, <1>7

\* The local lock goes to the next thread, or to nobody.
LEMMA HmLocalLeaves ==
  ASSUME ApiInv, HmInv, NEW t \in Threads, NEW n \in NumaNodes, n = Home(t),
         NEW m, m = nd[t].next, NEW left \in HmNode, NEW s \in Int,
         NEW p \in {"lcas", "lpass", "trycas", "trydrop", "unlock"}, NEW q \in RestPcs, Legal(t, p, q),
         Up(t) => s \in Nat \ {0}, ~Up(t) => s = ACQUIRE_PARENT,
         (~Up(t) /\ HmEmptied(t, n, t, left, p, q)) \/ HmPassed(t, t, m, s, left, p, q)
  PROVE  HmInv' /\ Allowed(t)
  <1>1. HmType /\ t \in Nodes
    BY HmHome DEF HmInv
  <1>2. Step(t, p, q) /\ loc' = loc
    BY DEF HmEmptied, HmPassed
  <1>3. q \in HmPcs /\ q \notin QueuedPcs
    BY DEF HmPcs, RestPcs, QueuedPcs, GlobalPcs
  <1>4. pc[t] = p /\ pc'[t] = q /\ Others(t) /\ Allowed(t) /\ pc' \in [Threads -> HmPcs]
    BY <1>1, <1>2, <1>3, HmMoves, HmSameLoc
  <1>5. Queued(t) /\ ~Waits(t) /\ pc[t] \notin {"link", "glink", "gspin"}
    BY <1>4 DEF Queued, Waits, QueuedPcs, GlobalPcs
  <1>6. m # NULL => m \in Nodes \ {t}
    BY <1>5, HmNextIs DEF Nodes
  <1>7. /\ lk' \in HmLock /\ nd' \in [Nodes -> HmNode] /\ nd'[t].last_local \in NumaNodes
        /\ \A h \in (NumaNodes \cup {GLOBAL}) \ {n} : lk'.tail[h] = lk.tail[h]
        /\ \/ ~Up(t) /\ lk.tail[n] = t /\ lk'.tail[n] = NULL /\ \A v \in Nodes \ {t} : SameNode(v)
           \/ /\ m # NULL /\ lk'.tail[n] = lk.tail[n]
              /\ (Up(t) => nd'[m].status \in Nat \ {0}) /\ (~Up(t) => nd'[m].status = ACQUIRE_PARENT)
              /\ (m # t => nd'[m].next = nd[m].next /\ nd'[m].last_local = nd[m].last_local)
              /\ \A v \in Nodes \ {t, m} : SameNode(v)
    <2>1. left.last_local \in NumaNodes
      BY DEF HmNode
    <2>2. CASE ~Up(t) /\ HmEmptied(t, n, t, left, p, q)
      <3>1. lk.tail[n] = t /\ lk' = [lk EXCEPT !.tail[n] = NULL] /\ nd' = [nd EXCEPT ![t] = left]
        BY <2>2 DEF HmEmptied
      <3>2. /\ lk' \in HmLock /\ lk'.tail[n] = NULL
            /\ \A h \in (NumaNodes \cup {GLOBAL}) \ {n} : lk'.tail[h] = lk.tail[h]
        BY <1>1, <3>1, HmTailOff
      <3>3. nd' \in [Nodes -> HmNode] /\ nd'[t] = left /\ \A v \in Nodes \ {t} : nd'[v] = nd[v]
        BY <1>1, <3>1, HmOneLeft
      <3> QED
        BY <2>1, <2>2, <3>1, <3>2, <3>3 DEF SameNode
    <2>3. CASE HmPassed(t, t, m, s, left, p, q)
      <3>1. m # NULL /\ lk' = lk /\ nd' = HmGiven(t, m, s, left)
        BY <2>3 DEF HmPassed
      <3>2. m \in Nodes \ {t}
        BY <1>6, <3>1
      <3>3. /\ nd' \in [Nodes -> HmNode] /\ nd'[t] = left
            /\ nd'[m].status = s /\ nd'[m].next = nd[m].next /\ nd'[m].last_local = nd[m].last_local
            /\ \A x \in Nodes \ {t, m} : nd'[x] = nd[x]
        BY <1>1, <3>1, <3>2, HmTold
      <3>4. lk' \in HmLock
        BY <1>1, <3>1 DEF HmType
      <3> QED
        BY <2>1, <3>1, <3>3, <3>4 DEF SameNode
    <2> QED
      BY <2>2, <2>3
  <1>8. HmType'
    BY <1>1, <1>2, <1>4, <1>7 DEF HmType
  <1>9. PICK Q \in [NumaNodes -> Seq(Threads)], g \in Seq(NumaNodes) : HInv(Q, g)
    BY DEF HmInv, HmQueues
  <1>10. pc'[t] \notin QueuedPcs
    BY <1>3, <1>4
  <1>11. HInv([Q EXCEPT ![n] = Tail(@)], g)'
    BY <1>4, <1>5, <1>7, <1>9, <1>10, LocalReleaseStep
  <1>12. [Q EXCEPT ![n] = Tail(@)] \in [NumaNodes -> Seq(Threads)]
    BY <1>11 DEF HInv
  <1> QED
    BY <1>4, <1>8, <1>9, <1>11, <1>12 DEF HmInv, HmQueues

\* The local lock is given up after the global one, or without it.
LEMMA HmLeaves ==
  ASSUME ApiInv, HmInv, NEW t \in Threads,
         \/ H!release_helper(t, H!Local(t), t, H!ACQUIRE_PARENT, H!Left(t), "trycas", "trydrop", "idle")
         \/ H!release_helper(t, H!Local(t), t, H!ACQUIRE_PARENT, H!Left(t), "lcas", "lpass", H!After(t))
  PROVE  HmInv' /\ Allowed(t)
  <1>1. PICK n \in NumaNodes : n = Home(t) /\ n = H!Local(t)
    BY HmHome DEF HmInv
  <1>2. PICK left \in HmNode : left = H!Left(t)
    BY HmLeft
  <1>3. PICK m : m = nd[t].next
    OBVIOUS
  <1>4. PICK s \in Int : s = ACQUIRE_PARENT /\ s = H!ACQUIRE_PARENT
    BY DEF ACQUIRE_PARENT, H!ACQUIRE_PARENT
  <1>5. PICK from, pass, to :
          /\ \/ from = "trycas" /\ pass = "trydrop" /\ to = "idle"
             \/ from = "lcas" /\ pass = "lpass" /\ to = After(t)
          /\ H!release_helper(t, n, t, s, left, from, pass, to)
    BY <1>1, <1>2, <1>4, HmCalls
  <1>6. t \in Nodes /\ n \in NumaNodes \cup {GLOBAL}
    BY DEF Nodes
  <1>7. \/ HmKept(t, n, t, from, pass)
        \/ HmEmptied(t, n, t, left, from, to)
        \/ HmPassed(t, t, m, s, left, pass, to)
    BY <1>3, <1>5, <1>6, HmReleases
  <1>8. to \in RestPcs /\ Legal(t, from, to) /\ Legal(t, pass, to) /\ Legal(t, from, pass)
    BY <1>5, HmLegal, NotHeld DEF RestPcs
  <1>9. CASE HmKept(t, n, t, from, pass)
    <2>1. Step(t, from, pass) /\ lk' = lk /\ nd' = nd /\ loc' = loc
      BY <1>9 DEF HmKept
    <2>2. pc[t] = from /\ pc'[t] = pass
      BY <2>1, StepMoves
    <2>3. Queued(t) /\ ~Waits(t) /\ ~Up(t) /\ ~Up(t)' /\ from # "glink"
          /\ pass \in QueuedPcs \ {"link", "spin", "glink", "wr"} /\ pass \notin TurnPcs
      BY <1>5, <2>2 DEF Queued, Waits, Up, QueuedPcs, GlobalPcs, TurnPcs
    <2> QED
      BY <1>8, <2>1, <2>3, HmFront
  <1>10. CASE HmEmptied(t, n, t, left, from, to)
    <2>1. pc[t] = from
      BY <1>10, StepMoves DEF HmEmptied
    <2>2. ~Up(t) /\ from \in {"lcas", "lpass", "trycas", "trydrop", "unlock"}
      BY <1>5, <2>1 DEF Up, GlobalPcs
    <2> QED
      BY <1>1, <1>3, <1>4, <1>8, <1>10, <2>2, HmLocalLeaves
  <1>11. CASE HmPassed(t, t, m, s, left, pass, to)
    <2>1. pc[t] = pass
      BY <1>11, StepMoves DEF HmPassed
    <2>2. ~Up(t) /\ pass \in {"lcas", "lpass", "trycas", "trydrop", "unlock"}
      BY <1>5, <2>1 DEF Up, GlobalPcs
    <2> QED
      BY <1>1, <1>3, <1>4, <1>8, <1>11, <2>2, HmLocalLeaves
  <1> QED
    BY <1>7, <1>9, <1>10, <1>11

\* Both locks go to the next thread of the NUMA node.
LEMMA HmPasses ==
  ASSUME ApiInv, HmInv, NEW t \in Threads, H!PassLocal(t)
  PROVE  HmInv' /\ Allowed(t)
  <1>1. PICK n \in NumaNodes : n = Home(t)
    BY HmHome DEF HmInv
  <1>2. PICK left \in HmNode : left = H!Left(t)
    BY HmLeft
  <1>3. PICK m : m = nd[t].next
    OBVIOUS
  <1>4. Step(t, "unlock", After(t))
    BY HmCalls DEF H!PassLocal
  <1>5. pc[t] = "unlock"
    BY <1>4, StepMoves
  <1>6. Queued(t) /\ ~Waits(t) /\ Up(t)
    BY <1>5 DEF Queued, Waits, Up, QueuedPcs, GlobalPcs
  <1>7. PICK s \in Nat \ {0} : s = H!CountPass(nd[t].status)
    <2>1. PICK c \in Nat \ {0} : c = nd[t].status
      BY <1>6, HmNextIs
    <2> QED
      BY <2>1 DEF H!CountPass
  <1>8. HmPassed(t, t, m, s, left, "unlock", After(t))
    BY <1>2, <1>3, <1>4, <1>7 DEF HmPassed, HmGiven, H!PassLocal
  <1>9. After(t) \in RestPcs /\ Legal(t, "unlock", After(t)) /\ s \in Int
    BY NotHeld, HmLegal
  <1> QED
    BY <1>1, <1>3, <1>6, <1>7, <1>8, <1>9, HmLocalLeaves

\* Every step of hmcs.c.
LEMMA HmStep ==
  ASSUME ApiInv, HmInv, algo = "hmcs", NEW t \in Threads, Calls(t)
  PROVE  HmInv' /\ (Allowed(t) \/ Wrapped(t))
  <1>1. H!hmcs(t)
    BY DEF Calls
  <1>2. \/ Wrapped(t)
        \/ \E n \in H!current_numa_node(t) : H!LocalEnqueue(t, n)
        \/ H!LinkTo(t, t, "link", "spin") \/ H!LocalGranted(t)
        \/ H!StartCohort(t, H!Local(t)) \/ H!LinkTo(t, H!Local(t), "glink", "gspin") \/ H!GlobalGranted(t)
        \/ \E n \in H!current_numa_node(t) : H!TryLocal(t, n, "idle")
        \/ H!TryGlobal(t)
        \/ H!release_helper(t, H!Local(t), t, H!ACQUIRE_PARENT, H!Left(t), "trycas", "trydrop", "idle")
        \/ H!PassLocal(t) \/ H!Read(t, "unlock", "gcas")
        \/ H!release_helper(t, H!GLOBAL, H!Local(t), H!UNLOCKED, H!Left(H!Local(t)), "gcas", "gpass", "lcas")
        \/ H!release_helper(t, H!Local(t), t, H!ACQUIRE_PARENT, H!Left(t), "lcas", "lpass", H!After(t))
    BY <1>1, HmCalls, Zenon
       DEF H!hmcs, H!hmcs_mutex_lock, H!hmcs_mutex_trylock, H!hmcs_mutex_unlock, H!hmcs_cond_timedwait, Wrapped
  <1>3. H!current_numa_node(t) \subseteq NumaNodes
    BY HmNodes
  <1>4. CASE Wrapped(t)
    BY <1>4, HmWrapped
  <1>5. CASE \E n \in H!current_numa_node(t) : H!LocalEnqueue(t, n)
    BY <1>3, <1>5, HmQueuesUp
  <1>6. CASE H!LinkTo(t, t, "link", "spin") \/ H!LinkTo(t, H!Local(t), "glink", "gspin")
    BY <1>6, HmLinks
  <1>7. CASE H!LocalGranted(t) \/ H!GlobalGranted(t) \/ H!Read(t, "unlock", "gcas")
    BY <1>7, HmReads
  <1>8. CASE H!StartCohort(t, H!Local(t))
    BY <1>8, HmCohort
  <1>9. CASE \E n \in H!current_numa_node(t) : H!TryLocal(t, n, "idle")
    BY <1>3, <1>9, HmTries
  <1>10. CASE H!TryGlobal(t)
    BY <1>10, HmTriesTop
  <1>11. CASE \/ H!release_helper(t, H!Local(t), t, H!ACQUIRE_PARENT, H!Left(t), "trycas", "trydrop", "idle")
              \/ H!release_helper(t, H!Local(t), t, H!ACQUIRE_PARENT, H!Left(t), "lcas", "lpass", H!After(t))
    BY <1>11, HmLeaves
  <1>12. CASE H!PassLocal(t)
    BY <1>12, HmPasses
  <1>13. CASE H!release_helper(t, H!GLOBAL, H!Local(t), H!UNLOCKED, H!Left(H!Local(t)), "gcas", "gpass", "lcas")
    BY <1>13, HmLeavesTop
  <1> QED
    BY <1>2, <1>4, <1>5, <1>6, <1>7, <1>8, <1>9, <1>10, <1>11, <1>12, <1>13

-----------------------------------------------------------------------------
(* All of them.                                                              *)

\* The cohort locks and hyshmcs.c are left to model checking.  The local tickets of
\* htlockepfl.c must not run out: its counters hand out no more than one round of
\* them beside the ticket that fetches the next.
Covered ==
  /\ algo \in {"hmcs", "htlockepfl"}
  /\ algo = "htlockepfl" => Cardinality(Threads) <= NB_TICKETS_LOCAL + 1

AlgoInv ==
  \/ algo = "htlockepfl" /\ HtInv
  \/ algo = "hmcs" /\ HmInv

IInv == ApiInv /\ AlgoInv

LEMMA OneAtATime == IInv => OneHolder
  <1>1. HtInv => OneHolder
    BY DEF HtInv, HtAlone, HtOwns, OneHolder
  <1> QED
    BY <1>1, HmHolds DEF IInv, AlgoInv

LEMMA AlgoSteps ==
  ASSUME IInv, NEW t \in Threads, ThreadStep(t)
  PROVE  AlgoInv' /\ (Allowed(t) \/ Wrapped(t))
  <1>1. ApiInv /\ AlgoInv /\ Calls(t) /\ Batched(t) /\ algo' = algo
    BY DEF IInv, ThreadStep, Batched
  <1>2. CASE algo = "htlockepfl" /\ HtInv
    BY <1>1, <1>2, HtStep DEF AlgoInv
  <1>3. CASE algo = "hmcs" /\ HmInv
    BY <1>1, <1>3, HmStep DEF AlgoInv
  <1> QED
    BY <1>1, <1>2, <1>3, Zenon DEF AlgoInv

LEMMA ThreadSteps ==
  ASSUME IInv, NEW t \in Threads, ThreadStep(t)
  PROVE  IInv' /\ (OneHolder' => [CV!Next]_(CV!vars))
  <1>1. AlgoInv' /\ (Allowed(t) \/ Wrapped(t))
    BY AlgoSteps
  <1>2. ApiInv /\ OneHolder
    BY OneAtATime DEF IInv
  <1>3. CASE Allowed(t)
    <2>1. ApiInv'
      BY <1>2, <1>3, AllowedKeepsApi
    <2>2. ASSUME OneHolder'
          PROVE  [CV!Next]_(CV!vars)
      BY <1>2, <1>3, <2>2, AllowedStep
    <2> QED
      BY <1>1, <2>1, <2>2 DEF IInv
  <1>4. CASE Wrapped(t)
    BY <1>1, <1>2, <1>4, WrappedStep DEF IInv
  <1> QED
    BY <1>1, <1>3, <1>4

LEMMA InitialOf ==
  ASSUME Init, Covered
  PROVE  \/ algo = "htlockepfl" /\ Ht!Init /\ Cardinality(Threads) <= NB_TICKETS_LOCAL + 1
         \/ algo = "hmcs" /\ H!Init
  BY DEF Init, Covered

LEMMA Initially == Init /\ Covered => IInv /\ CV!Init
  <1> SUFFICES ASSUME Init, Covered
               PROVE  IInv /\ CV!Init
    OBVIOUS
  <1>1. batch = 0
    BY DEF Init
  <1>2. pc = [t \in Threads |-> "idle"] /\ posix_lock = NULL /\ inWait = {}
    BY InitialOf DEF Ht!Init, Ht!ApiInit, H!Init, H!ApiInit
  <1>3. ApiInv
    BY <1>2 DEF ApiInv, PcType
  <1>4. AlgoInv
    BY <1>1, InitialOf, HtInitial, HmInitial DEF AlgoInv
  <1>5. CV!Init
    <2>1. \A t \in Threads : AbsPc[t] = "idle"
      <3>1. "idle" \in WrapperPcs
        BY DEF WrapperPcs
      <3> QED
        BY <1>2, <3>1, AbsPcOf, AbsCases
    <2>2. AbsPc = [t \in Threads |-> "idle"]
      BY <2>1, AbsFunction
    <2>3. Holder = NULL
      BY <2>1 DEF Holder, Holders
    <2> QED
      BY <1>2, <2>2, <2>3 DEF CV!Init
  <1> QED
    BY <1>3, <1>4, <1>5 DEF IInv

LEMMA Stutters ==
  ASSUME IInv, UNCHANGED vars
  PROVE  IInv' /\ UNCHANGED CV!vars
  <1>1. algo' = algo /\ batch' = batch /\ lk' = lk /\ nd' = nd /\ loc' = loc /\ pc' = pc
        /\ posix_lock' = posix_lock /\ inWait' = inWait
    BY DEF vars, apiVars, mem
  <1>2. ApiInv' <=> ApiInv
    BY <1>1 DEF ApiInv, PcType
  <1>3. HtInv' <=> HtInv
    <2>1. \A t : (Hold(t)' <=> Hold(t)) /\ (HtTransit(t)' <=> HtTransit(t))
      BY <1>1 DEF Hold, HtTransit
    <2>2. \A t : (HtOwns(t)' <=> HtOwns(t)) /\ (HtLead(t)' <=> HtLead(t)) /\ (HtFollows(t)' <=> HtFollows(t))
      BY <1>1, <2>1 DEF HtOwns, HtLead, HtFollows
    <2>3. \A n : HtLocal(n)' <=> HtLocal(n)
      <3>1. \A n : HtReq(n)' = HtReq(n) /\ HtGrant(n)' = HtGrant(n) /\ (HtLed(n)' <=> HtLed(n))
        BY <1>1, <2>2 DEF HtReq, HtGrant, HtLed
      <3>2. \A t, n : HtBehind(t, n)' <=> HtBehind(t, n)
        BY <1>1, <2>2 DEF HtBehind
      <3> QED
        BY <1>1, <3>1, <3>2 DEF HtLocal
    <2>4. HtGlobal' <=> HtGlobal
      <3>1. HtOwned' = HtOwned /\ HtTopWaits' = HtTopWaits
        BY <1>1, <2>2 DEF HtOwned, HtTopWaits
      <3> QED
        BY <1>1, <3>1 DEF HtGlobal, TicketAt
    <2>5. (HtType' <=> HtType) /\ (HtAlone' <=> HtAlone)
      BY <1>1, <2>2 DEF HtType, HtAlone
    <2>6. \A t : HtKnows(t)' <=> HtKnows(t)
      BY <1>1, <2>1 DEF HtKnows
    <2> QED
      BY <1>1, <2>3, <2>4, <2>5, <2>6 DEF HtInv
  <1>4. HmInv' <=> HmInv
    <2>1. \A Q \in [NumaNodes -> Seq(Threads)], g \in Seq(NumaNodes) : HInv(Q, g)' <=> HInv(Q, g)
      BY <1>1 DEF HInv, Homes, Counts, LocalAt, TopAt, ChainOf, In, NextOf, Linking, TopLinking, Home,
                  Queued, Waits, Up
    <2>2. HmQueues' <=> HmQueues
      BY <2>1 DEF HmQueues
    <2> QED
      BY <1>1, <2>2 DEF HmInv, HmType
  <1>5. AbsPc' = AbsPc
    BY <1>1 DEF AbsPc, After
  <1>6. UNCHANGED CV!vars
    <2>1. Holders' = Holders
      BY <1>5 DEF Holders
    <2>2. Holder' = Holder
      BY <2>1 DEF Holder
    <2> QED
      BY <1>1, <1>5, <2>2 DEF CV!vars
  <1> QED
    BY <1>1, <1>2, <1>3, <1>4, <1>6 DEF IInv, AlgoInv

LEMMA NextSteps ==
  ASSUME IInv, [Next]_vars
  PROVE  IInv' /\ (OneHolder' => [CV!Next]_(CV!vars))
  BY ThreadSteps, Stutters DEF Next

\* Mutual exclusion across the NUMA nodes, from the queues of hmcs.c and the counters
\* of htlockepfl.c alone: for any number of threads and nodes the two-level lock is
\* acquired before the real mutex, released in mutex_unlock or cond_wait and never
\* held by two, so that the condition-variable code around it is CondVar's.
THEOREM NumaLocksCorrect == FairSpec /\ Covered => ImplementsCondVar
  <1>1. Init /\ Covered => IInv /\ CV!Init
    BY Initially
  <1>2. IInv /\ [Next]_vars => IInv'
    BY NextSteps
  <1>3. IInv => OneHolder
    BY OneAtATime
  <1>4. IInv /\ [Next]_vars /\ OneHolder' => [CV!Next]_(CV!vars)
    BY NextSteps
  <1> QED
    BY <1>1, <1>2, <1>3, <1>4, PTL DEF FairSpec, ImplementsCondVar, CV!Spec

\* htlockepfl.c passes the global lock on at most NB_TICKETS_LOCAL times in a row
\* before its unlock releases it to the other nodes.
THEOREM NumaLocksBatch == FairSpec /\ Covered => []BatchBound
  <1>1. Init /\ Covered => IInv
    BY Initially
  <1>2. IInv /\ [Next]_vars => IInv'
    BY NextSteps
  <1>3. IInv => BatchBound
    <2> SUFFICES ASSUME IInv, algo # "hmcs"
                 PROVE  batch <= Limit
      BY DEF BatchBound
    <2>1. algo = "htlockepfl" /\ batch \in 0..NB_TICKETS_LOCAL
      BY DEF IInv, AlgoInv, HtInv
    <2>2. Limit = NB_TICKETS_LOCAL
      BY <2>1 DEF Limit
    <2> QED
      BY <2>1, <2>2
  <1> QED
    BY <1>1, <1>2, <1>3, PTL DEF FairSpec
=============================================================================
