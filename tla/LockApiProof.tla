---------------------------- MODULE LockApiProof ----------------------------
(***************************************************************************)
(* Lemmas for the locks over LockApi.  First, the mapping to CondVar: the  *)
(* steps of an algorithm are Allowed, a move of one thread through the     *)
(* classes of program points that AbsPc is made of, or one of the          *)
(* condition-variable code.  Either is a step of CondVar or none, as long  *)
(* as there is one holder at most (OneHolder).  Then, for the locks built  *)
(* on hmcs.c, its two levels of MCS queues: what the nodes and tails look  *)
(* like at any time, that one thread at a time is at the front of both,    *)
(* and what each step changes.                                             *)
(***************************************************************************)
EXTENDS LockMapping, FiniteSetTheorems, TLAPS

HeldPcs == {"posix", "tryposix", "cs"} \cup UnlockPcs

LockPc(p) == p \notin WrapperPcs \cup UnlockPcs \cup ReleasedPcs \cup TryPcs

Hold(t) == pc[t] \in HeldPcs

OneHolder == \A t, u \in Threads : Hold(t) /\ Hold(u) => t = u

PcType == pc = [t \in Threads |-> pc[t]]

\* What does not depend on the algorithm: a thread in cond_wait is not outside
\* the lock calls, in a trylock or in its critical section.
ApiInv ==
  /\ PcType
  /\ inWait \subseteq Threads
  /\ \A t \in inWait : pc[t] \notin TryPcs \cup {"idle", "cs", "tryposix"}

\* The steps of the condition-variable code ...
Wrapped(t) ==
  \/ CallLock(t) \/ PosixLock(t) \/ PosixTryLock(t) \/ PosixUnlock(t)
  \/ CondTimedwait(t) \/ CondSignal(t) \/ CondBroadcast(t)

\* ... and of an algorithm.
Allowed(t) ==
  /\ PcType' /\ UNCHANGED <<posix_lock, inWait>>
  /\ \/ LockPc(pc[t]) /\ (LockPc(pc'[t]) \/ pc'[t] = "posix")
     \/ pc[t] \in TryPcs \cup {"idle"} /\ pc'[t] \in TryPcs \cup {"idle", "tryposix"}
     \/ pc[t] \in UnlockPcs /\ pc'[t] \in UnlockPcs \cup ReleasedPcs \cup {After(t)}
     \/ pc[t] \in ReleasedPcs /\ pc'[t] \in ReleasedPcs \cup {After(t)}
  /\ \A u \in Threads \ {t} : pc'[u] = pc[u] \/ (LockPc(pc[u]) /\ LockPc(pc'[u]))

AbsOf(t, S, p) ==
  CASE p \in WrapperPcs  -> p
    [] p \in UnlockPcs   -> IF t \in S THEN "cs" ELSE "optunlock"
    [] p \in ReleasedPcs -> IF t \in S THEN "condwait" ELSE "idle"
    [] p \in TryPcs      -> "idle"
    [] OTHER             -> "lock"

-----------------------------------------------------------------------------
(* The mapping to CondVar.                                                   *)

LEMMA AbsPcOf ==
  ASSUME NEW t \in Threads
  PROVE  AbsPc[t] = AbsOf(t, inWait, pc[t])
  BY DEF AbsPc, AbsOf, After

LEMMA AbsPcNext ==
  ASSUME NEW t \in Threads
  PROVE  AbsPc'[t] = AbsOf(t, inWait', pc'[t])
  BY DEF AbsPc, AbsOf, After

LEMMA AbsCases ==
  ASSUME NEW t, NEW S, NEW p
  PROVE  /\ p \in WrapperPcs => AbsOf(t, S, p) = p
         /\ p \in UnlockPcs => AbsOf(t, S, p) = IF t \in S THEN "cs" ELSE "optunlock"
         /\ p \in ReleasedPcs => AbsOf(t, S, p) = IF t \in S THEN "condwait" ELSE "idle"
         /\ p \in TryPcs => AbsOf(t, S, p) = "idle"
         /\ LockPc(p) => AbsOf(t, S, p) = "lock"
  <1>1. /\ WrapperPcs \cap UnlockPcs = {} /\ WrapperPcs \cap ReleasedPcs = {}
        /\ WrapperPcs \cap TryPcs = {} /\ UnlockPcs \cap ReleasedPcs = {}
        /\ UnlockPcs \cap TryPcs = {} /\ ReleasedPcs \cap TryPcs = {}
    BY DEF WrapperPcs, UnlockPcs, ReleasedPcs, TryPcs
  <1> QED
    BY <1>1 DEF AbsOf, LockPc

LEMMA HoldersAre == Holders = {t \in Threads : Hold(t)}
  <1>1. ASSUME NEW t \in Threads
        PROVE  AbsOf(t, inWait, pc[t]) \in {"posix", "tryposix", "cs", "optunlock"} <=> Hold(t)
    <2>1. /\ \A p \in WrapperPcs : p \in {"posix", "tryposix", "cs", "optunlock"}
                                    <=> p \in {"posix", "tryposix", "cs"}
          /\ {"posix", "tryposix", "cs"} \subseteq WrapperPcs
      BY DEF WrapperPcs
    <2>2. UnlockPcs \cap (WrapperPcs \cup ReleasedPcs \cup TryPcs) = {}
      BY DEF WrapperPcs, UnlockPcs, ReleasedPcs, TryPcs
    <2>4. CASE pc[t] \in WrapperPcs
      BY <2>1, <2>2, <2>4, AbsCases DEF Hold, HeldPcs
    <2>5. CASE pc[t] \in UnlockPcs
      BY <2>5, AbsCases DEF Hold, HeldPcs
    <2>6. CASE pc[t] \in ReleasedPcs
      <3>1. pc[t] \notin UnlockPcs /\ pc[t] \notin WrapperPcs
        BY <2>6 DEF WrapperPcs, UnlockPcs, ReleasedPcs
      <3> QED
        BY <2>6, <2>1, <3>1, AbsCases DEF Hold, HeldPcs
    <2>7. CASE pc[t] \in TryPcs
      <3>1. pc[t] \notin UnlockPcs /\ pc[t] \notin WrapperPcs
        BY <2>7 DEF WrapperPcs, UnlockPcs, TryPcs
      <3> QED
        BY <2>7, <2>1, <3>1, AbsCases DEF Hold, HeldPcs
    <2>8. CASE LockPc(pc[t])
      BY <2>8, <2>1, AbsCases DEF Hold, HeldPcs, LockPc
    <2> QED
      BY <2>4, <2>5, <2>6, <2>7, <2>8 DEF LockPc
  <1> QED
    BY <1>1, AbsPcOf DEF Holders

LEMMA HolderIs ==
  ASSUME OneHolder
  PROVE  /\ \A t \in Threads : Hold(t) => Holder = t
         /\ (\A t \in Threads : ~Hold(t)) => Holder = NULL
  BY HoldersAre DEF OneHolder, Holder

\* The threads in cond_wait, as CondVar has them.
AbsWait == {t \in inWait : AbsPc[t] # "cs"}

LEMMA AbsFunction ==
  /\ AbsPc = [t \in Threads |-> AbsPc[t]]
  /\ AbsPc' = [t \in Threads |-> AbsPc'[t]]
  BY DEF AbsPc

\* Where only t moves, and the abstract program counters of the others stay.
LEMMA AbsGoto ==
  ASSUME NEW t \in Threads, NEW p, AbsPc'[t] = p,
         \A u \in Threads \ {t} : AbsPc'[u] = AbsPc[u]
  PROVE  AbsPc' = [AbsPc EXCEPT ![t] = p]
  BY AbsFunction

LEMMA AllowedKeepsApi ==
  ASSUME ApiInv, NEW t \in Threads, Allowed(t)
  PROVE  ApiInv'
  <1>1. /\ PcType' /\ inWait' = inWait /\ inWait \subseteq Threads
    BY DEF ApiInv, Allowed
  <1>2. ASSUME NEW u \in inWait
        PROVE  pc'[u] \notin TryPcs \cup {"idle", "cs", "tryposix"}
    <2>1. pc[u] \notin TryPcs \cup {"idle", "cs", "tryposix"} /\ u \in Threads
      BY <1>1 DEF ApiInv
    <2>2. \A p : LockPc(p) \/ p \in UnlockPcs \cup ReleasedPcs \cup {"posix", "condwait"}
                   => p \notin TryPcs \cup {"idle", "cs", "tryposix"}
      BY DEF LockPc, WrapperPcs, UnlockPcs, ReleasedPcs, TryPcs
    <2>3. CASE u # t
      BY <1>1, <2>1, <2>2, <2>3 DEF Allowed
    <2>4. CASE u = t
      <3>1. After(u) = "condwait"
        BY DEF After
      <3> QED
        BY <2>1, <2>2, <2>4, <3>1 DEF Allowed
    <2> QED
      BY <2>3, <2>4
  <1> QED
    BY <1>1, <1>2 DEF ApiInv

LEMMA AllowedStep ==
  ASSUME ApiInv, OneHolder, OneHolder', NEW t \in Threads, Allowed(t)
  PROVE  [CV!Next]_(CV!vars)
  <1> DEFINE p == pc[t]  q == pc'[t]
  <1>1. /\ inWait' = inWait /\ posix_lock' = posix_lock
        /\ \A u \in Threads \ {t} : pc'[u] = pc[u] \/ (LockPc(pc[u]) /\ LockPc(pc'[u]))
    BY DEF Allowed
  <1>2. \A u \in Threads \ {t} : AbsPc'[u] = AbsPc[u]
    BY <1>1, AbsPcOf, AbsPcNext, AbsCases
  <1>3. /\ AbsPc[t] = AbsOf(t, inWait, p)
        /\ AbsPc'[t] = AbsOf(t, inWait, q)
    BY <1>1, AbsPcOf, AbsPcNext
  <1>4. \A u \in Threads \ {t} : Hold(u)' <=> Hold(u)
    BY <1>1 DEF Hold, HeldPcs, LockPc, WrapperPcs
  <1>5. After(t) = IF t \in inWait THEN "condwait" ELSE "idle"
    BY DEF After
  <1>6. "posix" \in WrapperPcs /\ "tryposix" \in WrapperPcs /\ "idle" \in WrapperPcs
        /\ "condwait" \in WrapperPcs
    BY DEF WrapperPcs
  <1>7. Hold(t) <=> p \in HeldPcs
    BY DEF Hold
  <1>8. Hold(t)' <=> q \in HeldPcs
    BY DEF Hold
  <1>9. t \in inWait => p \notin TryPcs \cup {"idle"}
    BY DEF ApiInv
  <1>10. \A w \in UnlockPcs : w \in HeldPcs
    BY DEF HeldPcs
  <1>11. \A w : LockPc(w) \/ w \in ReleasedPcs \cup TryPcs \cup {"idle", "condwait"} => w \notin HeldPcs
    BY DEF HeldPcs, LockPc, WrapperPcs, UnlockPcs, ReleasedPcs, TryPcs
  <1>12. {"posix", "tryposix"} \subseteq HeldPcs
    BY DEF HeldPcs
  <1>13. AbsPc'[t] = AbsPc[t] /\ (Hold(t)' <=> Hold(t)) => UNCHANGED CV!vars
    <2> SUFFICES ASSUME AbsPc'[t] = AbsPc[t], Hold(t)' <=> Hold(t)
                 PROVE  UNCHANGED CV!vars
      OBVIOUS
    <2>1. AbsPc' = AbsPc
      BY <1>2, AbsFunction
    <2>2. Holder' = Holder
      <3>1. Holders' = Holders
        BY <2>1 DEF Holders
      <3> QED
        BY <3>1 DEF Holder
    <2>3. AbsWait' = AbsWait
      BY <1>1, <2>1 DEF AbsWait
    <2> QED
      BY <1>1, <2>1, <2>2, <2>3 DEF CV!vars, AbsWait
  <1>14. ASSUME q \in {"posix", "tryposix"}, AbsPc[t] = IF q = "posix" THEN "lock" ELSE "idle",
                p \notin HeldPcs
         PROVE  CV!Next
    <2>1. Hold(t)' /\ ~Hold(t)
      BY <1>7, <1>8, <1>12, <1>14
    <2>2. \A u \in Threads : ~Hold(u)
      BY <1>4, <2>1 DEF OneHolder
    <2>4. AbsPc'[t] = q
      BY <1>3, <1>6, <1>14, AbsCases
    <2>3. Holder = NULL /\ Holder' = t
      <3>1. Holder = NULL
        BY <2>2, HolderIs
      <3>2. \A u \in Threads \ {t} : u \notin Holders /\ AbsPc'[u] = AbsPc[u]
        BY <1>2, <2>2, HoldersAre
      <3>3. Holders' = {t}
        BY <1>14, <2>4, <3>2 DEF Holders
      <3> QED
        BY <3>1, <3>3 DEF Holder
    <2>5. AbsPc' = [AbsPc EXCEPT ![t] = q]
      BY <1>2, <2>4, AbsGoto
    <2>6. AbsWait' = AbsWait
      <3>1. AbsPc[t] # "cs" /\ AbsPc'[t] # "cs"
        BY <1>14, <2>4
      <3> QED
        BY <1>1, <1>2, <3>1 DEF AbsWait, ApiInv
    <2>7. CASE q = "posix"
      <3>1. CV!OptLock(t)
        BY <1>1, <1>14, <2>3, <2>5, <2>6, <2>7 DEF CV!OptLock, CV!Goto, AbsWait
      <3> QED
        BY <3>1 DEF CV!Next, CV!Finish
    <2>8. CASE q = "tryposix"
      <3>1. CV!TryLock(t)
        BY <1>1, <1>14, <2>3, <2>5, <2>6, <2>8 DEF CV!TryLock, CV!Goto, AbsWait
      <3> QED
        BY <3>1 DEF CV!Next
    <2> QED
      BY <1>14, <2>7, <2>8
  <1>15. ASSUME p \in UnlockPcs, q \in ReleasedPcs \cup {After(t)}
         PROVE  CV!Next
    <2>1. Hold(t) /\ ~Hold(t)'
      BY <1>5, <1>7, <1>8, <1>10, <1>11, <1>15
    <2>2. \A u \in Threads : ~Hold(u)'
      BY <1>4, <2>1 DEF OneHolder
    <2>3. Holder = t /\ Holder' = NULL
      <3>1. Holder = t
        BY <2>1, HolderIs
      <3>2. \A u \in Threads \ {t} : u \notin Holders /\ AbsPc'[u] = AbsPc[u]
        BY <1>2, <2>1, HoldersAre DEF OneHolder
      <3>3. AbsPc'[t] = After(t)
        BY <1>3, <1>5, <1>6, <1>15, AbsCases
      <3>4. Holders' = {}
        BY <1>5, <3>2, <3>3 DEF Holders
      <3> QED
        BY <3>1, <3>4 DEF Holder
    <2>4. AbsPc[t] = (IF t \in inWait THEN "cs" ELSE "optunlock") /\ AbsPc'[t] = After(t)
      BY <1>3, <1>5, <1>6, <1>15, AbsCases
    <2>5. AbsPc' = [AbsPc EXCEPT ![t] = After(t)]
      BY <1>2, <2>4, AbsGoto
    <2>6. CASE t \in inWait
      <3>1. AbsWait' = AbsWait \cup {t}
        BY <1>1, <1>2, <1>5, <2>4, <2>6 DEF AbsWait, ApiInv
      <3>2. CV!WaitOptUnlock(t)
        BY <1>1, <1>5, <2>3, <2>4, <2>5, <2>6, <3>1 DEF CV!WaitOptUnlock, CV!Goto, AbsWait
      <3> QED
        BY <3>2 DEF CV!Next
    <2>7. CASE t \notin inWait
      <3>1. AbsWait' = AbsWait
        BY <1>1, <1>2, <2>7 DEF AbsWait, ApiInv
      <3>2. CV!OptUnlock(t)
        BY <1>1, <1>5, <2>3, <2>4, <2>5, <2>7, <3>1 DEF CV!OptUnlock, CV!Goto, AbsWait
      <3> QED
        BY <3>2 DEF CV!Next, CV!Finish
    <2> QED
      BY <2>6, <2>7
  <1>16. CASE LockPc(p) /\ LockPc(q)
    BY <1>3, <1>7, <1>8, <1>11, <1>13, <1>16, AbsCases
  <1>17. CASE LockPc(p) /\ q = "posix"
    BY <1>3, <1>11, <1>14, <1>17, AbsCases
  <1>18. CASE p \in TryPcs \cup {"idle"} /\ q \in TryPcs \cup {"idle"}
    BY <1>3, <1>6, <1>7, <1>8, <1>11, <1>13, <1>18, AbsCases
  <1>19. CASE p \in TryPcs \cup {"idle"} /\ q = "tryposix"
    BY <1>3, <1>6, <1>11, <1>14, <1>19, AbsCases
  <1>20. CASE p \in UnlockPcs /\ q \in UnlockPcs
    BY <1>3, <1>7, <1>8, <1>10, <1>13, <1>20, AbsCases
  <1>21. CASE p \in ReleasedPcs /\ q \in ReleasedPcs \cup {After(t)}
    BY <1>3, <1>5, <1>6, <1>7, <1>8, <1>11, <1>13, <1>21, AbsCases
  <1> QED
    BY <1>15, <1>16, <1>17, <1>18, <1>19, <1>20, <1>21 DEF Allowed

-----------------------------------------------------------------------------
(* The code around the algorithms: it changes no memory of theirs, and moves *)
(* nobody who waits.                                                         *)

RestPcs == {"idle", "condwait", "waiting", "woken", "unwait"}

\* What a step of it does to a thread, if anything.
Around(u) ==
  \/ pc'[u] = pc[u]
  \/ pc[u] \in {"posix", "tryposix", "cs"} /\ pc'[u] \in {"cs", "unlock"}
  \/ pc[u] \in RestPcs /\ pc'[u] \in {"lock", "waiting", "woken", "unwait"}

LEMMA AtPcs ==
  ASSUME NEW f, NEW S, f \in [Threads -> S], NEW t \in Threads, NEW x
  PROVE  /\ [f EXCEPT ![t] = x][t] = x
         /\ \A u \in Threads \ {t} : [f EXCEPT ![t] = x][u] = f[u]
         /\ [f EXCEPT ![t] = x] \in [Threads -> S \cup {x}]
  OBVIOUS

LEMMA AtPc ==
  ASSUME PcType, NEW t \in Threads, NEW x,
         pc' = [pc EXCEPT ![t] = x]
  PROVE  /\ pc'[t] = x /\ \A u \in Threads \ {t} : pc'[u] = pc[u]
         /\ PcType'
  BY DEF PcType

AroundAbs(t, S, p) ==
  IF p = "lock" THEN "lock" ELSE IF p = "unlock" THEN (IF t \in S THEN "cs" ELSE "optunlock") ELSE p

LEMMA WrappedStep ==
  ASSUME ApiInv, OneHolder, NEW t \in Threads, Wrapped(t)
  PROVE  /\ ApiInv' /\ [CV!Next]_(CV!vars)
         /\ mem' = mem /\ \A u \in Threads : Around(u)
  <1>0. /\ PcType /\ inWait \subseteq Threads
        /\ \A u \in inWait : pc[u] \notin TryPcs \cup {"idle", "cs", "tryposix"}
    BY DEF ApiInv
  <1> DEFINE W == WrapperPcs \cup {"lock", "unlock"}
  <1>1. /\ \A u \in Threads : pc[u] \in W => AbsPc[u] = AroundAbs(u, inWait, pc[u])
        /\ \A u \in Threads : pc'[u] \in W => AbsPc'[u] = AroundAbs(u, inWait', pc'[u])
    <2>1. "lock" \notin WrapperPcs \cup UnlockPcs \cup ReleasedPcs \cup TryPcs
      BY DEF WrapperPcs, UnlockPcs, ReleasedPcs, TryPcs
    <2>2. "unlock" \in UnlockPcs /\ "unlock" \notin WrapperPcs
      BY DEF WrapperPcs, UnlockPcs
    <2>3. /\ \A u \in Threads : pc[u] \in WrapperPcs => AbsPc[u] = pc[u]
          /\ \A u \in Threads : pc'[u] \in WrapperPcs => AbsPc'[u] = pc'[u]
          /\ \A u \in Threads : pc[u] = "lock" => AbsPc[u] = "lock"
          /\ \A u \in Threads : pc'[u] = "lock" => AbsPc'[u] = "lock"
          /\ \A u \in Threads : pc[u] = "unlock" => AbsPc[u] = IF u \in inWait THEN "cs" ELSE "optunlock"
          /\ \A u \in Threads : pc'[u] = "unlock" => AbsPc'[u] = IF u \in inWait' THEN "cs" ELSE "optunlock"
      <3>1. \A u \in Threads : pc[u] \in WrapperPcs => AbsPc[u] = pc[u]
        BY AbsPcOf, AbsPcNext, AbsCases
      <3>2. \A u \in Threads : pc'[u] \in WrapperPcs => AbsPc'[u] = pc'[u]
        BY AbsPcOf, AbsPcNext, AbsCases
      <3>3. \A u \in Threads : pc[u] = "lock" => AbsPc[u] = "lock"
        BY <2>1, AbsPcOf, AbsPcNext, AbsCases DEF LockPc
      <3>4. \A u \in Threads : pc'[u] = "lock" => AbsPc'[u] = "lock"
        BY <2>1, AbsPcOf, AbsPcNext, AbsCases DEF LockPc
      <3>5. \A u \in Threads : pc[u] = "unlock" => AbsPc[u] = IF u \in inWait THEN "cs" ELSE "optunlock"
        BY <2>2, AbsPcOf, AbsPcNext, AbsCases
      <3>6. \A u \in Threads : pc'[u] = "unlock" => AbsPc'[u] = IF u \in inWait' THEN "cs" ELSE "optunlock"
        BY <2>2, AbsPcOf, AbsPcNext, AbsCases
      <3> QED
        BY <3>1, <3>2, <3>3, <3>4, <3>5, <3>6
    <2>4. \A p \in WrapperPcs : p # "lock" /\ p # "unlock"
      BY <2>1, <2>2
    <2>5. \A p : p \in W => p \in WrapperPcs \/ p = "lock" \/ p = "unlock"
      OBVIOUS
    <2> QED
      BY <2>3, <2>4, <2>5 DEF AroundAbs
  \* The cases: one thread goes from p to q, with the real mutex and inWait changed as told.
  <1>2. ASSUME NEW u \in Threads, NEW p \in W, NEW q \in W, pc[u] = p, pc' = [pc EXCEPT ![u] = q],
               inWait' \subseteq inWait \cup {u}, inWait \subseteq inWait' \cup {u}
        PROVE  /\ pc'[u] = q /\ \A v \in Threads \ {u} : pc'[v] = pc[v]
               /\ PcType' /\ inWait' \subseteq Threads
               /\ \A v \in Threads \ {u} : (v \in inWait' <=> v \in inWait)
               /\ AbsPc[u] = AroundAbs(u, inWait, p) /\ AbsPc'[u] = AroundAbs(u, inWait', q)
               /\ AbsPc' = [AbsPc EXCEPT ![u] = AroundAbs(u, inWait', q)]
    <2>2. /\ pc'[u] = q /\ \A v \in Threads \ {u} : pc'[v] = pc[v]
          /\ PcType' /\ inWait' \subseteq Threads
          /\ \A v \in Threads \ {u} : (v \in inWait' <=> v \in inWait)
      BY <1>0, <1>2 DEF PcType
    <2>3. \A v \in Threads \ {u} : AbsPc'[v] = AbsPc[v]
      BY <2>2 DEF AbsPc, After
    <2>4. AbsPc[u] = AroundAbs(u, inWait, p) /\ AbsPc'[u] = AroundAbs(u, inWait', q)
      BY <1>1, <1>2, <2>2
    <2> QED
      BY <2>2, <2>3, <2>4, AbsGoto
  <1>3. \A p, q : p \in {"idle", "posix", "tryposix", "cs", "condwait", "waiting", "woken", "unwait",
                        "lock", "unlock"} => p \in W
    BY DEF WrapperPcs
  <1>5. \A u \in Threads : pc[u] \in {"idle", "cs", "tryposix"} => u \notin inWait
    BY <1>0
  <1>6. ASSUME NEW u \in Threads, NEW p \in W, NEW q \in W, pc[u] = p, pc' = [pc EXCEPT ![u] = q],
               p \in {"posix", "tryposix", "cs"} <=> q \in {"posix", "tryposix", "cs", "unlock"},
               p # "unlock",
               inWait' \subseteq inWait \cup {u}, inWait \subseteq inWait' \cup {u}
        PROVE  Holder' = Holder
    <2>0. /\ AbsPc[u] = AroundAbs(u, inWait, p) /\ AbsPc'[u] = AroundAbs(u, inWait', q)
          /\ AbsPc' = [AbsPc EXCEPT ![u] = AroundAbs(u, inWait', q)]
      BY <1>2, <1>6
    <2>1. Holders' = Holders
      <3>1. \A v \in Threads \ {u} : AbsPc'[v] = AbsPc[v]
        BY <2>0, AbsFunction
      <3>2. AbsPc[u] \in {"posix", "tryposix", "cs", "optunlock"}
              <=> AbsPc'[u] \in {"posix", "tryposix", "cs", "optunlock"}
        BY <1>6, <2>0 DEF AroundAbs, WrapperPcs
      <3> QED
        BY <3>1, <3>2 DEF Holders
    <2> QED
      BY <2>1 DEF Holder
  <1>7. ASSUME NEW u \in Threads, RealWake(u)
        PROVE  ApiInv' /\ CV!Next /\ mem' = mem /\ \A v \in Threads : Around(v)
    <2>1. /\ pc[u] = "waiting" /\ pc' = [pc EXCEPT ![u] = "woken"]
          /\ UNCHANGED <<posix_lock, inWait>> /\ mem' = mem
      BY <1>7 DEF RealWake, Read, Step
    <2>2. /\ pc'[u] = "woken" /\ \A v \in Threads \ {u} : pc'[v] = pc[v]
          /\ PcType'
          /\ AbsPc[u] = "waiting" /\ AbsPc'[u] = "woken" /\ AbsPc' = [AbsPc EXCEPT ![u] = "woken"]
      <3>1. /\ pc'[u] = "woken" /\ \A v \in Threads \ {u} : pc'[v] = pc[v]
            /\ PcType'
            /\ AbsPc[u] = AroundAbs(u, inWait, "waiting") /\ AbsPc'[u] = AroundAbs(u, inWait', "woken")
            /\ AbsPc' = [AbsPc EXCEPT ![u] = AroundAbs(u, inWait', "woken")]
        BY <1>2, <1>3, <2>1
      <3> QED
        BY <1>5, <2>1, <3>1 DEF AroundAbs
    <2>3. Holder' = Holder
      BY <1>3, <1>6, <2>1
    <2>4. AbsWait' = AbsWait
      BY <2>1, <2>2, AbsFunction DEF AbsWait
    <2>5. CV!RealWake(u)
      BY <2>1, <2>2, <2>3, <2>4 DEF CV!RealWake, CV!Goto, AbsWait
    <2>6. ApiInv'
      BY <1>0, <2>1, <2>2 DEF ApiInv, TryPcs
    <2> QED
      BY <2>1, <2>2, <2>5, <2>6 DEF CV!Next, Around, RestPcs
  <1>8. CASE CallLock(t)
    <2>1. /\ pc[t] = "idle" /\ pc' = [pc EXCEPT ![t] = "lock"]
          /\ posix_lock' = posix_lock /\ inWait' = inWait /\ mem' = mem
      BY <1>8 DEF CallLock, Read, Step
    <2>2. /\ pc'[t] = "lock" /\ \A v \in Threads \ {t} : pc'[v] = pc[v]
          /\ PcType'
          /\ AbsPc[t] = "idle" /\ AbsPc'[t] = "lock" /\ AbsPc' = [AbsPc EXCEPT ![t] = "lock"]
      <3>1. /\ pc'[t] = "lock" /\ \A v \in Threads \ {t} : pc'[v] = pc[v]
            /\ PcType'
            /\ AbsPc[t] = AroundAbs(t, inWait, "idle") /\ AbsPc'[t] = AroundAbs(t, inWait', "lock")
            /\ AbsPc' = [AbsPc EXCEPT ![t] = AroundAbs(t, inWait', "lock")]
        BY <1>2, <1>3, <1>5, <2>1
      <3> QED
        BY <1>5, <2>1, <3>1 DEF AroundAbs
    <2>3. Holder' = Holder
      BY <1>3, <1>6, <2>1
    <2>4. AbsWait' = AbsWait
      BY <1>0, <1>5, <2>1, <2>2, AbsFunction DEF AbsWait
    <2>5. CV!CallLock(t)
      BY <2>1, <2>2, <2>3, <2>4 DEF CV!CallLock, CV!Goto, AbsWait
    <2>6. ApiInv'
      BY <1>0, <1>5, <2>1, <2>2 DEF ApiInv, TryPcs
    <2> QED
      BY <2>1, <2>2, <2>5, <2>6 DEF CV!Next, CV!Finish, Around, RestPcs
  <1>9. CASE PosixLock(t)
    <2>1. /\ pc[t] = "posix" /\ pc' = [pc EXCEPT ![t] = "cs"] /\ posix_lock = NULL
          /\ posix_lock' = t /\ inWait' = inWait \ {t} /\ mem' = mem
      BY <1>9 DEF PosixLock
    <2>2. /\ pc'[t] = "cs" /\ \A v \in Threads \ {t} : pc'[v] = pc[v]
          /\ PcType'
          /\ AbsPc[t] = "posix" /\ AbsPc'[t] = "cs" /\ AbsPc' = [AbsPc EXCEPT ![t] = "cs"]
      <3>1. /\ pc'[t] = "cs" /\ \A v \in Threads \ {t} : pc'[v] = pc[v]
            /\ PcType'
            /\ AbsPc[t] = AroundAbs(t, inWait, "posix") /\ AbsPc'[t] = AroundAbs(t, inWait', "cs")
            /\ AbsPc' = [AbsPc EXCEPT ![t] = AroundAbs(t, inWait', "cs")]
        BY <1>2, <1>3, <1>5, <2>1
      <3> QED
        BY <1>5, <2>1, <3>1 DEF AroundAbs
    <2>3. Holder' = Holder
      BY <1>3, <1>6, <2>1
    <2>4. AbsWait' = AbsWait \ {t}
      BY <1>0, <1>5, <2>1, <2>2, AbsFunction DEF AbsWait
    <2>5. CV!PosixLock(t)
      BY <2>1, <2>2, <2>3, <2>4 DEF CV!PosixLock, CV!Goto, AbsWait
    <2>6. ApiInv'
      BY <1>0, <1>5, <2>1, <2>2 DEF ApiInv, TryPcs
    <2> QED
      BY <2>1, <2>2, <2>5, <2>6 DEF CV!Next, CV!Finish, Around, RestPcs
  <1>10. CASE PosixTryLock(t)
    <2>1. /\ pc[t] = "tryposix" /\ pc' = [pc EXCEPT ![t] = "cs"] /\ posix_lock = NULL
          /\ posix_lock' = t /\ inWait' = inWait /\ mem' = mem
      BY <1>10 DEF PosixTryLock
    <2>2. /\ pc'[t] = "cs" /\ \A v \in Threads \ {t} : pc'[v] = pc[v]
          /\ PcType'
          /\ AbsPc[t] = "tryposix" /\ AbsPc'[t] = "cs" /\ AbsPc' = [AbsPc EXCEPT ![t] = "cs"]
      <3>1. /\ pc'[t] = "cs" /\ \A v \in Threads \ {t} : pc'[v] = pc[v]
            /\ PcType'
            /\ AbsPc[t] = AroundAbs(t, inWait, "tryposix") /\ AbsPc'[t] = AroundAbs(t, inWait', "cs")
            /\ AbsPc' = [AbsPc EXCEPT ![t] = AroundAbs(t, inWait', "cs")]
        BY <1>2, <1>3, <1>5, <2>1
      <3> QED
        BY <1>5, <2>1, <3>1 DEF AroundAbs
    <2>3. Holder' = Holder
      BY <1>3, <1>6, <2>1
    <2>4. AbsWait' = AbsWait
      BY <1>0, <1>5, <2>1, <2>2, AbsFunction DEF AbsWait
    <2>5. CV!PosixTryLock(t)
      BY <2>1, <2>2, <2>3, <2>4 DEF CV!PosixTryLock, CV!Goto, AbsWait
    <2>6. ApiInv'
      BY <1>0, <1>5, <2>1, <2>2 DEF ApiInv, TryPcs
    <2> QED
      BY <2>1, <2>2, <2>5, <2>6 DEF CV!Next, CV!Finish, Around, RestPcs
  <1>11. CASE PosixUnlock(t)
    <2>1. /\ pc[t] = "cs" /\ pc' = [pc EXCEPT ![t] = "unlock"]
          /\ posix_lock' = NULL /\ inWait' = inWait /\ mem' = mem
      BY <1>11 DEF PosixUnlock
    <2>2. /\ pc'[t] = "unlock" /\ \A v \in Threads \ {t} : pc'[v] = pc[v]
          /\ PcType'
          /\ AbsPc[t] = "cs" /\ AbsPc'[t] = "optunlock" /\ AbsPc' = [AbsPc EXCEPT ![t] = "optunlock"]
      <3>1. /\ pc'[t] = "unlock" /\ \A v \in Threads \ {t} : pc'[v] = pc[v]
            /\ PcType'
            /\ AbsPc[t] = AroundAbs(t, inWait, "cs") /\ AbsPc'[t] = AroundAbs(t, inWait', "unlock")
            /\ AbsPc' = [AbsPc EXCEPT ![t] = AroundAbs(t, inWait', "unlock")]
        BY <1>2, <1>3, <1>5, <2>1
      <3> QED
        BY <1>5, <2>1, <3>1 DEF AroundAbs
    <2>3. Holder' = Holder
      BY <1>3, <1>6, <2>1
    <2>4. AbsWait' = AbsWait
      BY <1>0, <1>5, <2>1, <2>2, AbsFunction DEF AbsWait
    <2>5. CV!PosixUnlock(t)
      BY <2>1, <2>2, <2>3, <2>4 DEF CV!PosixUnlock, CV!Goto, AbsWait
    <2>6. ApiInv'
      BY <1>0, <1>5, <2>1, <2>2 DEF ApiInv, TryPcs
    <2> QED
      BY <2>1, <2>2, <2>5, <2>6 DEF CV!Next, CV!Finish, Around, RestPcs
  <1>12. CASE RealWait(t)
    <2>1. /\ pc[t] = "condwait" /\ pc' = [pc EXCEPT ![t] = "waiting"]
          /\ posix_lock' = NULL /\ inWait' = inWait /\ mem' = mem
      BY <1>12 DEF RealWait
    <2>2. /\ pc'[t] = "waiting" /\ \A v \in Threads \ {t} : pc'[v] = pc[v]
          /\ PcType'
          /\ AbsPc[t] = "condwait" /\ AbsPc'[t] = "waiting" /\ AbsPc' = [AbsPc EXCEPT ![t] = "waiting"]
      <3>1. /\ pc'[t] = "waiting" /\ \A v \in Threads \ {t} : pc'[v] = pc[v]
            /\ PcType'
            /\ AbsPc[t] = AroundAbs(t, inWait, "condwait") /\ AbsPc'[t] = AroundAbs(t, inWait', "waiting")
            /\ AbsPc' = [AbsPc EXCEPT ![t] = AroundAbs(t, inWait', "waiting")]
        BY <1>2, <1>3, <1>5, <2>1
      <3> QED
        BY <1>5, <2>1, <3>1 DEF AroundAbs
    <2>3. Holder' = Holder
      BY <1>3, <1>6, <2>1
    <2>4. AbsWait' = AbsWait
      BY <1>0, <1>5, <2>1, <2>2, AbsFunction DEF AbsWait
    <2>5. CV!RealWait(t)
      BY <2>1, <2>2, <2>3, <2>4 DEF CV!RealWait, CV!Goto, AbsWait
    <2>6. ApiInv'
      BY <1>0, <1>5, <2>1, <2>2 DEF ApiInv, TryPcs
    <2> QED
      BY <2>1, <2>2, <2>5, <2>6 DEF CV!Next, CV!Finish, Around, RestPcs
  <1>13. CASE RealReturn(t)
    <2>1. /\ pc[t] = "woken" /\ pc' = [pc EXCEPT ![t] = "unwait"] /\ posix_lock = NULL
          /\ posix_lock' = t /\ inWait' = inWait /\ mem' = mem
      BY <1>13 DEF RealReturn
    <2>2. /\ pc'[t] = "unwait" /\ \A v \in Threads \ {t} : pc'[v] = pc[v]
          /\ PcType'
          /\ AbsPc[t] = "woken" /\ AbsPc'[t] = "unwait" /\ AbsPc' = [AbsPc EXCEPT ![t] = "unwait"]
      <3>1. /\ pc'[t] = "unwait" /\ \A v \in Threads \ {t} : pc'[v] = pc[v]
            /\ PcType'
            /\ AbsPc[t] = AroundAbs(t, inWait, "woken") /\ AbsPc'[t] = AroundAbs(t, inWait', "unwait")
            /\ AbsPc' = [AbsPc EXCEPT ![t] = AroundAbs(t, inWait', "unwait")]
        BY <1>2, <1>3, <1>5, <2>1
      <3> QED
        BY <1>5, <2>1, <3>1 DEF AroundAbs
    <2>3. Holder' = Holder
      BY <1>3, <1>6, <2>1
    <2>4. AbsWait' = AbsWait
      BY <1>0, <1>5, <2>1, <2>2, AbsFunction DEF AbsWait
    <2>5. CV!RealReturn(t)
      BY <2>1, <2>2, <2>3, <2>4 DEF CV!RealReturn, CV!Goto, AbsWait
    <2>6. ApiInv'
      BY <1>0, <1>5, <2>1, <2>2 DEF ApiInv, TryPcs
    <2> QED
      BY <2>1, <2>2, <2>5, <2>6 DEF CV!Next, CV!Finish, Around, RestPcs
  <1>14. CASE WaitPosixUnlock(t)
    <2>1. /\ pc[t] = "unwait" /\ pc' = [pc EXCEPT ![t] = "lock"]
          /\ posix_lock' = NULL /\ inWait' = inWait /\ mem' = mem
      BY <1>14 DEF WaitPosixUnlock
    <2>2. /\ pc'[t] = "lock" /\ \A v \in Threads \ {t} : pc'[v] = pc[v]
          /\ PcType'
          /\ AbsPc[t] = "unwait" /\ AbsPc'[t] = "lock" /\ AbsPc' = [AbsPc EXCEPT ![t] = "lock"]
      <3>1. /\ pc'[t] = "lock" /\ \A v \in Threads \ {t} : pc'[v] = pc[v]
            /\ PcType'
            /\ AbsPc[t] = AroundAbs(t, inWait, "unwait") /\ AbsPc'[t] = AroundAbs(t, inWait', "lock")
            /\ AbsPc' = [AbsPc EXCEPT ![t] = AroundAbs(t, inWait', "lock")]
        BY <1>2, <1>3, <1>5, <2>1
      <3> QED
        BY <1>5, <2>1, <3>1 DEF AroundAbs
    <2>3. Holder' = Holder
      BY <1>3, <1>6, <2>1
    <2>4. AbsWait' = AbsWait
      BY <1>0, <1>5, <2>1, <2>2, AbsFunction DEF AbsWait
    <2>5. CV!WaitPosixUnlock(t)
      BY <2>1, <2>2, <2>3, <2>4 DEF CV!WaitPosixUnlock, CV!Goto, AbsWait
    <2>6. ApiInv'
      BY <1>0, <1>5, <2>1, <2>2 DEF ApiInv, TryPcs
    <2> QED
      BY <2>1, <2>2, <2>5, <2>6 DEF CV!Next, CV!Finish, Around, RestPcs
  <1>15. CASE CallWait(t)
    <2>1. /\ pc[t] = "cs" /\ pc' = [pc EXCEPT ![t] = "unlock"]
          /\ posix_lock' = posix_lock /\ inWait' = inWait \cup {t} /\ mem' = mem
      BY <1>15 DEF CallWait
    <2>2. /\ pc'[t] = "unlock" /\ \A v \in Threads \ {t} : pc'[v] = pc[v]
          /\ PcType'
          /\ AbsPc[t] = "cs" /\ AbsPc'[t] = "cs" /\ AbsPc' = [AbsPc EXCEPT ![t] = "cs"]
      <3>1. /\ pc'[t] = "unlock" /\ \A v \in Threads \ {t} : pc'[v] = pc[v]
            /\ PcType'
            /\ AbsPc[t] = AroundAbs(t, inWait, "cs") /\ AbsPc'[t] = AroundAbs(t, inWait', "unlock")
            /\ AbsPc' = [AbsPc EXCEPT ![t] = AroundAbs(t, inWait', "unlock")]
        BY <1>2, <1>3, <1>5, <2>1
      <3> QED
        BY <1>5, <2>1, <3>1 DEF AroundAbs
    <2>3. Holder' = Holder
      BY <1>3, <1>6, <2>1
    <2>4. AbsWait' = AbsWait /\ AbsPc' = AbsPc
      BY <1>0, <1>5, <2>1, <2>2, AbsFunction DEF AbsWait
    <2>5. UNCHANGED CV!vars
      BY <2>1, <2>3, <2>4 DEF CV!vars, AbsWait
    <2>6. ApiInv'
      BY <1>0, <1>5, <2>1, <2>2 DEF ApiInv, TryPcs
    <2> QED
      BY <2>1, <2>2, <2>5, <2>6 DEF Around
  <1>16. CASE CondBroadcast(t)
    <2>1. /\ \E u \in Threads : pc[u] = "waiting"
          /\ pc' = [u \in Threads |-> IF pc[u] = "waiting" THEN "woken" ELSE pc[u]]
          /\ posix_lock' = posix_lock /\ inWait' = inWait /\ mem' = mem
      BY <1>16 DEF CondBroadcast
    <2>2. /\ \A u \in Threads : pc[u] = "waiting" => pc'[u] = "woken"
          /\ \A u \in Threads : pc[u] # "waiting" => pc'[u] = pc[u]
          /\ PcType'
      BY <1>0, <2>1 DEF PcType
    <2>3. \A u \in Threads : AbsPc[u] = "waiting" <=> pc[u] = "waiting"
      <3>1. "waiting" \in WrapperPcs /\ "waiting" \notin UnlockPcs \cup ReleasedPcs \cup TryPcs
        BY DEF WrapperPcs, UnlockPcs, ReleasedPcs, TryPcs
      <3> QED
        BY <3>1 DEF AbsPc, After
    <2>4. \A u \in Threads : AbsPc'[u] = IF AbsPc[u] = "waiting" THEN "woken" ELSE AbsPc[u]
      <3> SUFFICES ASSUME NEW u \in Threads
                   PROVE  AbsPc'[u] = IF AbsPc[u] = "waiting" THEN "woken" ELSE AbsPc[u]
        OBVIOUS
      <3>1. CASE pc[u] = "waiting"
        BY <1>1, <1>3, <2>2, <2>3, <3>1 DEF AroundAbs
      <3>2. CASE pc[u] # "waiting"
        BY <2>1, <2>2, <2>3, <3>2, AbsPcOf, AbsPcNext
      <3> QED
        BY <3>1, <3>2
    <2>5. AbsPc' = [u \in Threads |-> IF AbsPc[u] = "waiting" THEN "woken" ELSE AbsPc[u]]
      BY <2>4, AbsFunction
    <2>6. Holder' = Holder /\ AbsWait' = AbsWait
      <3>1. Holders' = Holders
        BY <2>4 DEF Holders
      <3> QED
        BY <1>0, <2>1, <2>4, <3>1 DEF Holder, AbsWait
    <2>7. CV!Broadcast
      BY <2>1, <2>3, <2>5, <2>6 DEF CV!Broadcast, AbsWait
    <2>8. ApiInv'
      BY <1>0, <2>1, <2>2 DEF ApiInv, TryPcs
    <2> QED
      BY <2>1, <2>2, <2>7, <2>8 DEF CV!Next, Around, RestPcs
  <1> QED
    BY <1>7, <1>8, <1>9, <1>10, <1>11, <1>12, <1>13, <1>14, <1>15, <1>16
    DEF Wrapped, CondTimedwait, CondSignal

-----------------------------------------------------------------------------
(* What the proofs about the algorithms share.                               *)

\* A move of a call from p to q.
Legal(t, p, q) ==
  \/ LockPc(p) /\ (LockPc(q) \/ q = "posix")
  \/ p \in TryPcs \cup {"idle"} /\ q \in TryPcs \cup {"idle", "tryposix"}
  \/ p \in UnlockPcs /\ q \in UnlockPcs \cup ReleasedPcs \cup {After(t)}
  \/ p \in ReleasedPcs /\ q \in ReleasedPcs \cup {After(t)}

LEMMA LockPcs ==
  \A p \in {"lock", "tas", "spin", "swap", "futex", "asleep", "mark", "link", "sleep", "respin",
            "enter"} : LockPc(p) /\ p \notin HeldPcs
  BY DEF LockPc, HeldPcs, WrapperPcs, UnlockPcs, ReleasedPcs, TryPcs

LEMMA NotHeld ==
  /\ \A p \in TryPcs \cup ReleasedPcs \cup RestPcs : p \notin HeldPcs
  /\ \A t : After(t) \in RestPcs
  /\ UnlockPcs \subseteq HeldPcs
  BY DEF HeldPcs, UnlockPcs, ReleasedPcs, TryPcs, RestPcs, After

LEMMA StepMoves ==
  ASSUME ApiInv, NEW t \in Threads, NEW p, NEW q, Step(t, p, q)
  PROVE  /\ pc[t] = p /\ pc'[t] = q /\ \A u \in Threads \ {t} : pc'[u] = pc[u]
         /\ \A u \in Threads \ {t} : Hold(u)' <=> Hold(u)
         /\ Hold(t) <=> p \in HeldPcs
         /\ Hold(t)' <=> q \in HeldPcs
         /\ Legal(t, p, q) => Allowed(t)
  <1>1. pc[t] = p /\ pc' = [pc EXCEPT ![t] = q] /\ UNCHANGED <<posix_lock, inWait>>
    BY DEF Step
  <1>2. pc'[t] = q /\ (\A u \in Threads \ {t} : pc'[u] = pc[u]) /\ PcType'
    BY <1>1, AtPc DEF ApiInv
  <1>3. Legal(t, p, q) => Allowed(t)
    BY <1>1, <1>2 DEF Legal, Allowed
  <1> QED
    BY <1>1, <1>2, <1>3 DEF Hold

\* One holder is left where nobody enters beside another.
LEMMA OneHolderKept ==
  ASSUME OneHolder, NEW t \in Threads, \A u \in Threads \ {t} : Hold(u)' <=> Hold(u),
         Hold(t)' => Hold(t) \/ \A u \in Threads : ~Hold(u)
  PROVE  OneHolder'
  BY DEF OneHolder

LEMMA AroundHolds ==
  ASSUME NEW u, Around(u)
  PROVE  Hold(u)' <=> Hold(u)
  <1>1. /\ "cs" \in HeldPcs /\ "unlock" \in HeldPcs /\ "posix" \in HeldPcs /\ "tryposix" \in HeldPcs
        /\ \A p \in RestPcs \cup {"lock"} : p \notin HeldPcs
    BY DEF HeldPcs, UnlockPcs, RestPcs
  <1> QED
    BY <1>1 DEF Around, Hold, RestPcs

LEMMA WrappedKeeps ==
  ASSUME ApiInv, OneHolder, NEW t \in Threads, Wrapped(t)
  PROVE  /\ lk' = lk /\ nd' = nd /\ loc' = loc
         /\ \A u \in Threads : Around(u) /\ (Hold(u)' <=> Hold(u))
         /\ OneHolder'
  <1>1. mem' = mem /\ \A u \in Threads : Around(u)
    BY WrappedStep
  <1>2. \A u \in Threads : Hold(u)' <=> Hold(u)
    BY <1>1, AroundHolds
  <1> QED
    BY <1>1, <1>2 DEF mem, OneHolder

-----------------------------------------------------------------------------
(* Tickets that wrap around at M.                                            *)

LEMMA ModAdd ==
  ASSUME NEW M \in Nat \ {0}, NEW a \in 0..M - 1, NEW k \in 0..M
  PROVE  (a + k) % M = IF a + k < M THEN a + k ELSE a + k - M
  <1>1. (a + k) \in 0..(2 * M - 1)
    OBVIOUS
  <1>2. CASE a + k < M
    BY <1>2
  <1>3. CASE ~(a + k < M)
    <2>1. (a + k) \in M..(2 * M - 1)
      BY <1>1, <1>3
    <2> QED
      BY <1>3, <2>1
  <1> QED
    BY <1>2, <1>3

LEMMA ModSame ==
  ASSUME NEW M \in Nat \ {0}, NEW a \in 0..M - 1, NEW k \in 0..M - 1, (a + k) % M = a
  PROVE  k = 0
  <1>0. k \in 0..M
    OBVIOUS
  <1>1. (a + k) % M = IF a + k < M THEN a + k ELSE a + k - M
    BY <1>0, ModAdd
  <1> QED
    BY <1>1

LEMMA ModNext ==
  ASSUME NEW M \in Nat \ {0}, NEW a \in 0..M - 1, NEW k \in 0..M - 1
  PROVE  (((a + k) % M) + 1) % M = (a + (k + 1)) % M
  <1>0. k \in 0..M
    OBVIOUS
  <1>1. (a + k) % M = IF a + k < M THEN a + k ELSE a + k - M
    BY <1>0, ModAdd
  <1>2. (a + k) % M \in 0..M - 1
    BY <1>1
  <1>3. (((a + k) % M) + 1) % M = IF ((a + k) % M) + 1 < M THEN ((a + k) % M) + 1 ELSE ((a + k) % M) + 1 - M
    <2>1. 1 \in 0..M
      OBVIOUS
    <2> QED
      BY <1>2, <2>1, ModAdd
  <1>4. (a + (k + 1)) % M = IF a + (k + 1) < M THEN a + (k + 1) ELSE a + (k + 1) - M
    <2>1. k + 1 \in 0..M
      OBVIOUS
    <2> QED
      BY <2>1, ModAdd
  <1> QED
    BY <1>1, <1>3, <1>4

LEMMA ModFrom ==
  ASSUME NEW M \in Nat \ {0}, NEW a \in 0..M - 1
  PROVE  \A k \in 0..M - 1 : (a + (1 + k)) % M = (((a + 1) % M) + k) % M
  <1> TAKE k \in 0..M - 1
  <1>1. (a + 1) % M = IF a + 1 < M THEN a + 1 ELSE a + 1 - M
    <2>1. 1 \in 0..M
      OBVIOUS
    <2> QED
      BY <2>1, ModAdd
  <1>2. (a + 1) % M \in 0..M - 1 /\ k \in 0..M /\ 1 + k \in 0..M
    BY <1>1
  <1>3. (((a + 1) % M) + k) % M = IF ((a + 1) % M) + k < M THEN ((a + 1) % M) + k ELSE ((a + 1) % M) + k - M
    BY <1>2, ModAdd
  <1>4. (a + (1 + k)) % M = IF a + (1 + k) < M THEN a + (1 + k) ELSE a + (1 + k) - M
    BY <1>2, ModAdd
  <1> QED
    BY <1>1, <1>3, <1>4

\* Tickets that differ by less than the modulus are different.
LEMMA ModDiffer ==
  ASSUME NEW M \in Nat \ {0}, NEW a \in 0..M - 1, NEW j \in 0..M - 1, NEW k \in 0..M - 1,
         (a + j) % M = (a + k) % M
  PROVE  j = k
  <1>0. j \in 0..M /\ k \in 0..M
    OBVIOUS
  <1>1. (a + j) % M = IF a + j < M THEN a + j ELSE a + j - M
    BY <1>0, ModAdd
  <1>2. (a + k) % M = IF a + k < M THEN a + k ELSE a + k - M
    BY <1>0, ModAdd
  <1> QED
    BY <1>1, <1>2

LEMMA Mod0 ==
  ASSUME NEW M \in Nat \ {0}
  PROVE  \A g \in 0..M - 1 : (g + 0) % M = g
  <1> TAKE g \in 0..M - 1
  <1>1. g \in Nat /\ g < M
    OBVIOUS
  <1> QED
    BY <1>1

-----------------------------------------------------------------------------
(* A queue linked by next fields.                                            *)

\* q lists a queue with this tail; who is in linking has swapped the tail and is yet
\* to store into the next field of the node before.
ChainOf(q, next, last, linking) ==
  /\ \A i, j \in 1..Len(q) : q[i] = q[j] => i = j
  /\ last = IF Len(q) = 0 THEN NULL ELSE q[Len(q)]
  /\ \A i \in 1..Len(q) :
       /\ next[q[i]] = IF i < Len(q) /\ q[i + 1] \notin linking THEN q[i + 1] ELSE NULL
       /\ q[i] \in linking => i # 1

In(q, v) == \E i \in 1..Len(q) : q[i] = v

\* The links of others than those of q do not matter.
LEMMA ChainKept ==
  ASSUME NEW S, NEW q \in Seq(S), NEW next, NEW last, NEW linking,
         ChainOf(q, next, last, linking),
         NEW next2, NEW linking2,
         \A i \in 1..Len(q) : next2[q[i]] = next[q[i]],
         \A i \in 1..Len(q) : q[i] \in linking2 <=> q[i] \in linking
  PROVE  ChainOf(q, next2, last, linking2)
  <1>1. Len(q) \in Nat
    OBVIOUS
  <1>2. \A i \in 1..Len(q) : i < Len(q) => i + 1 \in 1..Len(q)
    BY <1>1
  <1> QED
    BY <1>1, <1>2 DEF ChainOf

LEMMA ChainEmpty ==
  ASSUME NEW S, NEW q \in Seq(S), NEW next, NEW last, NEW linking, NULL \notin S,
         ChainOf(q, next, last, linking)
  PROVE  last = NULL <=> Len(q) = 0
  <1>1. Len(q) # 0 => q[Len(q)] \in S
    OBVIOUS
  <1> QED
    BY <1>1 DEF ChainOf

\* The tail is swapped.
LEMMA ChainAppend ==
  ASSUME NEW S, NEW q \in Seq(S), NEW next, NEW last, NEW linking, NULL \notin S,
         ChainOf(q, next, last, linking),
         NEW v \in S, ~In(q, v),
         NEW next2, NEW linking2,
         next2[v] = NULL, v \in linking2 <=> last # NULL,
         \A i \in 1..Len(q) : next2[q[i]] = next[q[i]],
         \A i \in 1..Len(q) : q[i] \in linking2 <=> q[i] \in linking
  PROVE  ChainOf(Append(q, v), next2, v, linking2)
  <1> DEFINE r == Append(q, v)
  <1>1. /\ Len(q) \in Nat /\ r \in Seq(S) /\ Len(r) = Len(q) + 1 /\ r[Len(q) + 1] = v
        /\ \A i \in 1..Len(q) : r[i] = q[i]
    OBVIOUS
  <1>2. last = NULL <=> Len(q) = 0
    BY ChainEmpty
  <1>3. \A i \in 1..Len(q) : q[i] # v
    BY DEF In
  <1> HIDE DEF r
  <1>4. \A i, j \in 1..Len(r) : r[i] = r[j] => i = j
    <2> SUFFICES ASSUME NEW i \in 1..Len(r), NEW j \in 1..Len(r), r[i] = r[j]
                 PROVE  i = j
      OBVIOUS
    <2>1. i \in 1..Len(q) \/ i = Len(q) + 1
      BY <1>1
    <2>2. j \in 1..Len(q) \/ j = Len(q) + 1
      BY <1>1
    <2>3. \A k, l \in 1..Len(q) : q[k] = q[l] => k = l
      BY DEF ChainOf
    <2> QED
      BY <1>1, <1>3, <2>1, <2>2, <2>3
  <1>5. ASSUME NEW i \in 1..Len(r)
        PROVE  /\ next2[r[i]] = IF i < Len(r) /\ r[i + 1] \notin linking2 THEN r[i + 1] ELSE NULL
               /\ r[i] \in linking2 => i # 1
    <2>1. CASE i \in 1..Len(q) /\ i # Len(q)
      <3>1. i + 1 \in 1..Len(q) /\ r[i] = q[i] /\ r[i + 1] = q[i + 1] /\ i < Len(r) /\ i < Len(q)
        BY <1>1, <2>1
      <3> QED
        BY <2>1, <3>1 DEF ChainOf
    <2>2. CASE i = Len(q) /\ i \in 1..Len(q)
      <3>1. r[i] = q[i] /\ r[i + 1] = v /\ i < Len(r) /\ ~(i < Len(q)) /\ last # NULL
        BY <1>1, <1>2, <2>2
      <3> QED
        BY <2>2, <3>1 DEF ChainOf
    <2>3. CASE i = Len(q) + 1
      BY <1>1, <1>2, <2>3
    <2> QED
      BY <1>1, <2>1, <2>2, <2>3
  <1>6. v = IF Len(r) = 0 THEN NULL ELSE r[Len(r)]
    BY <1>1
  <1>7. ChainOf(r, next2, v, linking2)
    BY <1>4, <1>5, <1>6 DEF ChainOf
  <1> QED
    BY <1>7 DEF r

\* The node behind position i is linked.
LEMMA ChainLink ==
  ASSUME NEW S, NEW q \in Seq(S), NEW next, NEW last, NEW linking,
         ChainOf(q, next, last, linking),
         NEW i \in 2..Len(q),
         NEW next2, NEW linking2,
         next2[q[i - 1]] = q[i], q[i] \notin linking2,
         \A j \in 1..Len(q) : q[j] # q[i - 1] => next2[q[j]] = next[q[j]],
         \A j \in 1..Len(q) : j # i => (q[j] \in linking2 <=> q[j] \in linking)
  PROVE  ChainOf(q, next2, last, linking2)
  <1>1. Len(q) \in Nat /\ i - 1 \in 1..Len(q) /\ i \in 1..Len(q)
    OBVIOUS
  <1>2. \A j, k \in 1..Len(q) : q[j] = q[k] => j = k
    BY DEF ChainOf
  <1>3. ASSUME NEW j \in 1..Len(q)
        PROVE  /\ next2[q[j]] = IF j < Len(q) /\ q[j + 1] \notin linking2 THEN q[j + 1] ELSE NULL
               /\ q[j] \in linking2 => j # 1
    <2>1. CASE j = i - 1
      <3>1. j + 1 = i /\ j < Len(q) /\ j # i
        BY <1>1, <2>1
      <3> QED
        BY <1>3, <2>1, <3>1 DEF ChainOf
    <2>2. CASE j # i - 1
      <3>1. q[j] # q[i - 1]
        BY <1>1, <1>2, <2>2
      <3>2. j < Len(q) => j + 1 \in 1..Len(q) /\ j + 1 # i
        BY <1>1, <2>2
      <3>3. j = 1 => j # i
        OBVIOUS
      <3> QED
        BY <3>1, <3>2, <3>3 DEF ChainOf
    <2> QED
      BY <2>1, <2>2
  <1> QED
    BY <1>2, <1>3 DEF ChainOf

LEMMA TailIs ==
  ASSUME NEW S, NEW q \in Seq(S), Len(q) # 0, \A i, j \in 1..Len(q) : q[i] = q[j] => i = j
  PROVE  /\ Tail(q) \in Seq(S) /\ Len(Tail(q)) = Len(q) - 1
         /\ \A j \in 1..Len(Tail(q)) : Tail(q)[j] = q[j + 1] /\ j + 1 \in 2..Len(q)
         /\ ~In(Tail(q), q[1])
         /\ \A v \in S : In(q, v) <=> In(Tail(q), v) \/ v = q[1]
  <1> DEFINE r == Tail(q)
  <1>1. /\ Len(q) \in Nat /\ r \in Seq(S) /\ Len(r) = Len(q) - 1
        /\ \A j \in 1..Len(r) : r[j] = q[j + 1]
    OBVIOUS
  <1> HIDE DEF r
  <1>2. \A j, k \in 1..Len(q) : q[j] = q[k] => j = k
    OBVIOUS
  <1>3. \A j \in 1..Len(r) : j + 1 \in 2..Len(q) /\ j + 1 \in 1..Len(q)
    BY <1>1
  <1>4. ~In(r, q[1])
    BY <1>1, <1>2, <1>3 DEF In
  <1>5. ASSUME NEW v \in S
        PROVE  In(q, v) <=> In(r, v) \/ v = q[1]
    <2>1. In(r, v) => In(q, v)
      BY <1>1, <1>3 DEF In
    <2>2. v = q[1] => In(q, v)
      BY <1>1 DEF In
    <2>3. ASSUME NEW i \in 1..Len(q), q[i] = v, v # q[1]
          PROVE  In(r, v)
      <3>1. i - 1 \in 1..Len(r) /\ r[i - 1] = q[i]
        <4>1. i - 1 \in 1..Len(r) /\ (i - 1) + 1 = i
          BY <1>1, <2>3
        <4> QED
          BY <1>1, <4>1
      <3> QED
        BY <2>3, <3>1 DEF In
    <2> QED
      BY <2>1, <2>2, <2>3 DEF In
  <1> QED
    BY <1>1, <1>3, <1>4, <1>5 DEF r

\* The front leaves.
LEMMA ChainTail ==
  ASSUME NEW S, NEW q \in Seq(S), NEW next, NEW last, NEW linking, NULL \notin S,
         ChainOf(q, next, last, linking),
         Len(q) # 0,
         NEW last2, Len(q) = 1 => last2 = NULL, Len(q) # 1 => last2 = last,
         NEW next2, NEW linking2,
         Len(q) > 1 => q[2] \notin linking2,
         \A j \in 2..Len(q) : next2[q[j]] = next[q[j]],
         \A j \in 2..Len(q) : q[j] \in linking2 <=> q[j] \in linking
  PROVE  ChainOf(Tail(q), next2, last2, linking2)
  <1> DEFINE r == Tail(q)
  <1>1. /\ Len(q) \in Nat /\ r \in Seq(S) /\ Len(r) = Len(q) - 1
        /\ \A j \in 1..Len(r) : r[j] = q[j + 1]
    OBVIOUS
  <1> HIDE DEF r
  <1>2. \A j, k \in 1..Len(q) : q[j] = q[k] => j = k
    BY DEF ChainOf
  <1>3. \A j \in 1..Len(r) : j + 1 \in 2..Len(q) /\ j + 1 \in 1..Len(q)
    BY <1>1
  <1>6. \A j, k \in 1..Len(r) : r[j] = r[k] => j = k
    <2> SUFFICES ASSUME NEW j \in 1..Len(r), NEW k \in 1..Len(r), r[j] = r[k]
                 PROVE  j = k
      OBVIOUS
    <2>1. j + 1 = k + 1
      BY <1>1, <1>2, <1>3
    <2> QED
      BY <2>1
  <1>7. last2 = IF Len(r) = 0 THEN NULL ELSE r[Len(r)]
    <2>1. CASE Len(q) = 1
      BY <1>1, <2>1
    <2>2. CASE Len(q) # 1
      <3>1. Len(r) \in 1..Len(r) /\ Len(r) + 1 = Len(q)
        BY <1>1, <2>2
      <3>2. r[Len(r)] = q[Len(q)]
        BY <1>1, <3>1
      <3> QED
        BY <1>1, <2>2, <3>1, <3>2 DEF ChainOf
    <2> QED
      BY <2>1, <2>2
  <1>8. ASSUME NEW j \in 1..Len(r)
        PROVE  /\ next2[r[j]] = IF j < Len(r) /\ r[j + 1] \notin linking2 THEN r[j + 1] ELSE NULL
               /\ r[j] \in linking2 => j # 1
    <2> DEFINE k == j + 1
    <2>1. k \in 2..Len(q) /\ k \in 1..Len(q) /\ r[j] = q[k] /\ (j < Len(r) <=> k < Len(q))
      BY <1>1, <1>3
    <2>2. j < Len(r) => k + 1 \in 2..Len(q) /\ r[k] = q[k + 1]
      BY <1>1
    <2>3. next[q[k]] = IF k < Len(q) /\ q[k + 1] \notin linking THEN q[k + 1] ELSE NULL
      BY <2>1 DEF ChainOf
    <2>4. next2[q[k]] = next[q[k]]
      BY <2>1
    <2>5. k < Len(q) => (q[k + 1] \in linking2 <=> q[k + 1] \in linking)
      BY <2>1, <2>2
    <2>6. j = 1 => r[j] \notin linking2
      BY <1>1, <2>1
    <2> QED
      BY <2>1, <2>2, <2>3, <2>4, <2>5, <2>6
  <1>9. ChainOf(r, next2, last2, linking2)
    BY <1>6, <1>7, <1>8 DEF ChainOf
  <1> QED
    BY <1>9 DEF r

\* A front that is the tail is alone.
LEMMA ChainAlone ==
  ASSUME NEW S, NEW q \in Seq(S), NEW next, NEW last, NEW linking, NULL \notin S,
         ChainOf(q, next, last, linking), Len(q) # 0
  PROVE  /\ last # NULL
         /\ last = q[1] <=> Len(q) = 1
         /\ next[q[1]] # NULL => Len(q) > 1 /\ next[q[1]] = q[2] /\ q[2] \notin linking
  <1>1. /\ Len(q) \in Nat /\ 1 \in 1..Len(q) /\ Len(q) \in 1..Len(q)
        /\ \A j \in 1..Len(q) : q[j] \in S
    OBVIOUS
  <1>2. last = q[Len(q)] /\ (q[Len(q)] = q[1] => Len(q) = 1)
    BY <1>1 DEF ChainOf
  <1>3. next[q[1]] = IF 1 < Len(q) /\ q[1 + 1] \notin linking THEN q[1 + 1] ELSE NULL
    BY <1>1 DEF ChainOf
  <1> QED
    BY <1>1, <1>2, <1>3

-----------------------------------------------------------------------------
(* The queues of hmcs.c.                                                     *)

\* A waiter's status, as in Hmcs.
WAIT == -1
ACQUIRE_PARENT == -2
GLOBAL == NULL

Nodes == Threads \cup NumaNodes
NextOf == [v \in Nodes |-> nd[v].next]

\* The NUMA node whose local lock t has queued at.
Home(t) == nd[t].last_local

\* The program points between the swap of a local tail and the release of the local
\* lock, and those at which the local lock is in the global queue on a thread's behalf.
GlobalPcs == {"glink", "gspin", "posix", "tryposix", "wr", "cs", "unlock", "gcas", "gpass"}
QueuedPcs ==
  GlobalPcs \cup {"link", "spin", "start", "trytop", "trycas", "trydrop", "lcas", "lpass"}

Queued(t) == pc[t] \in QueuedPcs
Waits(t) == pc[t] \in {"link", "spin"} /\ nd[t].status = WAIT

\* t has the local lock, and the global one has come with it or is being acquired.
Up(t) == pc[t] \in GlobalPcs \/ (pc[t] = "spin" /\ nd[t].status \notin {WAIT, ACQUIRE_PARENT})

Linking == {t \in Threads : pc[t] = "link"}
TopLinking == {n \in NumaNodes : \E t \in Threads : pc[t] = "glink" /\ Home(t) = n}

\* q is the queue of the local lock n: everybody but the front waits.
LocalAt(q, n) ==
  /\ ChainOf(q, NextOf, lk.tail[n], Linking)
  /\ \A t \in Threads : In(q, t) <=> Queued(t) /\ Home(t) = n
  /\ \A i \in 1..Len(q) :
       /\ Waits(q[i]) <=> i # 1
       /\ pc[q[i]] = "link" => loc[q[i]] = q[i - 1]

\* g is the global queue: the local locks that a thread has entered, and the front one
\* is told that it is its turn.
TopAt(g) ==
  /\ ChainOf(g, NextOf, lk.tail[GLOBAL], TopLinking)
  /\ \A n \in NumaNodes : In(g, n) <=> \E t \in Threads : Up(t) /\ Home(t) = n
  /\ \A i \in 1..Len(g) : nd[g[i]].status = IF i = 1 THEN UNLOCKED ELSE LOCKED
  /\ \A t \in Threads :
       /\ Up(t) /\ pc[t] \notin {"glink", "gspin"} => nd[Home(t)].status = UNLOCKED
       /\ pc[t] = "glink" => \E i \in 2..Len(g) : g[i] = Home(t) /\ loc[t] = g[i - 1]

Homes == \A t \in Threads : Home(t) \in NumaNodes

\* The status of who has been passed both locks is a count.
Counts == \A t \in Threads : Up(t) => nd[t].status \in Nat \ {0}

\* The inductive invariant of the queues.
HInv(Q, g) ==
  /\ Q \in [NumaNodes -> Seq(Threads)] /\ g \in Seq(NumaNodes)
  /\ Homes /\ Counts
  /\ \A n \in NumaNodes : LocalAt(Q[n], n)
  /\ TopAt(g)

-----------------------------------------------------------------------------
(* What follows from it in one state.                                        *)

\* Who does not wait is at the front of its local queue.
LEMMA FrontIs ==
  ASSUME NEW Q, NEW g, HInv(Q, g), NEW t \in Threads, Queued(t), ~Waits(t)
  PROVE  /\ Home(t) \in NumaNodes /\ Q[Home(t)] \in Seq(Threads) /\ Len(Q[Home(t)]) \in Nat \ {0}
         /\ Q[Home(t)][1] = t /\ In(Q[Home(t)], t)
         /\ LocalAt(Q[Home(t)], Home(t))
  <1>1. Home(t) \in NumaNodes /\ Q[Home(t)] \in Seq(Threads) /\ LocalAt(Q[Home(t)], Home(t))
    BY DEF HInv, Homes
  <1>2. In(Q[Home(t)], t)
    BY <1>1 DEF LocalAt
  <1>3. PICK i \in 1..Len(Q[Home(t)]) : Q[Home(t)][i] = t
    BY <1>2 DEF In
  <1>4. i = 1
    BY <1>1, <1>3 DEF LocalAt
  <1> QED
    BY <1>1, <1>2, <1>3, <1>4

LEMMA OneFront ==
  ASSUME NEW Q, NEW g, HInv(Q, g), NEW t \in Threads, Queued(t), ~Waits(t),
         NEW u \in Threads, Queued(u), ~Waits(u), Home(t) = Home(u)
  PROVE  t = u
  BY FrontIs

LEMMA UpQueued ==
  ASSUME NEW t \in Threads, Up(t)
  PROVE  Queued(t) /\ ~Waits(t)
  BY DEF Up, Queued, Waits, QueuedPcs, GlobalPcs

\* The lock that is told it is its turn is the front one.
LEMMA TurnIs ==
  ASSUME NEW Q, NEW g, HInv(Q, g), NEW t \in Threads, Up(t), nd[Home(t)].status = UNLOCKED
  PROVE  Len(g) \in Nat \ {0} /\ g[1] = Home(t) /\ lk.tail[GLOBAL] # NULL
  <1>1. Home(t) \in NumaNodes /\ g \in Seq(NumaNodes) /\ TopAt(g)
    BY DEF HInv, Homes
  <1>2. PICK i \in 1..Len(g) : g[i] = Home(t)
    BY <1>1 DEF TopAt, In
  <1>3. i = 1
    BY <1>1, <1>2 DEF TopAt, UNLOCKED, LOCKED
  <1>4. Len(g) \in 1..Len(g) /\ g[Len(g)] \in NumaNodes
    BY <1>1, <1>2
  <1>5. lk.tail[GLOBAL] = g[Len(g)]
    BY <1>1, <1>4 DEF TopAt, ChainOf
  <1> QED
    BY <1>1, <1>2, <1>3, <1>4, <1>5, LockApiAssumption

\* One thread has both locks.
LEMMA OneOwner ==
  ASSUME NEW Q, NEW g, HInv(Q, g),
         NEW t \in Threads, Up(t), nd[Home(t)].status = UNLOCKED,
         NEW u \in Threads, Up(u), nd[Home(u)].status = UNLOCKED
  PROVE  t = u
  <1>1. Home(t) = Home(u)
    BY TurnIs
  <1> QED
    BY <1>1, UpQueued, OneFront

\* Nobody queued, nothing queued.
LEMMA EmptyQueues ==
  ASSUME NEW Q, NEW g, HInv(Q, g), \A t \in Threads : ~Queued(t)
  PROVE  lk.tail[GLOBAL] = NULL /\ \A n \in NumaNodes : lk.tail[n] = NULL
  <1>1. ASSUME NEW n \in NumaNodes
        PROVE  lk.tail[n] = NULL
    <2>1. LocalAt(Q[n], n) /\ Q[n] \in Seq(Threads)
      BY DEF HInv
    <2>2. Len(Q[n]) = 0
      <3>1. SUFFICES ASSUME Len(Q[n]) # 0 PROVE FALSE
        OBVIOUS
      <3>2. 1 \in 1..Len(Q[n]) /\ Q[n][1] \in Threads
        BY <2>1, <3>1
      <3> QED
        BY <2>1, <3>2 DEF LocalAt, In
    <2> QED
      BY <2>1, <2>2 DEF LocalAt, ChainOf
  <1>2. TopAt(g) /\ g \in Seq(NumaNodes)
    BY DEF HInv
  <1>3. Len(g) = 0
    <2>1. SUFFICES ASSUME Len(g) # 0 PROVE FALSE
      OBVIOUS
    <2>2. 1 \in 1..Len(g) /\ g[1] \in NumaNodes
      BY <1>2, <2>1
    <2> QED
      BY <1>2, <2>2, UpQueued DEF TopAt, In
  <1> QED
    BY <1>1, <1>2, <1>3 DEF TopAt, ChainOf

-----------------------------------------------------------------------------
(* The queues that a step leaves alone.                                      *)

SameNode(v) ==
  /\ nd'[v].next = nd[v].next
  /\ nd'[v].status = nd[v].status
  /\ nd'[v].last_local = nd[v].last_local

Others(t) == \A u \in Threads \ {t} : pc'[u] = pc[u] /\ loc'[u] = loc[u]

LEMMA LocalKept ==
  ASSUME NEW n \in NumaNodes, NEW q \in Seq(Threads), LocalAt(q, n), lk'.tail[n] = lk.tail[n],
         \A u \in Threads :
           /\ Queued(u)' /\ Home(u)' = n <=> Queued(u) /\ Home(u) = n
           /\ Queued(u) /\ Home(u) = n =>
                /\ nd'[u].next = nd[u].next
                /\ pc'[u] = "link" <=> pc[u] = "link"
                /\ pc[u] = "link" => loc'[u] = loc[u]
                /\ Waits(u)' <=> Waits(u)
  PROVE  LocalAt(q, n)'
  <1>1. \A i \in 1..Len(q) : q[i] \in Threads /\ Queued(q[i]) /\ Home(q[i]) = n
    BY DEF LocalAt, In
  <1>2. ChainOf(q, NextOf', lk.tail[n], Linking')
    <2>1. ChainOf(q, NextOf, lk.tail[n], Linking)
      BY DEF LocalAt
    <2>2. \A i \in 1..Len(q) : NextOf'[q[i]] = NextOf[q[i]]
      BY <1>1 DEF NextOf, Nodes
    <2>3. \A i \in 1..Len(q) : q[i] \in Linking' <=> q[i] \in Linking
      BY <1>1 DEF Linking
    <2> HIDE DEF NextOf, Linking
    <2> QED
      BY <2>1, <2>2, <2>3, ChainKept
  <1>3. \A u \in Threads : In(q, u) <=> (Queued(u) /\ Home(u) = n)'
    BY DEF LocalAt
  <1>4. ASSUME NEW i \in 1..Len(q)
        PROVE  /\ Waits(q[i])' <=> i # 1
               /\ pc'[q[i]] = "link" => loc'[q[i]] = q[i - 1]
    BY <1>1 DEF LocalAt
  <1>5. ChainOf(q, NextOf, lk.tail[n], Linking)'
    BY <1>2 DEF ChainOf
  <1>6. \A u \in Threads : In(q, u)' <=> In(q, u)
    BY DEF In
  <1> QED
    BY <1>3, <1>4, <1>5, <1>6 DEF LocalAt

LEMMA TopKept ==
  ASSUME NEW g \in Seq(NumaNodes), TopAt(g), lk'.tail[GLOBAL] = lk.tail[GLOBAL],
         \A n \in NumaNodes : nd'[n].next = nd[n].next /\ nd'[n].status = nd[n].status,
         \A n \in NumaNodes : (\E t \in Threads : Up(t)' /\ Home(t)' = n)
                                <=> (\E t \in Threads : Up(t) /\ Home(t) = n),
         \A t \in Threads :
           /\ Up(t)' /\ pc'[t] \notin {"glink", "gspin"} => nd'[Home(t)'].status = UNLOCKED
           /\ pc'[t] = "glink" <=> pc[t] = "glink"
           /\ pc[t] = "glink" => loc'[t] = loc[t] /\ Home(t)' = Home(t)
  PROVE  TopAt(g)'
  <1>1. \A i \in 1..Len(g) : g[i] \in NumaNodes
    OBVIOUS
  <1>2. ChainOf(g, NextOf', lk.tail[GLOBAL], TopLinking')
    <2>1. ChainOf(g, NextOf, lk.tail[GLOBAL], TopLinking)
      BY DEF TopAt
    <2>2. \A i \in 1..Len(g) : NextOf'[g[i]] = NextOf[g[i]]
      BY <1>1 DEF NextOf, Nodes
    <2>3. \A i \in 1..Len(g) : g[i] \in TopLinking' <=> g[i] \in TopLinking
      BY <1>1 DEF TopLinking
    <2> HIDE DEF NextOf, TopLinking
    <2> QED
      BY <2>1, <2>2, <2>3, ChainKept
  <1>3. ChainOf(g, NextOf, lk.tail[GLOBAL], TopLinking)'
    BY <1>2 DEF ChainOf, GLOBAL
  <1>4. \A n \in NumaNodes : In(g, n)' <=> \E t \in Threads : Up(t)' /\ Home(t)' = n
    BY DEF TopAt, In
  <1>5. \A i \in 1..Len(g) : nd'[g[i]].status = IF i = 1 THEN UNLOCKED ELSE LOCKED
    BY <1>1 DEF TopAt
  <1>6. \A t \in Threads :
          pc'[t] = "glink" => \E i \in 2..Len(g) : g[i] = Home(t)' /\ loc'[t] = g[i - 1]
    BY DEF TopAt
  <1> QED
    BY <1>3, <1>4, <1>5, <1>6 DEF TopAt, UNLOCKED, LOCKED

-----------------------------------------------------------------------------
(* The steps.                                                                *)

\* A thread that is not queued stays outside.
LEMMA OutsideStep ==
  ASSUME NEW Q, NEW g, HInv(Q, g), NEW t \in Threads, Others(t),
         pc[t] \notin QueuedPcs, pc'[t] \notin QueuedPcs, lk'.tail = lk.tail,
         \A v \in Nodes \ {t} : SameNode(v), nd'[t].last_local \in NumaNodes
  PROVE  HInv(Q, g)'
  <1>1. \A u \in Threads \ {t} : SameNode(u)
    BY DEF Nodes
  <1>2. \A n \in NumaNodes : SameNode(n)
    BY LockApiAssumption DEF Nodes
  <1>3. \A u \in Threads : /\ Queued(u)' <=> Queued(u)
                           /\ Up(u)' <=> Up(u)
                           /\ Queued(u) => Home(u)' = Home(u) /\ pc'[u] = pc[u] /\ loc'[u] = loc[u]
                                           /\ nd'[u].next = nd[u].next /\ nd'[u].status = nd[u].status
    BY <1>1 DEF Others, Queued, Up, SameNode, QueuedPcs, GlobalPcs, Home
  <1>4. \A u \in Threads : Up(u) => Queued(u)
    BY UpQueued
  <1>5. ASSUME NEW n \in NumaNodes
        PROVE  LocalAt(Q[n], n)'
    <2>1. \A u \in Threads : Queued(u) => (Waits(u)' <=> Waits(u))
      BY <1>3 DEF Waits
    <2>2. Q[n] \in Seq(Threads) /\ LocalAt(Q[n], n)
      BY DEF HInv
    <2> QED
      BY <1>3, <2>1, <2>2, LocalKept
  <1>6. TopAt(g)'
    <2>1. g \in Seq(NumaNodes) /\ TopAt(g)
      BY DEF HInv
    <2>2. \A u \in Threads : pc'[u] = "glink" <=> pc[u] = "glink"
      BY DEF Others, QueuedPcs, GlobalPcs
    <2>3. \A u \in Threads : pc[u] = "glink" => Up(u)
      BY DEF Up, GlobalPcs
    <2>4. \A u \in Threads : Up(u)' /\ pc'[u] \notin {"glink", "gspin"} => nd'[Home(u)'].status = UNLOCKED
      <3> SUFFICES ASSUME NEW u \in Threads, Up(u)', pc'[u] \notin {"glink", "gspin"}
                   PROVE  nd'[Home(u)'].status = UNLOCKED
        OBVIOUS
      <3>1. Up(u) /\ pc[u] \notin {"glink", "gspin"} /\ Home(u)' = Home(u)
        BY <1>3, <1>4
      <3>2. nd[Home(u)].status = UNLOCKED /\ Home(u) \in NumaNodes
        BY <3>1 DEF HInv, TopAt, Homes
      <3> QED
        BY <1>2, <3>1, <3>2 DEF SameNode, UNLOCKED
    <2>5. \A n \in NumaNodes : (\E u \in Threads : Up(u)' /\ Home(u)' = n)
                                 <=> (\E u \in Threads : Up(u) /\ Home(u) = n)
      BY <1>3, <1>4
    <2>6. \A n \in NumaNodes : nd'[n].next = nd[n].next /\ nd'[n].status = nd[n].status
      BY <1>2 DEF SameNode
    <2> QED
      BY <1>3, <1>4, <2>1, <2>2, <2>3, <2>4, <2>5, <2>6, TopKept
  <1>7. Homes'
    BY <1>1 DEF Homes, Home, SameNode, HInv
  <1>8. Counts'
    BY <1>3, <1>4 DEF Counts, HInv
  <1> QED
    BY <1>5, <1>6, <1>7, <1>8 DEF HInv

\* The front waiter of a local queue goes on.
LEMMA FrontStep ==
  ASSUME NEW Q, NEW g, HInv(Q, g), NEW t \in Threads, Others(t),
         Queued(t), ~Waits(t), pc[t] # "glink",
         pc'[t] \in QueuedPcs \ {"link", "spin", "glink"}, lk'.tail = lk.tail,
         \A v \in Nodes \ {t} : (v = Home(t) /\ ~Up(t)) \/ SameNode(v),
         nd'[t].next = nd[t].next, nd'[t].last_local = nd[t].last_local,
         nd'[t].status = nd[t].status \/ ~Up(t),
         Up(t)' <=> Up(t),
         pc'[t] \in GlobalPcs \ {"glink", "gspin"} =>
           pc[t] \notin {"glink", "gspin"} \/ nd[Home(t)].status = UNLOCKED
  PROVE  HInv(Q, g)'
  <1>1. \A u \in Threads \ {t} : SameNode(u)
    BY LockApiAssumption DEF Nodes, HInv, Homes
  <1>2. \A n \in NumaNodes : n # Home(t) \/ Up(t) => SameNode(n)
    BY LockApiAssumption DEF Nodes
  <1>3. \A u \in Threads : /\ Queued(u)' <=> Queued(u)
                           /\ Up(u)' <=> Up(u)
                           /\ Home(u)' = Home(u)
                           /\ nd'[u].next = nd[u].next
                           /\ Up(u) => nd'[u].status = nd[u].status
    BY <1>1 DEF Others, Queued, Up, SameNode, Home
  <1>4. pc[t] # "link"
    <2>1. CASE pc[t] = "link"
      <3>1. Home(t) \in NumaNodes /\ Q[Home(t)] \in Seq(Threads) /\ Q[Home(t)][1] = t
            /\ LocalAt(Q[Home(t)], Home(t)) /\ 1 \in 1..Len(Q[Home(t)])
        BY FrontIs
      <3> QED
        BY <2>1, <3>1 DEF LocalAt, ChainOf, Linking
    <2> QED
      BY <2>1
  <1>5. \A u \in Threads : /\ pc'[u] = "link" <=> pc[u] = "link"
                           /\ pc[u] = "link" => loc'[u] = loc[u]
                           /\ Waits(u)' <=> Waits(u)
                           /\ pc'[u] = "glink" <=> pc[u] = "glink"
                           /\ pc[u] = "glink" => loc'[u] = loc[u]
    BY <1>1, <1>4 DEF Others, Waits, SameNode
  <1>6. ASSUME NEW n \in NumaNodes
        PROVE  LocalAt(Q[n], n)'
    <2>1. Q[n] \in Seq(Threads) /\ LocalAt(Q[n], n)
      BY DEF HInv
    <2> QED
      BY <1>3, <1>5, <2>1, LocalKept
  <1>7. TopAt(g)'
    <2>1. g \in Seq(NumaNodes) /\ TopAt(g)
      BY DEF HInv
    <2>2. CASE Up(t)
      <3>1. \A n \in NumaNodes : nd'[n].next = nd[n].next /\ nd'[n].status = nd[n].status
        BY <1>2, <2>2 DEF SameNode
      <3>2. \A u \in Threads : Up(u)' /\ pc'[u] \notin {"glink", "gspin"} => nd'[Home(u)'].status = UNLOCKED
        <4> SUFFICES ASSUME NEW u \in Threads, Up(u)', pc'[u] \notin {"glink", "gspin"}
                     PROVE  nd'[Home(u)'].status = UNLOCKED
          OBVIOUS
        <4>1. Up(u) /\ Home(u)' = Home(u) /\ Home(u) \in NumaNodes
          BY <1>3 DEF HInv, Homes
        <4>2. nd[Home(u)].status = UNLOCKED
          <5>1. CASE pc[u] \notin {"glink", "gspin"}
            BY <4>1, <5>1, <2>1 DEF TopAt
          <5>2. CASE pc[u] \in {"glink", "gspin"}
            <6>1. u = t
              BY <5>2 DEF Others
            <6>2. pc'[t] \in GlobalPcs
              BY <6>1 DEF Up
            <6> QED
              BY <5>2, <6>1, <6>2
          <5> QED
            BY <5>1, <5>2
        <4> QED
          BY <3>1, <4>1, <4>2 DEF UNLOCKED
      <3> QED
        BY <1>3, <1>5, <2>1, <3>1, <3>2, TopKept
    <2>3. CASE ~Up(t)
      <3> DEFINE h == Home(t)
      <3>1. \A u \in Threads : Up(u) => Home(u) # h
        BY <2>3, UpQueued, OneFront
      <3>2. h \in NumaNodes /\ ~In(g, h)
        BY <3>1, <2>1 DEF TopAt, HInv, Homes
      <3>3. \A n \in NumaNodes \ {h} : nd'[n].next = nd[n].next /\ nd'[n].status = nd[n].status
        BY <1>2 DEF SameNode
      <3>4. \A i \in 1..Len(g) : g[i] \in NumaNodes \ {h}
        BY <2>1, <3>2 DEF In
      <3>5. ChainOf(g, NextOf, lk.tail[GLOBAL], TopLinking)'
        <4>1. ChainOf(g, NextOf, lk.tail[GLOBAL], TopLinking)
          BY <2>1 DEF TopAt
        <4>2. \A i \in 1..Len(g) : NextOf'[g[i]] = NextOf[g[i]]
          BY <3>3, <3>4 DEF NextOf, Nodes
        <4>3. TopLinking' = TopLinking
          BY <1>3, <1>5 DEF TopLinking
        <4>4. ChainOf(g, NextOf', lk.tail[GLOBAL], TopLinking')
          <5> HIDE DEF NextOf, TopLinking
          <5> QED
            BY <2>1, <4>1, <4>2, <4>3, ChainKept
        <4> QED
          BY <4>4 DEF ChainOf, GLOBAL
      <3>6. \A n \in NumaNodes : In(g, n)' <=> \E u \in Threads : Up(u)' /\ Home(u)' = n
        BY <1>3, <2>1 DEF TopAt, In
      <3>7. \A i \in 1..Len(g) : nd'[g[i]].status = IF i = 1 THEN UNLOCKED ELSE LOCKED
        BY <2>1, <3>3, <3>4 DEF TopAt
      <3>8. ASSUME NEW u \in Threads
            PROVE  /\ Up(u)' /\ pc'[u] \notin {"glink", "gspin"} => nd'[Home(u)'].status = UNLOCKED
                   /\ pc'[u] = "glink" => \E i \in 2..Len(g) : g[i] = Home(u)' /\ loc'[u] = g[i - 1]
        <4>1. Up(u)' => Up(u) /\ u # t /\ Home(u) # h /\ Home(u) \in NumaNodes
          BY <1>3, <2>3, <3>1 DEF HInv, Homes
        <4>2. Up(u)' /\ pc'[u] \notin {"glink", "gspin"} => nd'[Home(u)].status = UNLOCKED
          BY <2>1, <3>3, <4>1 DEF Others, TopAt
        <4>3. pc'[u] = "glink" => \E i \in 2..Len(g) : g[i] = Home(u) /\ loc'[u] = g[i - 1]
          BY <1>5, <2>1 DEF TopAt
        <4> QED
          BY <1>3, <4>2, <4>3
      <3> QED
        BY <3>5, <3>6, <3>7, <3>8 DEF TopAt, UNLOCKED, LOCKED
    <2> QED
      BY <2>2, <2>3
  <1>8. Homes'
    BY <1>3 DEF Homes, HInv
  <1>9. Counts'
    BY <1>3 DEF Counts, HInv
  <1> QED
    BY <1>6, <1>7, <1>8, <1>9 DEF HInv

\* A tail is swapped, or set where there was none: the thread is the last on the queue.
LEMMA EnqueueStep ==
  ASSUME NEW Q, NEW g, HInv(Q, g), NEW t \in Threads, Others(t), NEW n \in NumaNodes,
         pc[t] \notin QueuedPcs,
         lk.tail[n] = NULL => pc'[t] \in {"start", "trytop"},
         lk.tail[n] # NULL => pc'[t] = "link" /\ loc'[t] = lk.tail[n],
         lk'.tail[n] = t, \A h \in (NumaNodes \cup {GLOBAL}) \ {n} : lk'.tail[h] = lk.tail[h],
         \A v \in Nodes \ {t} : SameNode(v),
         nd'[t].next = NULL, nd'[t].status = WAIT, nd'[t].last_local = n
  PROVE  HInv([Q EXCEPT ![n] = Append(@, t)], g)'
  <1> DEFINE R == [Q EXCEPT ![n] = Append(@, t)]
             q == Q[n]
  <1>1. \A u \in Threads \ {t} : SameNode(u)
    BY DEF Nodes
  <1>2. \A m \in NumaNodes : SameNode(m)
    BY LockApiAssumption DEF Nodes
  <1>3. pc'[t] \in {"start", "trytop", "link"} /\ Queued(t)' /\ ~Up(t)' /\ ~Queued(t) /\ ~Up(t)
    BY DEF Queued, QueuedPcs, GlobalPcs, Up
  <1>4. \A u \in Threads : /\ Up(u)' <=> Up(u)
                           /\ u # t => /\ Queued(u)' <=> Queued(u)
                                       /\ Home(u)' = Home(u)
                                       /\ nd'[u].next = nd[u].next
                                       /\ nd'[u].status = nd[u].status
                                       /\ Waits(u)' <=> Waits(u)
                                       /\ pc'[u] = pc[u] /\ loc'[u] = loc[u]
    BY <1>1, <1>3 DEF Others, Queued, Up, SameNode, Home, Waits
  <1>5. Home(t)' = n
    BY DEF Home
  <1>6. q \in Seq(Threads) /\ LocalAt(q, n) /\ Len(q) \in Nat /\ \A i \in 1..Len(q) : q[i] \in Threads
    BY DEF HInv
  <1>7. ~In(q, t)
    BY <1>3, <1>6 DEF LocalAt
  <1>8. \A i \in 1..Len(q) : q[i] # t
    BY <1>7 DEF In
  <1>9. /\ Append(q, t) \in Seq(Threads) /\ Len(Append(q, t)) = Len(q) + 1
        /\ \A i \in 1..Len(q) : Append(q, t)[i] = q[i]
        /\ Append(q, t)[Len(q) + 1] = t
        /\ lk.tail[n] = NULL <=> Len(q) = 0
        /\ ChainOf(Append(q, t), NextOf', t, Linking')
    <2>1. ChainOf(q, NextOf, lk.tail[n], Linking)
      BY <1>6 DEF LocalAt
    <2>2. NextOf'[t] = NULL /\ (t \in Linking' <=> lk.tail[n] # NULL)
      BY <1>3 DEF NextOf, Linking, Nodes
    <2>3. \A i \in 1..Len(q) : NextOf'[q[i]] = NextOf[q[i]] /\ (q[i] \in Linking' <=> q[i] \in Linking)
      BY <1>4, <1>6, <1>8 DEF NextOf, Linking, Nodes
    <2>4. NULL \notin Threads
      BY LockApiAssumption
    <2> HIDE DEF NextOf, Linking, q
    <2>5. PICK next2, linking2 : next2 = NextOf' /\ linking2 = Linking'
      OBVIOUS
    <2>6. /\ next2[t] = NULL /\ (t \in linking2 <=> lk.tail[n] # NULL)
          /\ \A i \in 1..Len(q) : next2[q[i]] = NextOf[q[i]]
          /\ \A i \in 1..Len(q) : q[i] \in linking2 <=> q[i] \in Linking
      BY <2>2, <2>3, <2>5
    <2>7. ChainOf(Append(q, t), next2, t, linking2)
      <3>1. q \in Seq(Threads)
        BY <1>6
      <3> HIDE <2>5
      <3> QED
        BY <1>7, <2>1, <2>4, <2>6, <3>1, ChainAppend
    <2>8. lk.tail[n] = NULL <=> Len(q) = 0
      BY <1>6, <2>1, <2>4, ChainEmpty
    <2>9. /\ Append(q, t) \in Seq(Threads) /\ Len(Append(q, t)) = Len(q) + 1
          /\ \A i \in 1..Len(q) : Append(q, t)[i] = q[i]
          /\ Append(q, t)[Len(q) + 1] = t
      BY <1>6
    <2> QED
      BY <2>5, <2>7, <2>8, <2>9
  <1>10. R \in [NumaNodes -> Seq(Threads)] /\ R[n] = Append(q, t) /\ \A m \in NumaNodes \ {n} : R[m] = Q[m]
    BY <1>9 DEF HInv
  <1> HIDE DEF R, q
  <1>11. LocalAt(R[n], n)'
    <2> DEFINE r == Append(q, t)
    <2>1. \A i \in 1..Len(r) : i \in 1..Len(q) \/ i = Len(q) + 1
      BY <1>6, <1>9
    <2>2. ASSUME NEW i \in 1..Len(r)
          PROVE  /\ Waits(r[i])' <=> i # 1
                 /\ pc'[r[i]] = "link" => loc'[r[i]] = r[i - 1]
      <3>1. CASE i \in 1..Len(q)
        <4>1. r[i] = q[i] /\ r[i] \in Threads \ {t}
          BY <1>6, <1>8, <1>9, <3>1
        <4>2. Waits(r[i]) <=> i # 1
          BY <1>6, <3>1, <4>1 DEF LocalAt
        <4>3. pc[r[i]] = "link" => loc[r[i]] = q[i - 1] /\ i # 1
          BY <1>6, <3>1, <4>1, <4>2 DEF LocalAt, ChainOf, Linking
        <4>4. i # 1 => q[i - 1] = r[i - 1]
          BY <1>6, <1>9, <3>1
        <4> QED
          BY <1>4, <4>1, <4>2, <4>3, <4>4
      <3>2. CASE i = Len(q) + 1
        <4>1. r[i] = t
          BY <1>9, <3>2
        <4>2. CASE Len(q) = 0
          BY <1>9, <3>2, <4>1, <4>2 DEF Waits
        <4>3. CASE Len(q) # 0
          <5>1. lk.tail[n] = q[Len(q)] /\ r[i - 1] = q[Len(q)] /\ i # 1
            BY <1>6, <1>9, <3>2, <4>3 DEF LocalAt, ChainOf
          <5> QED
            BY <1>9, <3>2, <4>1, <4>3, <5>1 DEF Waits
        <4> QED
          BY <4>2, <4>3
      <3> QED
        BY <2>1, <3>1, <3>2
    <2>3. ASSUME NEW u \in Threads
          PROVE  In(r, u) <=> (Queued(u) /\ Home(u) = n)'
      <3>1. In(r, u) <=> In(q, u) \/ u = t
        BY <1>6, <1>9, <2>1 DEF In
      <3> QED
        BY <1>3, <1>4, <1>5, <1>6, <3>1 DEF LocalAt
    <2>4. ChainOf(r, NextOf, lk.tail[n], Linking)'
      BY <1>9 DEF ChainOf
    <2>5. \A u \in Threads : In(r, u)' <=> In(r, u)
      BY DEF In
    <2> HIDE DEF r
    <2>6. LocalAt(r, n)'
      BY <2>2, <2>3, <2>4, <2>5 DEF LocalAt
    <2> QED
      BY <1>10, <2>6 DEF r
  <1>12. ASSUME NEW m \in NumaNodes \ {n}
         PROVE  LocalAt(R[m], m)'
    <2>1. Q[m] \in Seq(Threads) /\ LocalAt(Q[m], m) /\ lk'.tail[m] = lk.tail[m]
      BY DEF HInv
    <2>2. LocalAt(Q[m], m)'
      BY <1>3, <1>4, <1>5, <2>1, LocalKept
    <2> QED
      BY <1>10, <2>2
  <1>13. TopAt(g)'
    <2>1. g \in Seq(NumaNodes) /\ TopAt(g) /\ lk'.tail[GLOBAL] = lk.tail[GLOBAL]
      BY LockApiAssumption DEF HInv, GLOBAL
    <2>2. \A m \in NumaNodes : nd'[m].next = nd[m].next /\ nd'[m].status = nd[m].status
      BY <1>2 DEF SameNode
    <2>3. \A u \in Threads : Up(u) => u # t
      BY <1>3
    <2>4. \A u \in Threads : Up(u)' /\ pc'[u] \notin {"glink", "gspin"} => nd'[Home(u)'].status = UNLOCKED
      <3> SUFFICES ASSUME NEW u \in Threads, Up(u)', pc'[u] \notin {"glink", "gspin"}
                   PROVE  nd'[Home(u)'].status = UNLOCKED
        OBVIOUS
      <3>1. Up(u) /\ pc[u] \notin {"glink", "gspin"} /\ Home(u)' = Home(u) /\ Home(u) \in NumaNodes
        BY <1>4, <2>3 DEF HInv, Homes
      <3>2. nd[Home(u)].status = UNLOCKED
        BY <2>1, <3>1 DEF TopAt
      <3> QED
        BY <2>2, <3>1, <3>2
    <2>5. \A u \in Threads : /\ pc'[u] = "glink" <=> pc[u] = "glink"
                             /\ pc[u] = "glink" => u # t
      BY <1>3, <1>4, <2>3 DEF Up, GlobalPcs
    <2> QED
      BY <1>4, <2>1, <2>2, <2>3, <2>4, <2>5, TopKept
  <1>14. Homes' /\ Counts'
    <2>1. Homes /\ Counts
      BY DEF HInv
    <2>2. \A u \in Threads : Home(u)' \in NumaNodes
      BY <1>4, <1>5, <2>1 DEF Homes
    <2>3. \A u \in Threads : Up(u)' => nd'[u].status \in Nat \ {0}
      BY <1>3, <1>4, <2>1 DEF Counts
    <2> QED
      BY <2>2, <2>3 DEF Homes, Counts
  <1>15. g \in Seq(NumaNodes)
    BY DEF HInv
  <1> QED
    BY <1>10, <1>11, <1>12, <1>13, <1>14, <1>15 DEF HInv, R

\* The thread stores into the next field of the one before it.
LEMMA LinkStep ==
  ASSUME NEW Q, NEW g, HInv(Q, g), NEW t \in Threads, Others(t),
         pc[t] = "link", pc'[t] = "spin", lk'.tail = lk.tail,
         nd'[loc[t]].next = t,
         \A v \in Nodes : v = loc[t] \/ nd'[v].next = nd[v].next,
         \A v \in Nodes : nd'[v].status = nd[v].status /\ nd'[v].last_local = nd[v].last_local
  PROVE  HInv(Q, g)'
  <1>n. PICK n \in NumaNodes : n = Home(t)
    BY DEF HInv, Homes
  <1>q. PICK q \in Seq(Threads) : q = Q[n]
    BY DEF HInv
  <1>1. LocalAt(q, n) /\ Queued(t) /\ Q \in [NumaNodes -> Seq(Threads)] /\ g \in Seq(NumaNodes)
    BY <1>q DEF HInv, Queued, QueuedPcs
  <1>2. PICK i \in 1..Len(q) : q[i] = t
    BY <1>1, <1>n DEF LocalAt, In
  <1>3. i # 1 /\ loc[t] = q[i - 1] /\ Waits(t)
    BY <1>1, <1>2 DEF LocalAt, ChainOf, Linking
  <1>4. i \in 2..Len(q) /\ i - 1 \in 1..Len(q) /\ loc[t] \in Threads /\ Len(q) \in Nat
    BY <1>1, <1>3
  <1>5. In(q, loc[t])
    BY <1>3, <1>4 DEF In
  <1>6. ~Up(t) /\ ~Up(t)' /\ Waits(t)' /\ Queued(t)'
    BY <1>3 DEF Up, Waits, Queued, QueuedPcs, GlobalPcs, Nodes, WAIT
  <1>7. \A u \in Threads : /\ Home(u)' = Home(u)
                           /\ Queued(u)' <=> Queued(u)
                           /\ Up(u)' <=> Up(u)
                           /\ Waits(u)' <=> Waits(u)
                           /\ nd'[u].status = nd[u].status
                           /\ u # t => pc'[u] = pc[u] /\ loc'[u] = loc[u]
    BY <1>1, <1>3, <1>6 DEF Home, Queued, Up, Waits, Others, Nodes
  <1>8. \A u \in Threads : u # loc[t] => nd'[u].next = nd[u].next
    BY DEF Nodes
  <1>9. \A m \in NumaNodes : nd'[m].next = nd[m].next /\ nd'[m].status = nd[m].status
    BY <1>4, LockApiAssumption DEF Nodes
  <1>10. LocalAt(q, n)'
    <2>1. ChainOf(q, NextOf', lk.tail[n], Linking')
      <3>1. ChainOf(q, NextOf, lk.tail[n], Linking)
        BY <1>1 DEF LocalAt
      <3>2. NextOf'[q[i - 1]] = q[i] /\ q[i] \notin Linking'
        BY <1>2, <1>3, <1>4 DEF NextOf, Nodes, Linking
      <3>3. \A j \in 1..Len(q) : q[j] \in Threads
        BY <1>1
      <3>4. \A j \in 1..Len(q) : q[j] # q[i - 1] => NextOf'[q[j]] = NextOf[q[j]]
        BY <1>3, <1>8, <3>3 DEF NextOf, Nodes
      <3>5. \A j \in 1..Len(q) : j # i => q[j] # t
        BY <1>2, <3>1 DEF ChainOf
      <3>6. \A j \in 1..Len(q) : j # i => (q[j] \in Linking' <=> q[j] \in Linking)
        BY <1>7, <3>3, <3>5 DEF Linking
      <3> HIDE DEF NextOf, Linking
      <3>7. PICK next2, linking2 : next2 = NextOf' /\ linking2 = Linking'
        OBVIOUS
      <3>8. /\ next2[q[i - 1]] = q[i] /\ q[i] \notin linking2
            /\ \A j \in 1..Len(q) : q[j] # q[i - 1] => next2[q[j]] = NextOf[q[j]]
            /\ \A j \in 1..Len(q) : j # i => (q[j] \in linking2 <=> q[j] \in Linking)
        BY <3>2, <3>4, <3>6, <3>7
      <3>9. ChainOf(q, next2, lk.tail[n], linking2)
        <4> HIDE <3>7
        <4> QED
          BY <1>4, <3>1, <3>8, ChainLink
      <3> QED
        BY <3>7, <3>9
    <2>2. ChainOf(q, NextOf, lk.tail[n], Linking)'
      BY <2>1 DEF ChainOf
    <2>3. \A u \in Threads : In(q, u)' <=> (Queued(u) /\ Home(u) = n)'
      <3>1. \A u \in Threads : In(q, u) <=> Queued(u)' /\ Home(u)' = n
        BY <1>1, <1>7 DEF LocalAt
      <3> QED
        BY <3>1 DEF In
    <2>4. ASSUME NEW j \in 1..Len(q)
          PROVE  /\ Waits(q[j])' <=> j # 1
                 /\ pc'[q[j]] = "link" => loc'[q[j]] = q[j - 1]
      <3>1. q[j] \in Threads
        BY <1>1
      <3> QED
        BY <1>1, <1>7, <3>1 DEF LocalAt
    <2> QED
      BY <2>2, <2>3, <2>4 DEF LocalAt
  <1>11. ASSUME NEW m \in NumaNodes, m # n
         PROVE  LocalAt(Q[m], m)'
    <2>1. Q[m] \in Seq(Threads) /\ LocalAt(Q[m], m) /\ lk'.tail[m] = lk.tail[m]
      BY DEF HInv
    <2>2. \A u \in Threads : Queued(u) /\ Home(u) = m => u # t /\ u # loc[t]
      BY <1>1, <1>4, <1>5, <1>n, <1>11 DEF LocalAt
    <2> QED
      BY <1>7, <1>8, <2>1, <2>2, LocalKept
  <1>12. TopAt(g)'
    <2>1. g \in Seq(NumaNodes) /\ TopAt(g)
      BY DEF HInv
    <2>2. \A u \in Threads : /\ pc'[u] = "glink" <=> pc[u] = "glink"
                             /\ pc[u] = "glink" => u # t
      BY <1>7
    <2>3. \A u \in Threads : Up(u) => u # t
      BY <1>6
    <2>4. \A u \in Threads : Up(u)' /\ pc'[u] \notin {"glink", "gspin"} => nd'[Home(u)'].status = UNLOCKED
      <3> SUFFICES ASSUME NEW u \in Threads, Up(u)', pc'[u] \notin {"glink", "gspin"}
                   PROVE  nd'[Home(u)'].status = UNLOCKED
        OBVIOUS
      <3>1. Up(u) /\ pc[u] \notin {"glink", "gspin"} /\ Home(u)' = Home(u)
        BY <1>7, <2>3
      <3>2. nd[Home(u)].status = UNLOCKED /\ Home(u) \in NumaNodes
        BY <2>1, <3>1 DEF TopAt, HInv, Homes
      <3> QED
        BY <1>9, <3>1, <3>2 DEF UNLOCKED
    <2> QED
      BY <1>7, <1>9, <2>1, <2>2, <2>4, TopKept
  <1>13. Homes' /\ Counts'
    BY <1>7 DEF Homes, Counts, HInv
  <1>14. \A m \in NumaNodes : LocalAt(Q[m], m)'
    BY <1>10, <1>11, <1>q
  <1> QED
    BY <1>1, <1>12, <1>13, <1>14 DEF HInv

\* The front of a local queue puts the local lock into the global one.
LEMMA StartStep ==
  ASSUME NEW Q, NEW g, HInv(Q, g), NEW t \in Threads, Others(t), NEW n \in NumaNodes, n = Home(t),
         pc[t] \in {"start", "trytop"},
         lk.tail[GLOBAL] = NULL => pc'[t] \in {"gspin", "tryposix"},
         lk.tail[GLOBAL] # NULL => pc'[t] = "glink" /\ loc'[t] = lk.tail[GLOBAL],
         lk'.tail[GLOBAL] = n, \A h \in NumaNodes : lk'.tail[h] = lk.tail[h],
         \A v \in Nodes \ {t, n} : SameNode(v),
         nd'[t].next = nd[t].next, nd'[t].last_local = n, nd'[t].status \in Nat \ {0},
         nd'[n].next = NULL,
         nd'[n].status = IF lk.tail[GLOBAL] = NULL THEN UNLOCKED ELSE LOCKED
  PROVE  HInv(Q, Append(g, n))'
  <1>1. /\ \A u \in Threads \ {t} : SameNode(u)
        /\ \A m \in NumaNodes \ {n} : SameNode(m)
    BY LockApiAssumption DEF Nodes
  <1>2. pc'[t] \in {"gspin", "tryposix", "glink"} /\ Queued(t) /\ Queued(t)' /\ ~Up(t) /\ Up(t)'
        /\ ~Waits(t) /\ ~Waits(t)'
    BY DEF Queued, QueuedPcs, GlobalPcs, Up, Waits
  <1>3. \A u \in Threads : /\ Home(u)' = Home(u)
                           /\ Queued(u)' <=> Queued(u)
                           /\ nd'[u].next = nd[u].next
                           /\ pc'[u] = "link" <=> pc[u] = "link"
                           /\ pc[u] = "link" => loc'[u] = loc[u]
                           /\ Waits(u)' <=> Waits(u)
    BY <1>1, <1>2 DEF Others, Queued, SameNode, Home, Waits
  <1>4. \A u \in Threads \ {t} : /\ Up(u)' <=> Up(u)
                                 /\ pc'[u] = pc[u] /\ loc'[u] = loc[u]
                                 /\ nd'[u].status = nd[u].status
    BY <1>1 DEF Others, Up, SameNode
  <1>5. \A u \in Threads \ {t} : Up(u) => Home(u) # n
    BY <1>2, UpQueued, OneFront
  <1>6. g \in Seq(NumaNodes) /\ TopAt(g) /\ Len(g) \in Nat /\ \A i \in 1..Len(g) : g[i] \in NumaNodes
    BY DEF HInv
  <1>7. ~In(g, n)
    BY <1>2, <1>5, <1>6 DEF TopAt
  <1>8. \A i \in 1..Len(g) : g[i] # n
    BY <1>7 DEF In
  <1>9. PICK r : r = Append(g, n)
    OBVIOUS
  <1>10. /\ r \in Seq(NumaNodes) /\ Len(r) = Len(g) + 1 /\ r[Len(g) + 1] = n
         /\ \A i \in 1..Len(g) : r[i] = g[i]
         /\ \A i \in 1..Len(r) : i \in 1..Len(g) \/ i = Len(g) + 1
    BY <1>6, <1>9
  <1>11. ChainOf(g, NextOf, lk.tail[GLOBAL], TopLinking) /\ NULL \notin NumaNodes
    BY <1>6, LockApiAssumption DEF TopAt
  <1>12. lk.tail[GLOBAL] = NULL <=> Len(g) = 0
    BY <1>6, <1>11, ChainEmpty
  <1>13. n \in TopLinking' <=> lk.tail[GLOBAL] # NULL
    <2>1. \A u \in Threads \ {t} : pc'[u] = "glink" => Home(u)' # n
      BY <1>3, <1>4, <1>5 DEF Up, GlobalPcs
    <2>2. Home(t)' = n
      BY <1>3
    <2>3. pc'[t] = "glink" <=> lk.tail[GLOBAL] # NULL
      OBVIOUS
    <2> QED
      BY <2>1, <2>2, <2>3 DEF TopLinking
  <1>14. \A m \in NumaNodes \ {n} : m \in TopLinking' <=> m \in TopLinking
    BY <1>2, <1>3, <1>4 DEF TopLinking
  <1>15. ChainOf(r, NextOf, lk.tail[GLOBAL], TopLinking)'
    <2>1. PICK next2, linking2 : next2 = NextOf' /\ linking2 = TopLinking'
      OBVIOUS
    <2>2. next2[n] = NULL /\ \A i \in 1..Len(g) : next2[g[i]] = NextOf[g[i]]
      BY <1>1, <1>6, <1>8, <2>1 DEF NextOf, Nodes, SameNode
    <2>3. /\ n \in linking2 <=> lk.tail[GLOBAL] # NULL
          /\ \A i \in 1..Len(g) : g[i] \in linking2 <=> g[i] \in TopLinking
      BY <1>6, <1>8, <1>13, <1>14, <2>1
    <2> HIDE DEF NextOf, TopLinking
    <2>4. g \in Seq(NumaNodes)
      BY <1>6
    <2>5. ChainOf(Append(g, n), next2, n, linking2)
      <3> HIDE <2>1
      <3> QED
        BY <1>7, <1>11, <2>2, <2>3, <2>4, ChainAppend
    <2>6. ChainOf(r, NextOf', n, TopLinking')
      BY <1>9, <2>1, <2>5
    <2> QED
      BY <2>6 DEF ChainOf, GLOBAL
  <1>16. \A m \in NumaNodes : In(r, m)' <=> \E u \in Threads : Up(u)' /\ Home(u)' = m
    <2>1. ASSUME NEW m \in NumaNodes
          PROVE  In(r, m) <=> \E u \in Threads : Up(u)' /\ Home(u)' = m
      <3>1. In(r, m) <=> In(g, m) \/ m = n
        BY <1>6, <1>10 DEF In
      <3>2. In(g, m) <=> \E u \in Threads : Up(u) /\ Home(u) = m
        BY <1>6 DEF TopAt
      <3> QED
        BY <1>2, <1>3, <1>4, <3>1, <3>2
    <2> QED
      BY <2>1 DEF In
  <1>17. ASSUME NEW i \in 1..Len(r)
         PROVE  nd'[r[i]].status = IF i = 1 THEN UNLOCKED ELSE LOCKED
    <2>1. CASE i \in 1..Len(g)
      BY <1>1, <1>6, <1>8, <1>10, <2>1 DEF TopAt, SameNode
    <2>2. CASE i = Len(g) + 1
      BY <1>6, <1>10, <1>12, <2>2
    <2> QED
      BY <1>10, <2>1, <2>2
  <1>18. ASSUME NEW u \in Threads
         PROVE  /\ Up(u)' /\ pc'[u] \notin {"glink", "gspin"} => nd'[Home(u)'].status = UNLOCKED
                /\ pc'[u] = "glink" => \E i \in 2..Len(r) : r[i] = Home(u)' /\ loc'[u] = r[i - 1]
    <2>1. CASE u = t
      <3>1. pc'[t] \notin {"glink", "gspin"} => nd'[Home(t)'].status = UNLOCKED
        BY <1>2, <1>3
      <3>2. pc'[t] = "glink" => Len(g) + 1 \in 2..Len(r) /\ r[Len(g) + 1] = Home(t)'
                                /\ loc'[t] = r[(Len(g) + 1) - 1]
        <4>1. SUFFICES ASSUME pc'[t] = "glink"
                       PROVE  Len(g) + 1 \in 2..Len(r) /\ r[Len(g) + 1] = Home(t)'
                              /\ loc'[t] = r[(Len(g) + 1) - 1]
          OBVIOUS
        <4>2. lk.tail[GLOBAL] # NULL /\ Len(g) # 0 /\ loc'[t] = lk.tail[GLOBAL]
          BY <1>12, <4>1
        <4>3. lk.tail[GLOBAL] = g[Len(g)]
          BY <1>11, <4>2 DEF ChainOf
        <4>4. Len(g) \in 1..Len(g) /\ (Len(g) + 1) - 1 = Len(g) /\ Len(g) + 1 \in 2..Len(r)
          BY <1>6, <1>10, <4>2
        <4> QED
          BY <1>3, <1>10, <4>2, <4>3, <4>4
      <3> QED
        BY <2>1, <3>1, <3>2
    <2>2. CASE u # t
      <3>1. /\ Up(u)' <=> Up(u)
            /\ Home(u)' = Home(u) /\ Home(u) \in NumaNodes
            /\ Up(u) => Home(u) # n
            /\ pc'[u] = pc[u] /\ loc'[u] = loc[u]
        BY <1>3, <1>4, <1>5, <2>2 DEF HInv, Homes
      <3>2. Up(u) /\ pc[u] \notin {"glink", "gspin"} => nd[Home(u)].status = UNLOCKED
        BY <1>6 DEF TopAt
      <3>3. Up(u) => nd'[Home(u)].status = nd[Home(u)].status
        BY <1>1, <3>1 DEF SameNode
      <3>4. ASSUME pc[u] = "glink"
            PROVE  \E i \in 2..Len(r) : r[i] = Home(u) /\ loc[u] = r[i - 1]
        <4>1. PICK i \in 2..Len(g) : g[i] = Home(u) /\ loc[u] = g[i - 1]
          BY <1>6, <3>4 DEF TopAt
        <4>2. i \in 2..Len(r) /\ i \in 1..Len(g) /\ i - 1 \in 1..Len(g)
          BY <1>6, <1>10
        <4> QED
          BY <1>10, <4>1, <4>2
      <3> QED
        BY <3>1, <3>2, <3>3, <3>4
    <2> QED
      BY <2>1, <2>2
  <1>19. TopAt(r)'
    BY <1>15, <1>16, <1>17, <1>18 DEF TopAt, UNLOCKED, LOCKED
  <1>20. ASSUME NEW m \in NumaNodes
         PROVE  LocalAt(Q[m], m)'
    <2>1. Q[m] \in Seq(Threads) /\ LocalAt(Q[m], m) /\ lk'.tail[m] = lk.tail[m]
      BY DEF HInv
    <2> QED
      BY <1>3, <2>1, LocalKept
  <1>21. Homes'
    BY <1>3 DEF Homes, HInv
  <1>22. Counts'
    BY <1>4 DEF Counts, HInv
  <1>23. Q \in [NumaNodes -> Seq(Threads)] /\ HInv(Q, r)'
    BY <1>10, <1>19, <1>20, <1>21, <1>22 DEF HInv
  <1> QED
    BY <1>9, <1>23

\* The thread stores into the next field of the local lock before its own.
LEMMA TopLinkStep ==
  ASSUME NEW Q, NEW g, HInv(Q, g), NEW t \in Threads, Others(t),
         pc[t] = "glink", pc'[t] = "gspin", lk'.tail = lk.tail,
         nd'[loc[t]].next = Home(t),
         \A v \in Nodes : v = loc[t] \/ nd'[v].next = nd[v].next,
         \A v \in Nodes : nd'[v].status = nd[v].status /\ nd'[v].last_local = nd[v].last_local
  PROVE  HInv(Q, g)'
  <1>1. g \in Seq(NumaNodes) /\ TopAt(g) /\ Len(g) \in Nat /\ \A i \in 1..Len(g) : g[i] \in NumaNodes
    BY DEF HInv
  <1>2. PICK i \in 2..Len(g) : g[i] = Home(t) /\ loc[t] = g[i - 1]
    BY <1>1 DEF TopAt
  <1>3. i - 1 \in 1..Len(g) /\ i \in 1..Len(g) /\ loc[t] \in NumaNodes
    BY <1>1, <1>2
  <1>4. Up(t) /\ Up(t)' /\ Queued(t) /\ Queued(t)' /\ ~Waits(t) /\ ~Waits(t)'
    BY DEF Up, Queued, QueuedPcs, GlobalPcs, Waits
  <1>5. \A u \in Threads : /\ Home(u)' = Home(u)
                           /\ Queued(u)' <=> Queued(u)
                           /\ Up(u)' <=> Up(u)
                           /\ Waits(u)' <=> Waits(u)
                           /\ pc'[u] = "link" <=> pc[u] = "link"
                           /\ pc[u] = "link" => loc'[u] = loc[u]
                           /\ nd'[u].status = nd[u].status
                           /\ nd'[u].next = nd[u].next
                           /\ u # t => pc'[u] = pc[u] /\ loc'[u] = loc[u]
    BY <1>3, <1>4, LockApiAssumption DEF Home, Queued, Up, Waits, Others, Nodes
  <1>6. \A m \in NumaNodes : nd'[m].status = nd[m].status
    BY DEF Nodes
  <1>7. \A u \in Threads \ {t} : Up(u) => Home(u) # Home(t)
    BY <1>4, UpQueued, OneFront
  <1>8. ChainOf(g, NextOf, lk.tail[GLOBAL], TopLinking)'
    <2>1. ChainOf(g, NextOf, lk.tail[GLOBAL], TopLinking)
      BY <1>1 DEF TopAt
    <2>2. PICK next2, linking2 : next2 = NextOf' /\ linking2 = TopLinking'
      OBVIOUS
    <2>3. next2[g[i - 1]] = g[i]
      BY <1>2, <1>3, <2>2 DEF NextOf, Nodes
    <2>4. \A j \in 1..Len(g) : g[j] # g[i - 1] => next2[g[j]] = NextOf[g[j]]
      BY <1>1, <1>2, <2>2 DEF NextOf, Nodes
    <2>5. g[i] \notin linking2
      BY <1>2, <1>5, <1>7, <2>2 DEF TopLinking, Up, GlobalPcs
    <2>6. \A j \in 1..Len(g) : j # i => (g[j] \in linking2 <=> g[j] \in TopLinking)
      <3>1. \A j \in 1..Len(g) : j # i => g[j] # Home(t)
        BY <1>2, <1>3, <2>1 DEF ChainOf
      <3> QED
        BY <1>1, <1>5, <2>2, <3>1 DEF TopLinking
    <2> HIDE DEF NextOf, TopLinking
    <2>7. ChainOf(g, next2, lk.tail[GLOBAL], linking2)
      <3> HIDE <2>2
      <3> QED
        BY <1>1, <2>1, <2>3, <2>4, <2>5, <2>6, ChainLink
    <2>8. ChainOf(g, NextOf', lk.tail[GLOBAL], TopLinking')
      BY <2>2, <2>7
    <2> QED
      BY <2>8 DEF ChainOf, GLOBAL
  <1>9. \A m \in NumaNodes : In(g, m)' <=> \E u \in Threads : Up(u)' /\ Home(u)' = m
    <2>1. \A m \in NumaNodes : In(g, m) <=> \E u \in Threads : Up(u)' /\ Home(u)' = m
      BY <1>1, <1>5 DEF TopAt
    <2> QED
      BY <2>1 DEF In
  <1>10. \A j \in 1..Len(g) : nd'[g[j]].status = IF j = 1 THEN UNLOCKED ELSE LOCKED
    BY <1>1, <1>6 DEF TopAt
  <1>11. ASSUME NEW u \in Threads
         PROVE  /\ Up(u)' /\ pc'[u] \notin {"glink", "gspin"} => nd'[Home(u)'].status = UNLOCKED
                /\ pc'[u] = "glink" => \E j \in 2..Len(g) : g[j] = Home(u)' /\ loc'[u] = g[j - 1]
    <2>1. CASE u = t
      BY <2>1
    <2>2. CASE u # t
      <3>1. Home(u) \in NumaNodes
        BY DEF HInv, Homes
      <3> QED
        BY <1>1, <1>5, <1>6, <2>2, <3>1 DEF TopAt
    <2> QED
      BY <2>1, <2>2
  <1>12. TopAt(g)'
    BY <1>8, <1>9, <1>10, <1>11 DEF TopAt, UNLOCKED, LOCKED
  <1>13. ASSUME NEW m \in NumaNodes
         PROVE  LocalAt(Q[m], m)'
    <2>1. Q[m] \in Seq(Threads) /\ LocalAt(Q[m], m) /\ lk'.tail[m] = lk.tail[m]
      BY DEF HInv
    <2> QED
      BY <1>5, <2>1, LocalKept
  <1>14. Homes' /\ Counts'
    BY <1>5 DEF Homes, Counts, HInv
  <1> QED
    BY <1>1, <1>12, <1>13, <1>14 DEF HInv

\* Who has both locks gives up the global one, or passes it on to the next local lock.
LEMMA TopReleaseStep ==
  ASSUME NEW Q, NEW g, HInv(Q, g), NEW t \in Threads, Others(t), NEW n \in NumaNodes, n = Home(t),
         pc[t] \in GlobalPcs \ {"glink", "gspin"}, pc'[t] = "lcas", NEW m, m = nd[n].next,
         \/ lk.tail[GLOBAL] = n /\ lk'.tail[GLOBAL] = NULL /\ \A v \in Nodes \ {n} : SameNode(v)
         \/ /\ m # NULL /\ lk'.tail[GLOBAL] = lk.tail[GLOBAL]
            /\ nd'[m].status = UNLOCKED /\ (m # n => nd'[m].next = nd[m].next)
            /\ \A v \in Nodes \ {n, m} : SameNode(v),
         \A h \in NumaNodes : lk'.tail[h] = lk.tail[h]
  PROVE  HInv(Q, Tail(g))'
  <1>1. g \in Seq(NumaNodes) /\ TopAt(g) /\ Len(g) \in Nat /\ \A i \in 1..Len(g) : g[i] \in NumaNodes
    BY DEF HInv
  <1>2. Up(t) /\ ~Up(t)' /\ Queued(t) /\ Queued(t)' /\ ~Waits(t) /\ ~Waits(t)'
    BY DEF Up, Queued, QueuedPcs, GlobalPcs, Waits
  <1>3. nd[n].status = UNLOCKED
    BY <1>1, <1>2 DEF TopAt
  <1>4. Len(g) # 0 /\ g[1] = n /\ 1 \in 1..Len(g)
    BY <1>1, <1>2, <1>3, TurnIs
  <1>5. ChainOf(g, NextOf, lk.tail[GLOBAL], TopLinking) /\ NULL \notin NumaNodes
    BY <1>1, LockApiAssumption DEF TopAt
  <1>6. /\ lk.tail[GLOBAL] = n <=> Len(g) = 1
        /\ m # NULL => Len(g) > 1 /\ m = g[2] /\ g[2] \notin TopLinking /\ m \in NumaNodes /\ m # n
    <2>1. NextOf[n] = m
      BY DEF NextOf, Nodes
    <2>2. /\ lk.tail[GLOBAL] = g[1] <=> Len(g) = 1
          /\ NextOf[g[1]] # NULL => Len(g) > 1 /\ NextOf[g[1]] = g[2] /\ g[2] \notin TopLinking
      <3> HIDE DEF NextOf, TopLinking
      <3> QED
        BY <1>1, <1>4, <1>5, ChainAlone
    <2>3. Len(g) > 1 => g[2] # g[1] /\ g[2] \in NumaNodes
      BY <1>1, <1>5 DEF ChainOf
    <2> QED
      BY <1>4, <2>1, <2>2, <2>3
  <1>7. Len(g) = 1 \/ m # NULL
    BY <1>6
  <1>8. HInv(Q, Tail(g))'
    <2>1. /\ lk'.tail[GLOBAL] = IF Len(g) = 1 THEN NULL ELSE lk.tail[GLOBAL]
          /\ Len(g) > 1 => /\ m = g[2] /\ m \in NumaNodes /\ m # n
                           /\ g[2] \notin TopLinking
                           /\ nd'[m].status = UNLOCKED /\ nd'[m].next = nd[m].next
          /\ \A v \in Nodes \ {n} : (v = m /\ Len(g) > 1) \/ SameNode(v)
      BY <1>1, <1>6, <1>7
    <2>2. \A u \in Threads : SameNode(u)
      BY <2>1, LockApiAssumption DEF Nodes
    <2>3. \A k \in NumaNodes \ {n} : /\ nd'[k].next = nd[k].next
                                     /\ k # m \/ Len(g) = 1 => nd'[k].status = nd[k].status
      BY <1>1, <2>1 DEF SameNode, Nodes
    <2>4. \A u \in Threads : /\ Home(u)' = Home(u)
                             /\ Queued(u)' <=> Queued(u)
                             /\ Waits(u)' <=> Waits(u)
                             /\ nd'[u].next = nd[u].next
                             /\ nd'[u].status = nd[u].status
                             /\ pc'[u] = "link" <=> pc[u] = "link"
                             /\ pc[u] = "link" => loc'[u] = loc[u]
                             /\ Up(u)' <=> Up(u) /\ u # t
                             /\ pc'[u] = "glink" <=> pc[u] = "glink"
                             /\ u # t => pc'[u] = pc[u] /\ loc'[u] = loc[u]
      BY <1>2, <2>2 DEF Others, Queued, Up, SameNode, Home, Waits, GlobalPcs
    <2>5. \A u \in Threads \ {t} : Up(u) => Home(u) # n
      BY <1>2, UpQueued, OneFront
    <2>6. \A u \in Threads \ {t} : Up(u) => pc[u] \in {"glink", "gspin"}
      <3> SUFFICES ASSUME NEW u \in Threads \ {t}, Up(u), pc[u] \notin {"glink", "gspin"}
                   PROVE  FALSE
        OBVIOUS
      <3>1. nd[Home(u)].status = UNLOCKED
        BY <1>1 DEF TopAt
      <3> QED
        BY <1>2, <1>3, <3>1, OneOwner
    <2>7. TopLinking' = TopLinking
      BY <2>4 DEF TopLinking
    <2>8. PICK r : r = Tail(g)
      OBVIOUS
    <2>9. \A i \in 2..Len(g) : g[i] \in NumaNodes \ {n} /\ (i # 2 => g[i] # g[2])
      <3>1. \A i, j \in 1..Len(g) : g[i] = g[j] => i = j
        BY <1>5 DEF ChainOf
      <3> QED
        BY <1>1, <1>4, <3>1
    <2>10. /\ r \in Seq(NumaNodes) /\ Len(r) = Len(g) - 1
           /\ \A j \in 1..Len(r) : r[j] = g[j + 1] /\ j + 1 \in 2..Len(g)
           /\ ChainOf(r, NextOf', lk'.tail[GLOBAL], TopLinking')
           /\ \A k \in NumaNodes : In(g, k) <=> In(r, k) \/ k = n
           /\ ~In(r, n)
      <3>1. PICK next2, linking2, last2 :
               next2 = NextOf' /\ linking2 = TopLinking' /\ last2 = lk'.tail[GLOBAL]
        OBVIOUS
      <3>2. /\ \A j \in 2..Len(g) : next2[g[j]] = NextOf[g[j]]
            /\ \A j \in 2..Len(g) : g[j] \in linking2 <=> g[j] \in TopLinking
            /\ Len(g) > 1 => g[2] \notin linking2
            /\ Len(g) = 1 => last2 = NULL
            /\ Len(g) # 1 => last2 = lk.tail[GLOBAL]
        BY <2>1, <2>3, <2>7, <2>9, <3>1 DEF NextOf, Nodes
      <3> HIDE DEF NextOf, TopLinking
      <3>3. g \in Seq(NumaNodes) /\ \A i, j \in 1..Len(g) : g[i] = g[j] => i = j
        BY <1>1, <1>5 DEF ChainOf
      <3>4. ChainOf(Tail(g), next2, last2, linking2)
        <4> HIDE <3>1
        <4> QED
          BY <1>4, <1>5, <3>2, <3>3, ChainTail
      <3>5. /\ Tail(g) \in Seq(NumaNodes) /\ Len(Tail(g)) = Len(g) - 1
            /\ \A j \in 1..Len(Tail(g)) : Tail(g)[j] = g[j + 1] /\ j + 1 \in 2..Len(g)
            /\ ~In(Tail(g), g[1])
            /\ \A v \in NumaNodes : In(g, v) <=> In(Tail(g), v) \/ v = g[1]
        BY <1>4, <3>3, TailIs
      <3> QED
        BY <1>4, <2>8, <3>1, <3>4, <3>5
    <2>11. ChainOf(r, NextOf, lk.tail[GLOBAL], TopLinking)'
      BY <2>10 DEF ChainOf, GLOBAL
    <2>12. ASSUME NEW k \in NumaNodes
           PROVE  In(r, k)' <=> \E u \in Threads : Up(u)' /\ Home(u)' = k
      <3>1. In(r, k) <=> In(g, k) /\ k # n
        BY <2>10
      <3>2. In(g, k) <=> \E u \in Threads : Up(u) /\ Home(u) = k
        BY <1>1 DEF TopAt
      <3>3. (\E u \in Threads : Up(u)' /\ Home(u)' = k)
              <=> (\E u \in Threads : Up(u) /\ Home(u) = k) /\ k # n
        BY <2>4, <2>5
      <3>4. In(r, k)' <=> In(r, k)
        BY DEF In
      <3> QED
        BY <3>1, <3>2, <3>3, <3>4
    <2>13. ASSUME NEW j \in 1..Len(r)
           PROVE  nd'[r[j]].status = IF j = 1 THEN UNLOCKED ELSE LOCKED
      <3>1. j + 1 \in 2..Len(g) /\ r[j] = g[j + 1] /\ Len(g) > 1 /\ (j = 1 <=> j + 1 = 2)
        BY <1>1, <2>10
      <3>2. CASE j = 1
        BY <2>1, <3>1, <3>2
      <3>3. CASE j # 1
        <4>1. g[j + 1] \in NumaNodes \ {n} /\ g[j + 1] # m
          BY <2>1, <2>9, <3>1, <3>3
        <4>2. nd'[g[j + 1]].status = nd[g[j + 1]].status
          BY <2>3, <4>1
        <4>3. nd[g[j + 1]].status = LOCKED
          BY <1>1, <3>1 DEF TopAt
        <4> QED
          BY <3>1, <3>3, <4>2, <4>3
      <3> QED
        BY <3>2, <3>3
    <2>14. ASSUME NEW u \in Threads
           PROVE  /\ Up(u)' /\ pc'[u] \notin {"glink", "gspin"} => nd'[Home(u)'].status = UNLOCKED
                  /\ pc'[u] = "glink" => \E j \in 2..Len(r) : r[j] = Home(u)' /\ loc'[u] = r[j - 1]
      <3>1. Up(u)' => pc'[u] \in {"glink", "gspin"}
        BY <2>4, <2>6
      <3>2. ASSUME pc'[u] = "glink"
            PROVE  \E j \in 2..Len(r) : r[j] = Home(u)' /\ loc'[u] = r[j - 1]
        <4>1. pc[u] = "glink" /\ u # t /\ Home(u)' = Home(u) /\ loc'[u] = loc[u]
          BY <2>4, <3>2
        <4>2. PICK i \in 2..Len(g) : g[i] = Home(u) /\ loc[u] = g[i - 1]
          BY <1>1, <4>1 DEF TopAt
        <4>3. i # 2
          <5>1. Home(u) \in TopLinking
            BY <4>1 DEF TopLinking, HInv, Homes
          <5> QED
            BY <1>1, <2>1, <4>2, <5>1
        <4>4. i - 1 \in 2..Len(r) /\ i - 1 \in 1..Len(r) /\ (i - 1) - 1 \in 1..Len(r)
              /\ (i - 1) + 1 = i /\ ((i - 1) - 1) + 1 = i - 1
          BY <1>1, <2>10, <4>3
        <4>5. r[i - 1] = g[i] /\ r[(i - 1) - 1] = g[i - 1]
          <5>1. PICK k : k = i - 1
            OBVIOUS
          <5>2. PICK l : l = k - 1
            OBVIOUS
          <5>3. k \in 1..Len(r) /\ l \in 1..Len(r) /\ k + 1 = i /\ l + 1 = k
            BY <4>4, <5>1, <5>2
          <5>4. r[k] = g[k + 1] /\ r[l] = g[l + 1]
            BY <2>10, <5>3
          <5>5. r[k] = g[i] /\ r[l] = g[k]
            BY <5>3, <5>4
          <5> QED
            BY <5>1, <5>2, <5>5
        <4> QED
          BY <4>1, <4>2, <4>4, <4>5
      <3> QED
        BY <3>1, <3>2
    <2>15. TopAt(r)'
      BY <2>11, <2>12, <2>13, <2>14 DEF TopAt, UNLOCKED, LOCKED
    <2>16. ASSUME NEW k \in NumaNodes
           PROVE  LocalAt(Q[k], k)'
      <3>1. Q[k] \in Seq(Threads) /\ LocalAt(Q[k], k) /\ lk'.tail[k] = lk.tail[k]
        BY DEF HInv
      <3> QED
        BY <2>4, <3>1, LocalKept
    <2>17. Homes'
      BY <2>4 DEF Homes, HInv
    <2>18. Counts'
      BY <2>4 DEF Counts, HInv
    <2>19. Q \in [NumaNodes -> Seq(Threads)] /\ HInv(Q, r)'
      BY <2>10, <2>15, <2>16, <2>17, <2>18 DEF HInv
    <2> QED
      BY <2>8, <2>19
  <1> QED
    BY <1>8

\* The front of a local queue leaves.  The next one gets the local lock, and with
\* it the global one if that is passed on.
LEMMA LocalReleaseStep ==
  ASSUME NEW Q, NEW g, HInv(Q, g), NEW t \in Threads, Others(t), NEW n \in NumaNodes, n = Home(t),
         Queued(t), ~Waits(t), pc[t] \notin {"link", "glink", "gspin"},
         pc'[t] \notin QueuedPcs, NEW m, m = nd[t].next,
         \/ /\ ~Up(t) /\ lk.tail[n] = t /\ lk'.tail[n] = NULL
            /\ \A v \in Nodes \ {t} : SameNode(v)
         \/ /\ m # NULL /\ lk'.tail[n] = lk.tail[n]
            /\ (Up(t) => nd'[m].status \in Nat \ {0}) /\ (~Up(t) => nd'[m].status = ACQUIRE_PARENT)
            /\ (m # t => nd'[m].next = nd[m].next /\ nd'[m].last_local = nd[m].last_local)
            /\ \A v \in Nodes \ {t, m} : SameNode(v),
         \A h \in (NumaNodes \cup {GLOBAL}) \ {n} : lk'.tail[h] = lk.tail[h],
         nd'[t].last_local \in NumaNodes
  PROVE  HInv([Q EXCEPT ![n] = Tail(@)], g)'
  <1>1. PICK q \in Seq(Threads) : q = Q[n]
    BY DEF HInv
  <1>2. LocalAt(q, n) /\ Len(q) \in Nat /\ \A i \in 1..Len(q) : q[i] \in Threads
    BY <1>1 DEF HInv
  <1>3. Len(q) # 0 /\ q[1] = t /\ 1 \in 1..Len(q)
    BY <1>1, FrontIs
  <1>4. ChainOf(q, NextOf, lk.tail[n], Linking) /\ NULL \notin Threads
    BY <1>2, LockApiAssumption DEF LocalAt
  <1>5. /\ lk.tail[n] = t <=> Len(q) = 1
        /\ m # NULL => Len(q) > 1 /\ m = q[2] /\ q[2] \notin Linking /\ m \in Threads /\ m # t
    <2>1. NextOf[t] = m
      BY DEF NextOf, Nodes
    <2>2. /\ lk.tail[n] = q[1] <=> Len(q) = 1
          /\ NextOf[q[1]] # NULL => Len(q) > 1 /\ NextOf[q[1]] = q[2] /\ q[2] \notin Linking
      <3> HIDE DEF NextOf, Linking
      <3> QED
        BY <1>1, <1>3, <1>4, ChainAlone
    <2>3. Len(q) > 1 => q[2] # q[1] /\ q[2] \in Threads
      BY <1>2, <1>4 DEF ChainOf
    <2> QED
      BY <1>3, <2>1, <2>2, <2>3
  <1>6. Len(q) = 1 \/ m # NULL
    BY <1>5
  <1>l. Len(q) = 1 \/ Len(q) > 1
    <2>1. PICK l \in Nat : l = Len(q) /\ l # 0
      BY <1>2, <1>3
    <2> QED
      BY <2>1
  <1>7. /\ Len(q) = 1 => ~Up(t)
        /\ lk'.tail[n] = IF Len(q) = 1 THEN NULL ELSE lk.tail[n]
        /\ Len(q) > 1 => /\ m = q[2] /\ m \in Threads /\ m # t /\ q[2] \notin Linking
                         /\ Up(t) => nd'[m].status \in Nat \ {0}
                         /\ ~Up(t) => nd'[m].status = ACQUIRE_PARENT
                         /\ nd'[m].next = nd[m].next /\ nd'[m].last_local = nd[m].last_local
        /\ \A v \in Nodes \ {t} : (v = m /\ Len(q) > 1) \/ SameNode(v)
    BY <1>2, <1>5, <1>6
  <1>8. Len(q) > 1 => /\ Waits(m) /\ pc[m] = "spin" /\ Queued(m) /\ Home(m) = n /\ ~Up(m)
                      /\ 2 \in 1..Len(q)
    <2>1. SUFFICES ASSUME Len(q) > 1
                   PROVE  /\ Waits(m) /\ pc[m] = "spin" /\ Queued(m) /\ Home(m) = n /\ ~Up(m)
                          /\ 2 \in 1..Len(q)
      OBVIOUS
    <2>2. 2 \in 1..Len(q) /\ m = q[2] /\ m \in Threads
      BY <1>2, <1>7, <2>1
    <2>3. Waits(m) /\ Queued(m) /\ Home(m) = n
      BY <1>2, <2>2 DEF LocalAt, In
    <2>4. pc[m] # "link"
      BY <1>7, <2>1, <2>2 DEF Linking
    <2> QED
      BY <2>2, <2>3, <2>4 DEF Waits, Up, GlobalPcs
  <1>9. ~Queued(t)' /\ ~Up(t)'
    BY DEF Queued, QueuedPcs, Up, GlobalPcs
  <1>10. \A u \in Threads \ {t} : /\ Home(u)' = Home(u)
                                  /\ Queued(u)' <=> Queued(u)
                                  /\ nd'[u].next = nd[u].next
                                  /\ pc'[u] = pc[u] /\ loc'[u] = loc[u]
                                  /\ u # m \/ Len(q) = 1 => nd'[u].status = nd[u].status
    <2>1. ASSUME NEW u \in Threads \ {t}
          PROVE  /\ nd'[u].next = nd[u].next /\ nd'[u].last_local = nd[u].last_local
                 /\ u # m \/ Len(q) = 1 => nd'[u].status = nd[u].status
      <3>1. u \in Nodes \ {t}
        BY DEF Nodes
      <3> QED
        BY <1>7, <3>1 DEF SameNode
    <2> QED
      BY <2>1 DEF Others, Queued, Home
  <1>11. \A u \in Threads \ {t} : /\ u # m \/ Len(q) = 1 => (Waits(u)' <=> Waits(u)) /\ (Up(u)' <=> Up(u))
                                  /\ u = m /\ Len(q) > 1 => ~Waits(u)' /\ (Up(u)' <=> Up(t))
    <2>1. ASSUME NEW u \in Threads \ {t}, u # m \/ Len(q) = 1
          PROVE  (Waits(u)' <=> Waits(u)) /\ (Up(u)' <=> Up(u))
      BY <1>10, <2>1 DEF Waits, Up
    <2>2. ASSUME Len(q) > 1
          PROVE  ~Waits(m)' /\ (Up(m)' <=> Up(t))
      <3>1. pc'[m] = "spin" /\ nd'[m].status # WAIT /\ (nd'[m].status = ACQUIRE_PARENT <=> ~Up(t))
        BY <1>7, <1>8, <1>10, <2>2 DEF WAIT, ACQUIRE_PARENT
      <3> QED
        BY <3>1 DEF Waits, Up, GlobalPcs
    <2> QED
      BY <2>1, <2>2
  <1>12. \A k \in NumaNodes : SameNode(k)
    BY <1>7, LockApiAssumption DEF Nodes
  <1>13. PICK r : r = Tail(q)
    OBVIOUS
  <1>14. \A i \in 2..Len(q) : q[i] \in Threads \ {t} /\ (i # 2 => q[i] # q[2])
    <2>1. \A i, j \in 1..Len(q) : q[i] = q[j] => i = j
      BY <1>4 DEF ChainOf
    <2> QED
      BY <1>2, <1>3, <2>1
  <1>15. /\ r \in Seq(Threads) /\ Len(r) = Len(q) - 1
         /\ \A j \in 1..Len(r) : r[j] = q[j + 1] /\ j + 1 \in 2..Len(q)
         /\ ChainOf(r, NextOf', lk'.tail[n], Linking')
         /\ \A u \in Threads : In(q, u) <=> In(r, u) \/ u = t
         /\ ~In(r, t)
    <2>1. PICK next2, linking2, last2 : next2 = NextOf' /\ linking2 = Linking' /\ last2 = lk'.tail[n]
      OBVIOUS
    <2>2. \A u \in Threads \ {t} : u \in Linking' <=> u \in Linking
      BY <1>10 DEF Linking
    <2>3. /\ \A j \in 2..Len(q) : next2[q[j]] = NextOf[q[j]]
          /\ \A j \in 2..Len(q) : q[j] \in linking2 <=> q[j] \in Linking
          /\ Len(q) > 1 => q[2] \notin linking2
          /\ Len(q) = 1 => last2 = NULL
          /\ Len(q) # 1 => last2 = lk.tail[n]
      BY <1>7, <1>10, <1>14, <2>1, <2>2 DEF NextOf, Nodes
    <2> HIDE DEF NextOf, Linking
    <2>4. \A i, j \in 1..Len(q) : q[i] = q[j] => i = j
      BY <1>4 DEF ChainOf
    <2>5. ChainOf(Tail(q), next2, last2, linking2)
      <3> HIDE <2>1
      <3> QED
        BY <1>3, <1>4, <2>3, ChainTail
    <2>6. /\ Tail(q) \in Seq(Threads) /\ Len(Tail(q)) = Len(q) - 1
          /\ \A j \in 1..Len(Tail(q)) : Tail(q)[j] = q[j + 1] /\ j + 1 \in 2..Len(q)
          /\ ~In(Tail(q), q[1])
          /\ \A v \in Threads : In(q, v) <=> In(Tail(q), v) \/ v = q[1]
      BY <1>3, <2>4, TailIs
    <2> QED
      BY <1>3, <1>13, <2>1, <2>5, <2>6
  <1>16. LocalAt(r, n)'
    <2>1. ChainOf(r, NextOf, lk.tail[n], Linking)'
      BY <1>15 DEF ChainOf
    <2>2. ASSUME NEW u \in Threads
          PROVE  In(r, u)' <=> (Queued(u) /\ Home(u) = n)'
      <3>1. In(r, u) <=> In(q, u) /\ u # t
        BY <1>15
      <3>2. In(q, u) <=> Queued(u) /\ Home(u) = n
        BY <1>2 DEF LocalAt
      <3>3. In(r, u)' <=> In(r, u)
        BY DEF In
      <3> QED
        BY <1>9, <1>10, <3>1, <3>2, <3>3
    <2>3. ASSUME NEW j \in 1..Len(r)
          PROVE  /\ Waits(r[j])' <=> j # 1
                 /\ pc'[r[j]] = "link" => loc'[r[j]] = r[j - 1]
      <3>1. j + 1 \in 2..Len(q) /\ j + 1 \in 1..Len(q) /\ r[j] = q[j + 1] /\ Len(q) > 1
            /\ (j = 1 <=> j + 1 = 2) /\ j + 1 # 1 /\ (j + 1) - 1 = j
        BY <1>2, <1>15
      <3>2. CASE j = 1
        <4>1. r[j] = m /\ m \in Threads \ {t}
          BY <1>7, <3>1, <3>2
        <4>2. ~Waits(m)' /\ pc'[m] = "spin"
          BY <1>8, <1>10, <1>11, <3>1, <4>1
        <4> QED
          BY <3>2, <4>1, <4>2
      <3>3. CASE j # 1
        <4>1. q[j + 1] \in Threads \ {t} /\ q[j + 1] # m
          BY <1>7, <1>14, <3>1, <3>3
        <4>2. Waits(q[j + 1])
          BY <1>2, <3>1 DEF LocalAt
        <4>3. pc[q[j + 1]] = "link" => loc[q[j + 1]] = q[(j + 1) - 1]
          BY <1>2, <3>1 DEF LocalAt
        <4>4. r[j - 1] = q[j]
          <5>1. PICK k : k = j - 1
            OBVIOUS
          <5>2. k \in 1..Len(r) /\ k + 1 = j
            BY <1>15, <3>3, <5>1
          <5>3. r[k] = q[k + 1]
            BY <1>15, <5>2
          <5> QED
            BY <5>1, <5>2, <5>3
        <4>5. Waits(q[j + 1])' /\ pc'[q[j + 1]] = pc[q[j + 1]] /\ loc'[q[j + 1]] = loc[q[j + 1]]
          BY <1>10, <1>11, <4>1, <4>2
        <4> QED
          BY <3>1, <3>3, <4>3, <4>4, <4>5
      <3> QED
        BY <3>2, <3>3
    <2> QED
      BY <2>1, <2>2, <2>3 DEF LocalAt
  <1>17. ASSUME NEW k \in NumaNodes, k # n
         PROVE  LocalAt(Q[k], k)'
    <2>1. Q[k] \in Seq(Threads) /\ LocalAt(Q[k], k) /\ lk'.tail[k] = lk.tail[k]
      BY <1>17 DEF HInv
    <2>2. ASSUME NEW u \in Threads
          PROVE  /\ Queued(u)' /\ Home(u)' = k <=> Queued(u) /\ Home(u) = k
                 /\ Queued(u) /\ Home(u) = k =>
                      /\ nd'[u].next = nd[u].next
                      /\ pc'[u] = "link" <=> pc[u] = "link"
                      /\ pc[u] = "link" => loc'[u] = loc[u]
                      /\ Waits(u)' <=> Waits(u)
      <3>1. CASE u = t
        BY <1>9, <1>17, <3>1
      <3>2. CASE u # t
        <4>1. Home(u) = k => u # m \/ Len(q) = 1
          BY <1>2, <1>8, <1>l, <1>17
        <4> QED
          BY <1>10, <1>11, <3>2, <4>1
      <3> QED
        BY <3>1, <3>2
    <2> QED
      BY <2>1, <2>2, LocalKept
  <1>18. pc[t] # "glink" /\ (Up(t) => nd[n].status = UNLOCKED)
    BY DEF HInv, TopAt
  <1>19. TopAt(g)'
    <2>1. g \in Seq(NumaNodes) /\ TopAt(g) /\ lk'.tail[GLOBAL] = lk.tail[GLOBAL]
      BY LockApiAssumption DEF HInv, GLOBAL
    <2>2. \A k \in NumaNodes : nd'[k].next = nd[k].next /\ nd'[k].status = nd[k].status
      BY <1>12 DEF SameNode
    <2>3. ASSUME NEW k \in NumaNodes
          PROVE  (\E u \in Threads : Up(u)' /\ Home(u)' = k) <=> (\E u \in Threads : Up(u) /\ Home(u) = k)
      <3>1. ASSUME NEW u \in Threads, Up(u), Home(u) = k
            PROVE  \E v \in Threads : Up(v)' /\ Home(v)' = k
        <4>1. CASE u = t
          <5>1. Len(q) > 1 /\ m \in Threads \ {t}
            BY <1>7, <1>l, <3>1, <4>1
          <5> QED
            BY <1>8, <1>10, <1>11, <3>1, <4>1, <5>1
        <4>2. CASE u # t
          <5>1. u # m \/ Len(q) = 1
            BY <1>8, <1>l, <3>1
          <5> QED
            BY <1>10, <1>11, <3>1, <4>2, <5>1
        <4> QED
          BY <4>1, <4>2
      <3>2. ASSUME NEW u \in Threads, Up(u)', Home(u)' = k
            PROVE  \E v \in Threads : Up(v) /\ Home(v) = k
        <4>1. u # t
          BY <1>9, <3>2
        <4>2. CASE u = m /\ Len(q) > 1
          BY <1>8, <1>10, <1>11, <3>2, <4>1, <4>2
        <4>3. CASE u # m \/ Len(q) = 1
          BY <1>10, <1>11, <3>2, <4>1, <4>3
        <4> QED
          BY <1>l, <4>2, <4>3
      <3> QED
        BY <3>1, <3>2
    <2>4. ASSUME NEW u \in Threads
          PROVE  /\ Up(u)' /\ pc'[u] \notin {"glink", "gspin"} => nd'[Home(u)'].status = UNLOCKED
                 /\ pc'[u] = "glink" <=> pc[u] = "glink"
                 /\ pc[u] = "glink" => loc'[u] = loc[u] /\ Home(u)' = Home(u)
      <3>1. CASE u = t
        <4>1. pc'[t] # "glink"
          BY DEF QueuedPcs, GlobalPcs
        <4> QED
          BY <1>9, <1>18, <3>1, <4>1
      <3>2. CASE u # t
        <4>1. ASSUME Up(u)', pc'[u] \notin {"glink", "gspin"}
              PROVE  nd'[Home(u)'].status = UNLOCKED
          <5>1. Home(u)' = Home(u) /\ Home(u) \in NumaNodes /\ pc'[u] = pc[u]
            BY <1>10, <3>2 DEF HInv, Homes
          <5>2. CASE u = m /\ Len(q) > 1
            BY <1>8, <1>11, <1>18, <2>2, <3>2, <4>1, <5>1, <5>2
          <5>3. CASE u # m \/ Len(q) = 1
            BY <1>11, <2>1, <2>2, <3>2, <4>1, <5>1, <5>3 DEF TopAt
          <5> QED
            BY <1>l, <5>2, <5>3
        <4> QED
          BY <1>10, <3>2, <4>1
      <3> QED
        BY <3>1, <3>2
    <2> QED
      BY <2>1, <2>2, <2>3, <2>4, TopKept
  <1>20. ASSUME NEW u \in Threads
         PROVE  Home(u)' \in NumaNodes /\ (Up(u)' => nd'[u].status \in Nat \ {0})
    <2>1. CASE u = t
      BY <1>9, <2>1 DEF Home
    <2>2. CASE u # t
      <3>1. Home(u)' \in NumaNodes
        BY <1>10, <2>2 DEF HInv, Homes
      <3>2. CASE u = m /\ Len(q) > 1
        BY <1>7, <1>11, <2>2, <3>1, <3>2
      <3>3. CASE u # m \/ Len(q) = 1
        <4>1. Counts
          BY DEF HInv
        <4> QED
          BY <1>10, <1>11, <2>2, <3>1, <3>3, <4>1 DEF Counts
      <3> QED
        BY <1>l, <3>2, <3>3
    <2> QED
      BY <2>1, <2>2
  <1>21. Homes' /\ Counts'
    BY <1>20 DEF Homes, Counts
  <1>22. PICK R : R = [Q EXCEPT ![n] = Tail(@)]
    OBVIOUS
  <1>23. R \in [NumaNodes -> Seq(Threads)] /\ R[n] = r /\ \A k \in NumaNodes \ {n} : R[k] = Q[k]
    BY <1>1, <1>13, <1>15, <1>22 DEF HInv
  <1>24. \A k \in NumaNodes : LocalAt(R[k], k)'
    BY <1>16, <1>17, <1>23
  <1>25. HInv(R, g)'
    BY <1>19, <1>21, <1>23, <1>24 DEF HInv
  <1> QED
    BY <1>22, <1>25

\* Who is to link its node has the one before it.
LEMMA LinkingAt ==
  ASSUME NEW Q, NEW g, HInv(Q, g), NEW t \in Threads
  PROVE  /\ pc[t] = "link" => loc[t] \in Threads
         /\ pc[t] = "glink" => loc[t] \in NumaNodes
  <1>1. ASSUME pc[t] = "link"
        PROVE  loc[t] \in Threads
    <2>1. PICK n \in NumaNodes : n = Home(t)
      BY DEF HInv, Homes
    <2>2. PICK q \in Seq(Threads) : q = Q[n]
      BY DEF HInv
    <2>3. LocalAt(q, n) /\ Queued(t)
      BY <1>1, <2>2 DEF HInv, Queued, QueuedPcs
    <2>4. PICK i \in 1..Len(q) : q[i] = t
      BY <2>1, <2>3 DEF LocalAt, In
    <2>5. i # 1 /\ loc[t] = q[i - 1]
      BY <1>1, <2>3, <2>4 DEF LocalAt, ChainOf, Linking
    <2>6. i - 1 \in 1..Len(q)
      BY <2>4, <2>5
    <2> QED
      BY <2>5, <2>6
  <1>2. ASSUME pc[t] = "glink"
        PROVE  loc[t] \in NumaNodes
    <2>1. g \in Seq(NumaNodes)
      BY DEF HInv
    <2>2. PICK i \in 2..Len(g) : loc[t] = g[i - 1]
      BY <1>2 DEF HInv, TopAt
    <2>3. i - 1 \in 1..Len(g)
      BY <2>1, <2>2
    <2> QED
      BY <2>1, <2>2, <2>3
  <1> QED
    BY <1>1, <1>2
=============================================================================
