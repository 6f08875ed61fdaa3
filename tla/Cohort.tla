------------------------------- MODULE Cohort -------------------------------
(***************************************************************************)
(* The cohort locks: a local lock per NUMA node and a top lock, which its  *)
(* holder may pass on, with the local lock, to a thread on the same node.  *)
(* cbomcs.c has MCS under a backoff lock, ctkttkt.c tickets under a        *)
(* ticket lock, cptltkt.c tickets under a partitioned ticket lock.  A      *)
(* thread may run on another node at every call; loc[t] is the node it was *)
(* on, with its ticket or its predecessor in x.                            *)
(***************************************************************************)
EXTENDS Waiting

CONSTANTS
  BATCH_COUNT,  \* how often the top lock is passed on before it is released
  TicketMod,    \* where the unsigned tickets wrap around, in the code 2^32
  TicketCap     \* the last ticket of the partitioned top lock that is drawn

TAKEN == 255

Plus1(x) == (x + 1) % TicketMod

Tickets == [request |-> 0, grant |-> 0]

InitWith(top, local) ==
  /\ ApiInit
  /\ lk = [top |-> top, top_home |-> NULL,
           local |-> [n \in NumaNodes |-> [l |-> local, top_grant |-> 0, batch_count |-> 0]]]
  /\ nd = [t \in Threads |-> [next |-> NULL, spin |-> LOCKED]]
  /\ loc = [t \in Threads |-> NULL]

cbomcs_mutex_create == InitWith(UNLOCKED, NULL)

ctkt_mutex_create == InitWith(Tickets, Tickets)

cpt_mutex_create ==
  InitWith([request |-> 0, owner_ticket |-> 0, grants |-> [n \in NumaNodes |-> 0]], Tickets)

At(n, x) == [node |-> n, x |-> x]

SetLocal(n, field, v) == [lk EXCEPT !.local[n] = [@ EXCEPT ![field] = v]]

\* MUTANT: top_grant is not reset, and the next holder trusts it again.
CheckGrant_Stale(t, n, from, granted, top) ==
  LET given == lk.local[n].top_grant = 1
  IN  /\ Step(t, from, IF given THEN granted ELSE top)
      /\ loc' = [loc EXCEPT ![t] = IF given THEN NULL ELSE At(n, NULL)]
      /\ UNCHANGED <<lk, nd>>

\* The local lock of n is acquired: did the last holder leave the top lock with
\* it?  Only the local lock's holder touches top_grant.
CheckGrant(t, n, from, granted, top) ==
  LET given == lk.local[n].top_grant = 1
  IN  /\ Step(t, from, IF given THEN granted ELSE top)
      /\ lk' = SetLocal(n, "top_grant", 0)
      /\ loc' = [loc EXCEPT ![t] = IF given THEN NULL ELSE At(n, NULL)]
      /\ UNCHANGED nd

\* MUTANT: the passes are not counted, and a batch never ends.
CountBatch_NoLimit(t, waiters, pass, drop) ==
  /\ pc[t] = "unlock"
  /\ LET n == lk.top_home
     IN  /\ Step(t, "unlock", IF waiters THEN pass ELSE drop)
         /\ lk' = IF waiters THEN SetLocal(n, "top_grant", 1) ELSE lk
         /\ loc' = [loc EXCEPT ![t] = At(n, NULL)]
  /\ UNCHANGED nd

\* Cohort detection: pass the top lock on to a waiter on this node or drop it.
CountBatch(t, waiters, pass, drop) ==
  /\ pc[t] = "unlock"
  /\ LET n == lk.top_home
         keep == waiters /\ lk.local[n].batch_count > 0
     IN  /\ Step(t, "unlock", IF keep THEN pass ELSE drop)
         /\ lk' = [lk EXCEPT !.local[n] =
                     IF keep THEN [@ EXCEPT !.batch_count = @ - 1, !.top_grant = 1]
                     ELSE IF waiters THEN [@ EXCEPT !.batch_count = BATCH_COUNT] ELSE @]
         /\ loc' = [loc EXCEPT ![t] = At(n, NULL)]
  /\ UNCHANGED nd

\* The top lock is t's.
TopHeld(t, top) ==
  /\ lk' = [lk EXCEPT !.top = top, !.top_home = loc[t].node]
  /\ loc' = [loc EXCEPT ![t] = NULL]
  /\ UNCHANGED nd

-----------------------------------------------------------------------------
(* cbomcs.c: __mcs_mutex_lock, trylock and unlock on a local lock, the last  *)
(* with the labels of the place it is called from.                           *)

McsEnqueue(t, n) ==
  /\ Step(t, "lock", IF lk.local[n].l = NULL THEN "got" ELSE "link")
  /\ nd' = [nd EXCEPT ![t] = [next |-> NULL, spin |-> LOCKED]]
  /\ lk' = SetLocal(n, "l", t)
  /\ loc' = [loc EXCEPT ![t] = At(n, lk.local[n].l)]

McsLink(t) ==
  /\ pc[t] = "link"
  /\ Step(t, "link", "sleep")
  /\ nd' = [nd EXCEPT ![loc[t].x].next = t]
  /\ loc' = [loc EXCEPT ![t].x = NULL]
  /\ UNCHANGED lk

McsTryEnqueue(t, n) ==
  /\ Step(t, "idle", IF lk.local[n].l = NULL THEN "trygot" ELSE "idle")
  /\ nd' = [nd EXCEPT ![t] = [next |-> NULL, spin |-> LOCKED]]
  /\ lk' = SetLocal(n, "l", IF lk.local[n].l = NULL THEN t ELSE lk.local[n].l)
  /\ loc' = [loc EXCEPT ![t] = IF lk.local[n].l = NULL THEN At(n, NULL) ELSE @]

McsCasTail(t, L, to) ==
  /\ pc[t] = L.cas
  /\ LET n == loc[t].node
         alone == lk.local[n].l = t
     IN  /\ Step(t, L.cas, IF alone THEN to ELSE L.wake)
         /\ lk' = SetLocal(n, "l", IF alone THEN NULL ELSE lk.local[n].l)
         /\ loc' = [loc EXCEPT ![t] = IF alone THEN NULL ELSE @]
  /\ UNCHANGED nd

McsUnlock(t, L, to) ==
  \/ Read(t, L.check, IF nd[t].next = NULL THEN L.cas ELSE L.wake)
  \/ McsCasTail(t, L, to)
  \/ nd[t].next # NULL /\ WakeStore(t, nd[t].next, L.wake, L.call, to)
  \/ FutexWake(t, Own, L.call, to)

Pass == [check |-> "passcheck", cas |-> "passcas", wake |-> "pass", call |-> "futexwake"]
Drop == [check |-> "dropcheck", cas |-> "dropcas", wake |-> "drop", call |-> "dropcall"]
Fail == [check |-> "trycheck", cas |-> "trycas", wake |-> "trydrop", call |-> "trycall"]

ReadTop(t) == lk.top = UNLOCKED /\ Read(t, "top", "toptas")

\* The test-and-set of the top lock, after a read or in trylock.
TasTop(t, from, granted, busy) ==
  /\ Step(t, from, IF lk.top = UNLOCKED THEN granted ELSE busy)
  /\ IF lk.top = UNLOCKED THEN TopHeld(t, TAKEN) ELSE UNCHANGED mem

cbomcs_mutex_lock(t) ==
  \/ (\E n \in current_numa_node(t) : McsEnqueue(t, n)) \/ McsLink(t) \/ waiting_policy_sleep(t, t, "got")
  \/ (pc[t] = "got" /\ CheckGrant(t, loc[t].node, "got", "posix", "top"))
  \/ ReadTop(t) \/ TasTop(t, "toptas", "posix", "top")
  \/ PosixLock(t)

cbomcs_mutex_trylock(t) ==
  \/ (\E n \in current_numa_node(t) : McsTryEnqueue(t, n))
  \/ (pc[t] = "trygot" /\ CheckGrant(t, loc[t].node, "trygot", "tryposix", "trytop"))
  \/ TasTop(t, "trytop", "tryposix", "trycheck") \/ McsUnlock(t, Fail, "idle") \/ PosixTryLock(t)

TopUnlock(t) ==
  /\ Step(t, "topunlock", After(t))
  /\ lk' = [lk EXCEPT !.top = UNLOCKED]
  /\ UNCHANGED <<nd, loc>>

\* The local lock is released before the top lock.
cbomcs_mutex_unlock(t) ==
  \/ PosixUnlock(t)
  \/ pc[t] = "unlock" /\ CountBatch(t, lk.local[lk.top_home].l # t, "passcheck", "dropcheck")
  \/ McsUnlock(t, Pass, After(t)) \/ McsUnlock(t, Drop, "topunlock") \/ TopUnlock(t)

cbomcs_cond_timedwait(t) == CondTimedwait(t)

cbomcs(t) ==
  \/ CallLock(t) \/ cbomcs_mutex_lock(t) \/ cbomcs_mutex_trylock(t) \/ cbomcs_mutex_unlock(t)
  \/ cbomcs_cond_timedwait(t)

-----------------------------------------------------------------------------
(* The local ticket lock of ctkttkt.c and cptltkt.c.                         *)

LocalTicket(t, n) ==
  /\ Step(t, "lock", "spin")
  /\ lk' = [lk EXCEPT !.local[n].l.request = Plus1(@)]
  /\ loc' = [loc EXCEPT ![t] = At(n, lk.local[n].l.request)]
  /\ UNCHANGED nd

LocalGranted(t) ==
  /\ pc[t] = "spin" /\ lk.local[loc[t].node].l.grant = loc[t].x
  /\ CheckGrant(t, loc[t].node, "spin", "posix", "top")

\* A compare-and-swap of both counters, which succeeds only if they are equal,
\* and the look at top_grant after it.
TryLocal(t, n) ==
  LET given == lk.local[n].top_grant = 1
  IN  /\ lk.local[n].l.request = lk.local[n].l.grant
      /\ Step(t, "idle", IF given THEN "tryposix" ELSE "trytop")
      /\ lk' = [lk EXCEPT !.local[n].l.request = Plus1(@), !.local[n].top_grant = 0]
      /\ loc' = [loc EXCEPT ![t] = IF given THEN NULL ELSE At(n, NULL)]
      /\ UNCHANGED nd

LocalGrant(t, from, to) ==
  /\ pc[t] = from
  /\ Step(t, from, to)
  /\ lk' = [lk EXCEPT !.local[loc[t].node].l.grant = Plus1(@)]
  /\ loc' = [loc EXCEPT ![t] = NULL]
  /\ UNCHANGED nd

LocalLock(t) == (\E n \in current_numa_node(t) : LocalTicket(t, n)) \/ LocalGranted(t)

\* After topunlock the top lock is granted, and only then the local one.
CohortUnlock(t) ==
  \/ PosixUnlock(t)
  \/ /\ pc[t] = "unlock"
     /\ LET l == lk.local[lk.top_home].l
        IN  CountBatch(t, l.request # Plus1(l.grant), "pass", "topunlock")
  \/ LocalGrant(t, "pass", After(t)) \/ LocalGrant(t, "localgrant", After(t))

TopTicket(t, request, from, to) ==
  /\ pc[t] = from
  /\ Step(t, from, to)
  /\ lk' = [lk EXCEPT !.top.request = request]
  /\ loc' = [loc EXCEPT ![t].x = lk.top.request]
  /\ UNCHANGED nd

CtktTopGranted(t) ==
  /\ pc[t] = "topspin" /\ lk.top.grant = loc[t].x
  /\ Step(t, "topspin", "posix") /\ TopHeld(t, lk.top)

ctkt_mutex_lock(t) ==
  LocalLock(t) \/ TopTicket(t, Plus1(lk.top.request), "top", "topspin") \/ CtktTopGranted(t)
  \/ PosixLock(t)

CtktTryTop(t) ==
  LET free == lk.top.request = lk.top.grant
  IN  /\ Step(t, "trytop", IF free THEN "tryposix" ELSE "tryundo")
      /\ IF free THEN TopHeld(t, [lk.top EXCEPT !.request = Plus1(@)]) ELSE UNCHANGED mem

ctkt_mutex_trylock(t) ==
  \/ (\E n \in current_numa_node(t) : TryLocal(t, n))
  \/ CtktTryTop(t) \/ LocalGrant(t, "tryundo", "idle") \/ PosixTryLock(t)

CtktReleaseTop(t) ==
  /\ Step(t, "topunlock", "localgrant")
  /\ lk' = [lk EXCEPT !.top.grant = Plus1(@)]
  /\ UNCHANGED <<nd, loc>>

ctkt_mutex_unlock(t) == CohortUnlock(t) \/ CtktReleaseTop(t)
ctkt_cond_timedwait(t) == CondTimedwait(t)

ctkttkt(t) ==
  \/ CallLock(t) \/ ctkt_mutex_lock(t) \/ ctkt_mutex_trylock(t) \/ ctkt_mutex_unlock(t)
  \/ ctkt_cond_timedwait(t)

-----------------------------------------------------------------------------
(* cptltkt.c.  The top tickets are int and do not wrap around: like those of *)
(* partitioned.c they must stay below 2^31, and calls end at TicketCap.      *)

Room == lk.top.request + Cardinality(Threads) <= TicketCap

Slot(x) == x % Cardinality(NumaNodes)   \* PTL_SLOTS is NUMA_NODES

CptTopGranted(t, from, to) ==
  /\ pc[t] = from /\ lk.top.grants[Slot(loc[t].x)] = loc[t].x
  /\ Step(t, from, to)
  /\ TopHeld(t, [lk.top EXCEPT !.owner_ticket = loc[t].x])

cpt_mutex_lock(t) ==
  LocalLock(t) \/ TopTicket(t, lk.top.request + 1, "top", "topspin")
  \/ CptTopGranted(t, "topspin", "posix") \/ PosixLock(t)

\* request is read twice, for the slot and for the ticket to compare with it.  If
\* they match, a ticket is drawn, and if somebody was faster, waited for.
CptTryRead(t) ==
  /\ pc[t] = "trytop"
  /\ Step(t, "trytop", "trytop2")
  /\ loc' = [loc EXCEPT ![t].x = lk.top.request]
  /\ UNCHANGED <<lk, nd>>

CptTryTop(t) ==
  /\ pc[t] = "trytop2"
  /\ Read(t, "trytop2",
          IF lk.top.grants[Slot(loc[t].x)] = lk.top.request THEN "trytake" ELSE "tryundo")

cpt_mutex_trylock(t) ==
  \/ (\E n \in current_numa_node(t) : Room /\ TryLocal(t, n))
  \/ CptTryRead(t) \/ CptTryTop(t)
  \/ TopTicket(t, lk.top.request + 1, "trytake", "trywait") \/ CptTopGranted(t, "trywait", "tryposix")
  \/ LocalGrant(t, "tryundo", "idle") \/ PosixTryLock(t)

CptReleaseTop(t) ==
  /\ Step(t, "topunlock", "localgrant")
  /\ LET new == lk.top.owner_ticket + 1 IN lk' = [lk EXCEPT !.top.grants[Slot(new)] = new]
  /\ UNCHANGED <<nd, loc>>

cpt_mutex_unlock(t) == CohortUnlock(t) \/ CptReleaseTop(t)
cpt_cond_timedwait(t) == (pc[t] = "cs" => Room) /\ CondTimedwait(t)

cptltkt(t) ==
  \/ (Room /\ CallLock(t)) \/ cpt_mutex_lock(t) \/ cpt_mutex_trylock(t) \/ cpt_mutex_unlock(t)
  \/ cpt_cond_timedwait(t)
=============================================================================
