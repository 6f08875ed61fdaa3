------------------------------- MODULE HtLock -------------------------------
(***************************************************************************)
(* htlockepfl.c: local tickets that count down under a global ticket lock. *)
(* A thread that draws local ticket -1 fetches the global lock, with       *)
(* NB_TICKETS_LOCAL tickets for the threads behind it; lower tickets are   *)
(* drawn again, and not told apart here.  trylock is not supported (it     *)
(* asserts).  nd[t] is last_numa_node, which the context keeps for unlock. *)
(***************************************************************************)
EXTENDS LockApi

CONSTANTS NB_TICKETS_LOCAL, TicketMod

Plus1(x) == (x + 1) % TicketMod

htlockepfl_mutex_create ==
  lk = [global |-> [request |-> 0, grant |-> 0],
        local |-> [n \in NumaNodes |-> [request |-> 0, grant |-> NB_TICKETS_LOCAL]]]

Init ==
  /\ ApiInit /\ htlockepfl_mutex_create
  /\ nd = [t \in Threads |-> 0]
  /\ loc = [t \in Threads |-> NULL]

Local(t) == lk.local[nd[t]]

LocalTicket(t, n) ==
  LET ticket == lk.local[n].request - 1
  IN  /\ Step(t, "lock", IF ticket >= 0 THEN "spin" ELSE IF ticket = -1 THEN "fetch" ELSE "again")
      /\ lk' = [lk EXCEPT !.local[n].request = IF @ < -1 THEN @ ELSE ticket]
      /\ nd' = [nd EXCEPT ![t] = n]
      /\ loc' = [loc EXCEPT ![t] = IF ticket >= 0 THEN ticket ELSE NULL]

\* goto again_local, on the same node.
AgainLocal(t) ==
  /\ pc[t] = "again" /\ Local(t).request > -1
  /\ LET ticket == Local(t).request - 1
     IN  /\ Step(t, "again", IF ticket >= 0 THEN "spin" ELSE "fetch")
         /\ lk' = [lk EXCEPT !.local[nd[t]].request = ticket]
         /\ loc' = [loc EXCEPT ![t] = IF ticket >= 0 THEN ticket ELSE NULL]
  /\ UNCHANGED nd

wait_local_ticket(t) ==
  /\ Local(t).grant = loc[t]
  /\ Step(t, "spin", "posix")
  /\ loc' = [loc EXCEPT ![t] = NULL]
  /\ UNCHANGED <<lk, nd>>

\* All local tickets are used up: new ones, for those that draw meanwhile.
NewTickets(t) ==
  /\ Local(t).grant = NB_TICKETS_LOCAL
  /\ Step(t, "fetch", "top")
  /\ lk' = [lk EXCEPT !.local[nd[t]].request = NB_TICKETS_LOCAL]
  /\ UNCHANGED <<nd, loc>>

GlobalTicket(t) ==
  /\ Step(t, "top", "topspin")
  /\ lk' = [lk EXCEPT !.global.request = Plus1(@)]
  /\ loc' = [loc EXCEPT ![t] = lk.global.request]
  /\ UNCHANGED nd

wait_global_ticket(t) ==
  /\ lk.global.grant = loc[t]
  /\ Step(t, "topspin", "posix")
  /\ loc' = [loc EXCEPT ![t] = NULL]
  /\ UNCHANGED <<lk, nd>>

htlockepfl_mutex_lock(t) ==
  \/ (\E n \in current_numa_node(t) : LocalTicket(t, n)) \/ AgainLocal(t) \/ wait_local_ticket(t)
  \/ NewTickets(t) \/ GlobalTicket(t) \/ wait_global_ticket(t) \/ PosixLock(t)

\* If no ticket was drawn since the one that is granted, the next is to be -1.
CasRequest(t) ==
  /\ pc[t] = "unlock"
  /\ LET l == Local(t)
     IN  /\ Step(t, "unlock", IF l.grant \in {0, l.request} THEN "refill" ELSE "pass")
         /\ lk' = [lk EXCEPT !.local[nd[t]].request = IF @ = l.grant THEN 0 ELSE @]
  /\ UNCHANGED <<nd, loc>>

\* The global lock is released after a thread of this node may fetch it again.
Refill(t) ==
  /\ Step(t, "refill", "topunlock")
  /\ lk' = [lk EXCEPT !.local[nd[t]].grant = NB_TICKETS_LOCAL]
  /\ UNCHANGED <<nd, loc>>

GlobalGrant(t) ==
  /\ Step(t, "topunlock", After(t))
  /\ lk' = [lk EXCEPT !.global.grant = Plus1(@)]
  /\ UNCHANGED <<nd, loc>>

LocalGrant(t) ==
  /\ Step(t, "pass", After(t))
  /\ lk' = [lk EXCEPT !.local[nd[t]].grant = @ - 1]
  /\ UNCHANGED <<nd, loc>>

htlockepfl_mutex_unlock(t) ==
  PosixUnlock(t) \/ CasRequest(t) \/ Refill(t) \/ GlobalGrant(t) \/ LocalGrant(t)

htlockepfl_cond_timedwait(t) == CondTimedwait(t)

htlockepfl(t) ==
  \/ CallLock(t) \/ htlockepfl_mutex_lock(t) \/ htlockepfl_mutex_unlock(t)
  \/ htlockepfl_cond_timedwait(t)
=============================================================================
