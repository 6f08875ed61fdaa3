----------------------------- MODULE TicketLocks -----------------------------
(***************************************************************************)
(* ticket.c and ticketepfl.c, whose first ticket and first grant are 1.    *)
(* Both counters are unsigned and wrap around, here modulo TicketMod (in   *)
(* the code 2^32).  How long a waiter pauses between two reads, and how    *)
(* long ticket.c bans a thread that held the lock for long                 *)
(* (BLOCKING_FAIRNESS) before it takes a ticket, is left open.             *)
(***************************************************************************)
EXTENDS LockApi

CONSTANT TicketMod

Plus1(x) == (x + 1) % TicketMod

ticket_mutex_create == lk = [request |-> 0, grant |-> 0]

ticketepfl_mutex_create == lk = [request |-> 0, grant |-> 1]

InitWith(create) ==
  /\ ApiInit /\ create
  /\ nd = [t \in Threads |-> NULL]
  /\ loc = [t \in Threads |-> NULL]

Init == InitWith(ticket_mutex_create)

InitEpfl == InitWith(ticketepfl_mutex_create)

TakeTicket(t, ticket) ==
  /\ Step(t, "lock", "spin")
  /\ lk' = [lk EXCEPT !.request = Plus1(@)]
  /\ loc' = [loc EXCEPT ![t] = ticket]
  /\ UNCHANGED nd

\* MUTANT: a ticket that has been passed is taken for granted.
AwaitGrant_AtLeast(t) ==
  /\ pc[t] = "spin" /\ lk.grant >= loc[t]
  /\ Step(t, "spin", "posix")
  /\ loc' = [loc EXCEPT ![t] = NULL]
  /\ UNCHANGED <<lk, nd>>

AwaitGrant(t) ==
  /\ lk.grant = loc[t]
  /\ Step(t, "spin", "posix")
  /\ loc' = [loc EXCEPT ![t] = NULL]
  /\ UNCHANGED <<lk, nd>>

\* trylock reads request, ...
TryRead(t) ==
  /\ Step(t, "idle", "try")
  /\ loc' = [loc EXCEPT ![t] = lk.request]
  /\ UNCHANGED <<lk, nd>>

\* MUTANT: only the half with request is compared.
TryCas_RequestOnly(t, grant) ==
  LET free == lk.request = loc[t]
  IN  /\ Step(t, "try", IF free THEN "tryposix" ELSE "idle")
      /\ lk' = IF free THEN [lk EXCEPT !.request = Plus1(@)] ELSE lk
      /\ loc' = [loc EXCEPT ![t] = NULL]
      /\ UNCHANGED nd

\* ... and takes the ticket if both counters are still those of a free lock.
TryCas(t, grant) ==
  LET free == lk = [request |-> loc[t], grant |-> grant]
  IN  /\ Step(t, "try", IF free THEN "tryposix" ELSE "idle")
      /\ lk' = IF free THEN [lk EXCEPT !.request = Plus1(@)] ELSE lk
      /\ loc' = [loc EXCEPT ![t] = NULL]
      /\ UNCHANGED nd

Grant(t) ==
  /\ Step(t, "unlock", After(t))
  /\ lk' = [lk EXCEPT !.grant = Plus1(@)]
  /\ UNCHANGED <<nd, loc>>

-----------------------------------------------------------------------------
ticket_mutex_lock(t) == TakeTicket(t, lk.request) \/ AwaitGrant(t) \/ PosixLock(t)
ticket_mutex_trylock(t) == TryRead(t) \/ TryCas(t, loc[t]) \/ PosixTryLock(t)
ticket_mutex_unlock(t) == PosixUnlock(t) \/ Grant(t)
ticket_cond_timedwait(t) == CondTimedwait(t)

ticket(t) ==
  \/ CallLock(t) \/ ticket_mutex_lock(t) \/ ticket_mutex_trylock(t)
  \/ ticket_mutex_unlock(t) \/ ticket_cond_timedwait(t)

-----------------------------------------------------------------------------
ticketepfl_mutex_lock(t) ==
  TakeTicket(t, Plus1(lk.request)) \/ AwaitGrant(t) \/ PosixLock(t)
ticketepfl_mutex_trylock(t) ==
  TryRead(t) \/ (pc[t] = "try" /\ TryCas(t, Plus1(loc[t]))) \/ PosixTryLock(t)
ticketepfl_mutex_unlock(t) == PosixUnlock(t) \/ Grant(t)
ticketepfl_cond_timedwait(t) == CondTimedwait(t)

ticketepfl(t) ==
  \/ CallLock(t) \/ ticketepfl_mutex_lock(t) \/ ticketepfl_mutex_trylock(t)
  \/ ticketepfl_mutex_unlock(t) \/ ticketepfl_cond_timedwait(t)
=============================================================================
