----------------------------- MODULE Partitioned -----------------------------
(***************************************************************************)
(* partitioned.c: a ticket lock whose waiters spin on grants[t % Slots].   *)
(* Tickets are unsigned, modulo 2 * SignBit, but unlock keeps the next one *)
(* in an int: from SignBit (2^31 in the code) on it is negative, and so    *)
(* may be its remainder, the index of grants.  With two slots (NUMA nodes) *)
(* grants[-1] is the line of the struct that starts with request.          *)
(* TicketCap bounds the tickets handed out; calls that would need more are *)
(* not made.                                                               *)
(***************************************************************************)
EXTENDS LockApi

CONSTANTS SignBit, TicketCap

PTL_SLOTS == 2

Unsigned(x) == x % (2 * SignBit)

Signed(x) == IF x < SignBit THEN x ELSE x - 2 * SignBit

\* C's remainder has the sign of the dividend.
Rem(x, n) == IF x >= 0 THEN x % n ELSE -((-x) % n)

partitioned_mutex_create ==
  lk = [request |-> 0, owner_ticket |-> 0, grants |-> [i \in 0 .. PTL_SLOTS - 1 |-> 0]]

Init ==
  /\ ApiInit /\ partitioned_mutex_create
  /\ nd = [t \in Threads |-> NULL]
  /\ loc = [t \in Threads |-> NULL]

\* The calls in progress that still take a ticket leave room for one more.
Room ==
  lk.request
    + Cardinality({u \in Threads : pc[u] \in {"lock", "try", "trylock"} \/ u \in inWait})
    < TicketCap

TakeTicket(t, from, to) ==
  /\ Step(t, from, to)
  /\ lk' = [lk EXCEPT !.request = Unsigned(@ + 1)]
  /\ loc' = [loc EXCEPT ![t] = lk.request]
  /\ UNCHANGED nd

\* owner_ticket is written with the lock held.
AwaitGrant(t, from, to) ==
  /\ pc[t] = from /\ lk.grants[loc[t] % PTL_SLOTS] = loc[t]
  /\ Step(t, from, to)
  /\ lk' = [lk EXCEPT !.owner_ticket = loc[t]]
  /\ loc' = [loc EXCEPT ![t] = NULL]
  /\ UNCHANGED nd

partitioned_mutex_lock(t) ==
  TakeTicket(t, "lock", "spin") \/ AwaitGrant(t, "spin", "posix") \/ PosixLock(t)

\* trylock reads request twice, for the slot and for the ticket to compare with
\* its grant; if they match it takes a ticket and waits, perhaps for others.
TryRead(t) ==
  /\ Room
  /\ Step(t, "idle", "try")
  /\ loc' = [loc EXCEPT ![t] = lk.request]
  /\ UNCHANGED <<lk, nd>>

TryCompare(t) ==
  LET open == lk.grants[loc[t] % PTL_SLOTS] = lk.request
  IN  /\ pc[t] = "try"
      /\ Step(t, "try", IF open THEN "trylock" ELSE "idle")
      /\ loc' = [loc EXCEPT ![t] = NULL]
      /\ UNCHANGED <<lk, nd>>

partitioned_mutex_trylock(t) ==
  \/ TryRead(t) \/ TryCompare(t) \/ TakeTicket(t, "trylock", "trywait")
  \/ AwaitGrant(t, "trywait", "tryposix") \/ PosixTryLock(t)

\* The store to grants[i], wherever that is in the struct.
StoreGrant(l, i, v) ==
  IF i >= 0 THEN [l EXCEPT !.grants[i] = v] ELSE [l EXCEPT !.request = v]

GrantNext(t) ==
  LET new_owner_ticket == Signed(Unsigned(lk.owner_ticket + 1))
  IN  /\ Step(t, "unlock", After(t))
      /\ lk' = StoreGrant(lk, Rem(new_owner_ticket, PTL_SLOTS), Unsigned(new_owner_ticket))
      /\ UNCHANGED <<nd, loc>>

partitioned_mutex_unlock(t) == PosixUnlock(t) \/ GrantNext(t)

partitioned_cond_timedwait(t) ==
  \/ Room /\ CallWait(t)
  \/ RealWait(t) \/ RealWake(t) \/ RealReturn(t) \/ WaitPosixUnlock(t)

partitioned(t) ==
  \/ Room /\ CallLock(t)
  \/ partitioned_mutex_lock(t) \/ partitioned_mutex_trylock(t)
  \/ partitioned_mutex_unlock(t) \/ partitioned_cond_timedwait(t)
=============================================================================
