------------------------------- MODULE Waiting -------------------------------
(***************************************************************************)
(* waiting_policy.h: how a thread waits for a word to become UNLOCKED, the *)
(* field spin of a node.  Policy "spin" is WAITING_SPINLOCK; "park" is     *)
(* WAITING_SPIN_THEN_PARK, whose spinning may end at any iteration, and so *)
(* also WAITING_PARK.  The futex is the kernel's: it goes to sleep only if *)
(* the word is still LOCKED, and one sleeper is woken at a time.           *)
(***************************************************************************)
EXTENDS LockApi

CONSTANT Policy

Spinning(t, v, to) == nd[v].spin = UNLOCKED /\ Read(t, "sleep", to)

FutexWait(t, v) == Policy = "park" /\ nd[v].spin = LOCKED /\ Read(t, "sleep", "asleep")

\* EINTR: the wait is tried again, and finds the word changed (EAGAIN) or not.
Interrupt(t) == Read(t, "asleep", "sleep")

\* Woken, the thread spins until it reads UNLOCKED.
Respin(t, v, to) == nd[v].spin = UNLOCKED /\ Read(t, "respin", to)

waiting_policy_sleep(t, v, to) ==
  Spinning(t, v, to) \/ FutexWait(t, v) \/ Interrupt(t) \/ Respin(t, v, to)

\* The store to the word, after which its waiter may go; loc[t] keeps the
\* address for the system call, which comes later.
WakeStore(t, v, from, call, to) ==
  /\ Step(t, from, IF Policy = "park" THEN call ELSE to)
  /\ nd' = [nd EXCEPT ![v].spin = UNLOCKED]
  /\ loc' = [loc EXCEPT ![t] = IF Policy = "park" THEN v ELSE NULL]
  /\ UNCHANGED lk

\* MUTANT: the system call is left out.
FutexWake_Lost(t, word, call, to) ==
  /\ Step(t, call, to)
  /\ loc' = [loc EXCEPT ![t] = NULL]
  /\ UNCHANGED <<lk, nd>>

\* Most threads sleep on their own nodes.
Own == [u \in Threads |-> u]

\* FUTEX_WAKE: one of the threads that sleep on the node, if there is one; word[u]
\* is the node that u sleeps on.
FutexWake(t, word, call, to) ==
  /\ pc[t] = call
  /\ LET sleepers == {u \in Threads : pc[u] = "asleep" /\ word[u] = loc[t]}
     IN  \/ \E u \in sleepers : pc' = [pc EXCEPT ![t] = to, ![u] = "respin"]
         \/ sleepers = {} /\ pc' = [pc EXCEPT ![t] = to]
  /\ loc' = [loc EXCEPT ![t] = NULL]
  /\ UNCHANGED <<lk, nd, posix_lock, inWait>>

waiting_policy_wake(t, v, word, from, call, to) ==
  WakeStore(t, v, from, call, to) \/ FutexWake(t, word, call, to)
=============================================================================
