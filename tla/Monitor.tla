------------------------------- MODULE Monitor -------------------------------
(***************************************************************************)
(* What an application expects of a mutex and a condition variable, the    *)
(* interface that interpose.c takes over from libpthread: cond_wait        *)
(* releases the mutex and starts waiting in one step, and returns with the *)
(* mutex held.  Waits may end spuriously or by a timeout.                  *)
(***************************************************************************)
CONSTANTS Threads, NULL

VARIABLES
  owner,     \* the thread that holds the mutex, or NULL
  waiting,   \* the threads in cond_wait that nothing has woken yet
  woken      \* the threads in cond_wait that have been

vars == <<owner, waiting, woken>>

Init ==
  /\ owner = NULL
  /\ waiting = {}
  /\ woken = {}

Lock(t) ==
  /\ owner = NULL /\ t \notin waiting \cup woken
  /\ owner' = t
  /\ UNCHANGED <<waiting, woken>>

Unlock(t) ==
  /\ owner = t
  /\ owner' = NULL
  /\ UNCHANGED <<waiting, woken>>

Wait(t) ==
  /\ owner = t
  /\ owner' = NULL
  /\ waiting' = waiting \cup {t}
  /\ UNCHANGED woken

\* A signal, a timeout or nothing in particular wakes one waiter; a broadcast
\* wakes them all.
Wake(W) ==
  /\ W # {} /\ W \subseteq waiting
  /\ waiting' = waiting \ W
  /\ woken' = woken \cup W
  /\ UNCHANGED owner

Resume(t) ==
  /\ owner = NULL /\ t \in woken
  /\ owner' = t
  /\ woken' = woken \ {t}
  /\ UNCHANGED waiting

Next ==
  \/ \E t \in Threads : Lock(t) \/ Unlock(t) \/ Wait(t) \/ Resume(t) \/ Wake({t})
  \/ Wake(waiting)

Spec == Init /\ [][Next]_vars
=============================================================================
