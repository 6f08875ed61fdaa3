------------------------------- MODULE RwLock -------------------------------
(***************************************************************************)
(* What a reader-writer lock promises: readers share it, a writer has it   *)
(* alone.  A successful trylock gets it without having waited.             *)
(***************************************************************************)
CONSTANT Threads

VARIABLE state   \* of each thread: not concerned, waiting, or having the lock

Init == state = [t \in Threads |-> "idle"]

Call(t) ==
  /\ state[t] = "idle"
  /\ \E m \in {"rdlock", "wrlock"} : state' = [state EXCEPT ![t] = m]

GetRead(t) ==
  /\ state[t] \in {"idle", "rdlock"}
  /\ \A u \in Threads : state[u] # "wr"
  /\ state' = [state EXCEPT ![t] = "rd"]

GetWrite(t) ==
  /\ state[t] \in {"idle", "wrlock"}
  /\ \A u \in Threads : state[u] \notin {"rd", "wr"}
  /\ state' = [state EXCEPT ![t] = "wr"]

Unlock(t) ==
  /\ state[t] \in {"rd", "wr"}
  /\ state' = [state EXCEPT ![t] = "idle"]

\* A writer goes on as a reader.
Downgrade(t) ==
  /\ state[t] = "wr"
  /\ state' = [state EXCEPT ![t] = "rd"]

Next == \E t \in Threads : Call(t) \/ GetRead(t) \/ GetWrite(t) \/ Unlock(t) \/ Downgrade(t)

Spec == Init /\ [][Next]_state
=============================================================================
