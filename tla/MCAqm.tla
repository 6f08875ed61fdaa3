-------------------------------- MODULE MCAqm --------------------------------
(* Instances of Aqm: threads named by model values, their sockets below.    *)
EXTENDS Aqm, TLC

CONSTANTS a, b, c, d, s0, s1

\* Four threads on two sockets, enqueued in any order: with two waiters of a
\* socket kept apart by one of the other the shuffle leader moves nodes.
TwoAndTwo == (a :> {s0}) @@ (b :> {s1}) @@ (c :> {s0}) @@ (d :> {s1})
TwoAndTwoSymmetry == Permutations({a, c}) \cup Permutations({b, d})

\* Threads that may run on a different socket at each call.
Migrating == [t \in Threads |-> Sockets]
=============================================================================
