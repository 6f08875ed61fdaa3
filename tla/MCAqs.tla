-------------------------------- MODULE MCAqs --------------------------------
(* Instances of Aqs: threads named by model values, their sockets below.    *)
EXTENDS Aqs, TLC

CONSTANTS a, b, c, d, s0, s1

\* Four threads, three of them on one socket, enqueued in any order: when the
\* fourth keeps two of the others apart the shuffle leader moves nodes, and three
\* make a batch with a member that is neither first nor the appointed leader.
ThreeAndOne == (a :> {s0}) @@ (b :> {s1}) @@ (c :> {s0}) @@ (d :> {s0})
ThreeAndOneSymmetry == Permutations({a, c, d})

\* Threads that may run on a different socket at each call.
Migrating == [t \in Threads |-> Sockets]
=============================================================================
