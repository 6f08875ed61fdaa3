------------------------------ MODULE NodeList ------------------------------
(***************************************************************************)
(* The waiting queue as the list that the next fields of its nodes make,   *)
(* seen through the stores its threads are in the middle of: used to state *)
(* properties of Aqs and Aqm.                                              *)
(***************************************************************************)
EXTENDS Naturals

\* next once the pending stores p.at->next = p.to are made, extended to D by
\* the identity.
WithStores(next, P, D) ==
  [u \in D |->
     IF \E p \in P : p.at = u THEN (CHOOSE p \in P : p.at = u).to
     ELSE IF u \in DOMAIN next THEN next[u] ELSE u]

\* The n nodes that succ strings together from front on.
ListFrom(succ, front, n) ==
  LET q[i \in 1..n] == IF i = 1 THEN front ELSE succ[q[i - 1]]
  IN  [i \in 1..n |-> q[i]]

\* The nodes of q behind t, and t itself.
FromOn(q, t) == {q[j] : j \in {k \in DOMAIN q : \E i \in 1..k : q[i] = t}}
=============================================================================
