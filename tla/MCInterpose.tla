----------------------------- MODULE MCInterpose -----------------------------
(* Instances of Interpose: threads and addresses named by model values.     *)
EXTENDS Interpose

CONSTANTS a, b, m, r
=============================================================================
