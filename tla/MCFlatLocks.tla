----------------------------- MODULE MCFlatLocks -----------------------------
(* Instances of FlatLocks: threads named by model values.                   *)
EXTENDS FlatLocks

CONSTANTS a, b, c
=============================================================================
