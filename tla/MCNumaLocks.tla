----------------------------- MODULE MCNumaLocks -----------------------------
(* Instances of NumaLocks: threads named by model values.                   *)
EXTENDS NumaLocks

CONSTANTS a, b, c
=============================================================================
