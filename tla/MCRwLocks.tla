------------------------------ MODULE MCRwLocks ------------------------------
(* Instances of RwLocks: threads named by model values.                     *)
EXTENDS RwLocks

CONSTANTS a, b, c
=============================================================================
