------------------------------ MODULE MCCondVar ------------------------------
(* Instances of CondVar: threads named by model values.                     *)
EXTENDS CondVar

CONSTANTS a, b, c, d
=============================================================================
