---------------------------- MODULE MCEnvironment ----------------------------
(* The input and a caller's variable $x, which spill the evaluation's own   *)
(* scope; the builtin $y; and up to three scopes below.                     *)
EXTENDS Environment
=============================================================================
