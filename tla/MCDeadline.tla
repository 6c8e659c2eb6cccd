----------------------------- MODULE MCDeadline -----------------------------
(* An evaluation that lends a lambda and a composition of functions, and   *)
(* one that calls them, each under a timeout and a context of its own.     *)
EXTENDS Deadline

MCTimeouts == [g \in Evals |-> 1]
=============================================================================
