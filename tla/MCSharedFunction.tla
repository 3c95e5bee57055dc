-------------------------- MODULE MCSharedFunction --------------------------
(* SharedFunction on a small instance. *)
EXTENDS SharedFunction
=============================================================================
