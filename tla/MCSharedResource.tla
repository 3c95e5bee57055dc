-------------------------- MODULE MCSharedResource --------------------------
(* Workers for TLC: model values, interchangeable in the runs that check    *)
(* only safety and treat all workers alike.                                 *)
EXTENDS SharedResource, TLC

Symmetry == Permutations(Worker)
=============================================================================
