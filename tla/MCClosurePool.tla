---------------------------- MODULE MCClosurePool ----------------------------
(* Model checking of ClosurePool: the pages are interchangeable. *)
EXTENDS ClosurePool, TLC

PageSymmetry == Permutations(Block)
=============================================================================
