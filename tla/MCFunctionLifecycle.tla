------------------------- MODULE MCFunctionLifecycle -------------------------
(* Model checking of FunctionLifecycle. *)
EXTENDS FunctionLifecycle, TLC

ObjectSymmetry == Permutations(Func) \cup Permutations(FType) \cup Permutations(Handles)
=============================================================================
