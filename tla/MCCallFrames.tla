----------------------------- MODULE MCCallFrames -----------------------------
(* Model checking of CallFrames. *)
EXTENDS CallFrames, TLC

AddressSymmetry == Permutations(Frame) \cup Permutations(Exception)
=============================================================================
