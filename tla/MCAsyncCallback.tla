--------------------------- MODULE MCAsyncCallback ---------------------------
(* Model checking of AsyncCallback. *)
EXTENDS AsyncCallback, TLC

ThreadSymmetry == Permutations(Native) \cup Permutations(Creator)
=============================================================================
