---------------------------- MODULE MCNativeObjects ----------------------------
(***************************************************************************)
(* Model checking of memory objects, of an AutoPointer and of structs.     *)
(* The three share no state, so one run explores them side by side: part is*)
(* the one that moves.                                                     *)
(***************************************************************************)
EXTENDS MemoryObjects, AutoPointer, StructObjects, TLC

VARIABLE part

others == <<part>>
vars == <<memVars, autoVars, strVars, others>>

Init ==
  /\ part \in {"memory", "auto", "struct"}
  /\ MemoryInit /\ AutoInit /\ StructInit
  /\ part # "struct" => direct = {}

Next ==
  \/ part = "memory" /\ MemoryNext /\ UNCHANGED <<autoVars, strVars, others>>
  \/ part = "auto" /\ AutoNext /\ UNCHANGED <<memVars, strVars, others>>
  \/ part = "struct" /\ StructNext /\ UNCHANGED <<memVars, autoVars, others>>

Spec == Init /\ [][Next]_vars

\* Type invariant of the three
TypeOK == MemoryTypeOK /\ AutoTypeOK /\ StructTypeOK

MCOffsets == {-1, 1, 7}

ObjectSymmetry == Permutations(Obj)
=============================================================================
