---------------------------- MODULE MCDeclarations ----------------------------
(***************************************************************************)
(* Model checking of what a program declares before it calls: layouts,     *)
(* enums, libraries; and of the arguments of a call.  They share no state, *)
(* so one run explores them side by side: part is the one that moves.      *)
(***************************************************************************)
EXTENDS StructLayout, EnumTypes, Library, CallParams, TLC

VARIABLE part

others == <<part>>
vars == <<layoutVars, enumVars, libVars, paramVars, others>>

\* A part that does not move has one initial state
Idle ==
  /\ part # "layout" => ~union
  /\ part # "enum" => ~isBitmask /\ native = CHOOSE t \in NativeTypes : TRUE
  /\ part # "params" => params = <<>> /\ argc = 0 /\ ~variadic /\ ~block

Init ==
  /\ part \in {"layout", "enum", "library", "params"}
  /\ LayoutInit /\ EnumInit /\ LibInit /\ ParamsInit /\ Idle

Next ==
  \/ part = "layout" /\ LayoutNext /\ UNCHANGED <<enumVars, libVars, paramVars, others>>
  \/ part = "enum" /\ EnumNext /\ UNCHANGED <<layoutVars, libVars, paramVars, others>>
  \/ part = "library" /\ LibNext /\ UNCHANGED <<layoutVars, enumVars, paramVars, others>>
  \/ part = "params" /\ ParamsNext /\ UNCHANGED <<layoutVars, enumVars, libVars, others>>

Spec == Init /\ [][Next]_vars

\* Type invariant of the four
TypeOK == LayoutTypeOK /\ EnumTypeOK /\ LibTypeOK /\ ParamsTypeOK

-----------------------------------------------------------------------------
Leaf(size, float) == [size |-> size, align |-> size, float |-> float]
MCFloatTypes == {Leaf(n, TRUE) : n \in {4, 8, 16}}
MCIntTypes == {Leaf(n, FALSE) : n \in {1, 2, 4, 8}}

\* char, pointer; float[3], a struct of a double and a float, int[0], a packed
\* struct of a float and a double, a struct of an int and two floats
Scalars == {[size |-> l.size, align |-> l.align, leaf |-> l, floats |-> l.float] :
              l \in {Leaf(1, FALSE), Leaf(8, FALSE)}}
MCFieldTypes == Scalars \cup
  {[size |-> 12, align |-> 4, leaf |-> Leaf(4, TRUE), floats |-> TRUE],
   [size |-> 16, align |-> 8, leaf |-> NoLeaf, floats |-> TRUE],
   [size |-> 0, align |-> 4, leaf |-> Leaf(4, FALSE), floats |-> FALSE],
   [size |-> 12, align |-> 1, leaf |-> NoLeaf, floats |-> TRUE],
   [size |-> 12, align |-> 4, leaf |-> Leaf(4, TRUE), floats |-> FALSE]}

MCGiven == {-1, 0, 2, 4}
MCNativeTypes == {t \in [bits : {3}, signed : BOOLEAN, listed : BOOLEAN] : t.listed => t.signed}
MCExports == [l \in NativeLib |-> {"f"}]

DeclarationSymmetry == Permutations(Dl)
=============================================================================
