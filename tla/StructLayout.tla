----------------------------- MODULE StructLayout -----------------------------
(***************************************************************************)
(* The class body of a Struct or Union: packed, aligned, size=, layout, and*)
(* the layout they make (lib/ffi/struct.rb, struct_layout_builder.rb,      *)
(* StructLayout.c).                                                        *)
(*                                                                         *)
(* A type is known by its size and alignment and by the leaves the union   *)
(* code looks at: the one leaf type find_homogeneous_leaf_type returns for *)
(* it (or NoLeaf), and whether all its leaves are floating point.          *)
(***************************************************************************)
EXTENDS Integers, Sequences

CONSTANTS
  FieldTypes,  \* [size, align, leaf, floats]
  FloatTypes,  \* get_float_types: leaves [size, align, float]
  IntTypes,    \* get_int_types
  Offsets,     \* offsets a layout names explicitly
  Packs,       \* what packed is given; 0 stands for false
  Aligns,      \* what aligned is given
  Sizes,       \* what size= is given
  MaxFields,   \* bound: fields of a class's layout and the one that replaces it
  MaxLayouts,  \* bound: layouts a class defines
  Unset,       \* an instance variable that is not defined, an offset not named
  NoLeaf

ASSUME TypeAssumption ==
  /\ \A t \in FieldTypes : t.size \in Nat /\ t.align \in Nat \ {0}
  /\ \A t \in FloatTypes \cup IntTypes : t.size \in Nat \ {0} /\ t.align \in Nat \ {0}
  /\ Offsets \cup Packs \cup Aligns \cup Sizes \subseteq Nat /\ 0 \notin Aligns
  /\ {MaxFields, MaxLayouts} \subseteq Nat

\* Alignments are powers of two: of any two the smaller divides the larger
Alignments ==
  {t.align : t \in FieldTypes \cup FloatTypes \cup IntTypes} \cup Aligns \cup (Packs \ {0})
ASSUME AlignmentAssumption == \A a, b \in Alignments : a <= b => b % a = 0

\* libffi's scalars on x86_64 are as long as they are aligned.  The leaf of a type
\* whose leaves are floating point is one of get_float_types; the type need not be
\* aligned for it (a packed struct of floats).
ASSUME LeafAssumption ==
  /\ FloatTypes \cap IntTypes = {} /\ NoLeaf \notin FloatTypes \cup IntTypes
  /\ \A l \in FloatTypes \cup IntTypes : l.size = l.align /\ l.float = (l \in FloatTypes)
  /\ \A t \in FieldTypes : t.floats /\ t.size > 0 => t.leaf \in FloatTypes \cup {NoLeaf}

VARIABLES
  union,      \* the class is a Union
  classPacked, classAlign, classSize,   \* @packed, @min_alignment, @size
  builder,    \* the StructLayoutBuilder of the layout call that runs
  layout,     \* @layout
  layouts     \* history: layouts defined

layoutVars == <<union, classPacked, classAlign, classSize, builder, layout, layouts>>

LayoutInit ==
  /\ union \in BOOLEAN
  /\ classPacked = Unset /\ classAlign = Unset /\ classSize = Unset
  /\ builder = Unset /\ layout = Unset /\ layouts = 0

Larger(a, b) == IF a > b THEN a ELSE b
Smaller(a, b) == IF a < b THEN a ELSE b

\* StructLayoutBuilder#align, FFI_ALIGN: the next multiple of a power of two; of
\* alignment 0 the bit mask leaves 0
AlignUp(n, a) == IF a = 0 THEN 0 ELSE a * ((n + a - 1) \div a)

-----------------------------------------------------------------------------
\* Struct.packed, Struct.aligned, Struct.size=, which raises once @size is set
SetPacked(p) ==
  /\ builder = Unset /\ classPacked = Unset /\ classPacked' = p
  /\ UNCHANGED <<union, classAlign, classSize, builder, layout, layouts>>
SetAligned(a) ==
  /\ builder = Unset /\ classAlign = Unset /\ classAlign' = a
  /\ UNCHANGED <<union, classPacked, classSize, builder, layout, layouts>>
SetSize(n) ==
  /\ builder = Unset /\ classSize = Unset /\ classSize' = n
  /\ UNCHANGED <<union, classPacked, classAlign, builder, layout, layouts>>

\* Struct.layout: a new builder, packed= and alignment= of it
BeginLayout ==
  LET p == IF classPacked = Unset \/ classPacked = 0 THEN 1 ELSE classPacked
      a == IF classAlign = Unset THEN 1 ELSE classAlign
  IN  /\ builder = Unset /\ layouts < MaxLayouts
      /\ builder' = [fields |-> <<>>, size |-> 0, alignment |-> Larger(p, a), min |-> a]
      /\ UNCHANGED <<union, classPacked, classAlign, classSize, layout, layouts>>

\* Mutation of Placed: the alignment of the type is not asked
PlacedByMinimum(t) == AlignUp(builder.size, builder.min)

\* The offset of a field whose offset is not named
Placed(t) ==
  IF union THEN 0
  ELSE AlignUp(builder.size, IF classPacked # Unset THEN Smaller(classPacked, t.align)
                             ELSE Larger(builder.min, t.align))

Fields == IF layout = Unset THEN 0 ELSE Len(layout.fields)

\* StructLayoutBuilder#add
Add(t, named) ==
  LET offset == IF named = Unset THEN Placed(t) ELSE named
  IN  /\ builder # Unset /\ Fields + Len(builder.fields) < MaxFields
      /\ builder' = [builder EXCEPT
           !.fields = Append(@, [type |-> t, offset |-> offset, named |-> named # Unset]),
           !.alignment = IF classPacked # Unset THEN @ ELSE Larger(@, t.align),
           !.size = Larger(@, t.size + IF union THEN 0 ELSE offset)]
      /\ UNCHANGED <<union, classPacked, classAlign, classSize, layout, layouts>>

-----------------------------------------------------------------------------
(* The libffi representation of a union *)

\* find_homogeneous_leaf_type over the elements: a mismatch is forgotten when
\* another element follows.  A zero-sized type ends the elements.
LeafOf(fields) ==
  LET leaf[n \in 0..Len(fields)] ==
        IF n = 0 THEN NoLeaf
        ELSE IF fields[n].type.size = 0 THEN leaf[n - 1]
        ELSE IF leaf[n - 1] \in {NoLeaf, fields[n].type.leaf} THEN fields[n].type.leaf
        ELSE NoLeaf
  IN  leaf[Len(fields)]

\* Mutation of FloatOnly: the first element decides
FloatOnlyFirst(fields) == fields = <<>> \/ fields[1].type.floats

\* is_float_type of every leaf
FloatOnly(fields) == \A i \in DOMAIN fields : fields[i].type.size > 0 => fields[i].type.floats

\* find_type_by_alignment
ByAlignment(types, a) ==
  IF \E t \in types : t.align = a THEN CHOOSE t \in types : t.align = a ELSE NoLeaf

\* struct_layout_union_bang on x86_64 with the System V ABI: the filler, or NoLeaf
\* when it raises
Filler(fields, align) ==
  LET float == IF FloatOnly(fields)
                 THEN IF LeafOf(fields) # NoLeaf THEN LeafOf(fields) ELSE ByAlignment(FloatTypes, align)
                 ELSE NoLeaf
  IN  IF float # NoLeaf THEN float ELSE ByAlignment(IntTypes, align)

-----------------------------------------------------------------------------
\* Mutation of LayoutSize: no tail padding
LayoutSizeUnpadded == Larger(builder.size, IF classSize = Unset THEN 0 ELSE classSize)

\* builder.size = @size; build; FFI_ALIGN in struct_layout_initialize, which pads
\* packed structs too
LayoutSize ==
  AlignUp(Larger(builder.size, IF classSize = Unset THEN 0 ELSE classSize), builder.alignment)

\* StructLayout.new and __union! accept the fields
Accepted ==
  LET fields == builder.fields
  IN  /\ \A i \in 1..(Len(fields) - 1) : fields[i].type.size > 0
      /\ LayoutSize > 0
      /\ union => Filler(fields, builder.alignment) # NoLeaf

\* The rest of Struct.layout: the class takes the layout and its size, or the call
\* raises and leaves the class as it was
EndLayout ==
  /\ builder # Unset
  /\ builder' = Unset /\ layouts' = layouts + 1
  /\ IF Accepted
       THEN /\ layout' = [fields |-> builder.fields, size |-> LayoutSize, align |-> builder.alignment,
                          packed |-> classPacked, aligned |-> classAlign,
                          filler |-> IF union THEN Filler(builder.fields, builder.alignment) ELSE NoLeaf]
            /\ classSize' = LayoutSize
       ELSE UNCHANGED <<layout, classSize>>
  /\ UNCHANGED <<union, classPacked, classAlign>>

LayoutNext ==
  \/ \E p \in Packs : SetPacked(p)
  \/ \E a \in Aligns : SetAligned(a)
  \/ \E n \in Sizes : SetSize(n)
  \/ BeginLayout
  \/ \E t \in FieldTypes, o \in Offsets \cup {Unset} : Add(t, o)
  \/ EndLayout

LayoutSpec == LayoutInit /\ [][LayoutNext]_layoutVars

-----------------------------------------------------------------------------
\* Type invariant
LayoutTypeOK ==
  /\ union \in BOOLEAN
  /\ classPacked \in Packs \cup {Unset} /\ classAlign \in Aligns \cup {Unset}
  /\ classSize \in Nat \cup {Unset} /\ layouts \in 0..MaxLayouts
  /\ builder # Unset => builder.size \in Nat /\ builder.alignment \in Nat \ {0}
  /\ layout # Unset =>
       /\ layout.size \in Nat \ {0} /\ layout.align \in Nat \ {0}
       /\ \A i \in DOMAIN layout.fields : layout.fields[i].type \in FieldTypes

End(f) == f.offset + f.type.size
Disjoint(f, g) == End(f) <= g.offset \/ End(g) <= f.offset

\* The fields of a layout fit: each lies inside the size that is allocated for the
\* struct, one placed by the builder is where the C compiler would align it and
\* does not reach into the fields before it, and structs in an array stay aligned --
\* also after size=, explicit offsets and a second layout.  Not promised by the
\* code: `packed false` (which puts every field at 0), and an offset named in a
\* union (which its size leaves out).
LayoutFits ==
  layout # Unset /\ layout.packed # 0 =>
    /\ layout.size % layout.align = 0
    /\ \A i \in DOMAIN layout.fields :
         LET f == layout.fields[i]
         IN  /\ End(f) <= layout.size \/ (union /\ f.named)
             /\ ~f.named => /\ layout.packed = Unset => f.offset % f.type.align = 0
                            /\ union \/ \A j \in 1..(i - 1) : Disjoint(layout.fields[j], f)

\* Without explicit offsets, aligned and size= each field lies where the C compiler
\* puts it: at the next offset after the field before it that suits it.  The size of
\* the struct is not compared: that of a packed one is padded here (`packed 2` makes
\* a lone char 2 bytes long, C makes it 1).
LayoutAsC ==
  LET suits(f) == IF layout.packed = Unset THEN f.type.align ELSE Smaller(layout.packed, f.type.align)
      plain == layout.aligned = Unset /\ layout.packed # 0 /\ \A i \in DOMAIN layout.fields : ~layout.fields[i].named
      from(i) == IF union \/ i = 1 THEN 0 ELSE End(layout.fields[i - 1])
  IN  layout # Unset /\ plain =>
        \A i \in DOMAIN layout.fields :
          /\ layout.fields[i].offset \in from(i)..(from(i) + suits(layout.fields[i]) - 1)
          /\ layout.fields[i].offset % suits(layout.fields[i]) = 0

\* What libffi is told of a union (struct_layout_union_bang).  A floating-point
\* filler is chosen only if no leaf is an integer, whatever leaf a mismatch hid; it
\* is the common leaf of the elements if they have one, and with mixed leaves it is
\* chosen if a floating-point type is aligned like the union (none is, if packed
\* structs leave it an alignment below a float's).  The fillers cover the union
\* exactly, unless it is aligned for less than its filler.  That the C compiler
\* passes the union so is not claimed: it classifies each eightbyte by itself, here
\* one type stands for all.
UnionFilled ==
  layout # Unset /\ union =>
    LET elements == {t \in FieldTypes : t.size > 0 /\ \E i \in DOMAIN layout.fields : layout.fields[i].type = t}
        floating == \A t \in elements : t.floats
        common(l) == elements # {} /\ \A t \in elements : t.leaf = l
    IN  /\ layout.filler.float => floating
        /\ \A l \in FloatTypes : floating /\ common(l) => layout.filler = l
        /\ floating /\ (\E l \in FloatTypes : l.align = layout.align) => layout.filler.float
        /\ layout.filler.align <= layout.align => layout.size % layout.filler.size = 0
=============================================================================
