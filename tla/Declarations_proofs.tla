-------------------------- MODULE Declarations_proofs --------------------------
(***************************************************************************)
(* What a program declares before it calls, and the arguments of a call:   *)
(* layouts of any fields, enums of any list, any number of libraries, and  *)
(* calls with any number of parameters.                                    *)
(***************************************************************************)
EXTENDS MCDeclarations, EnumTypes_proofs

-----------------------------------------------------------------------------
(* Struct layouts. *)

(* What the next aligned offset is. *)
LEMMA AlignUpBounds ==
  ASSUME NEW n \in Nat, NEW a \in Nat \ {0}
  PROVE  /\ AlignUp(n, a) \in Nat
         /\ n <= AlignUp(n, a) /\ AlignUp(n, a) < n + a
         /\ AlignUp(n, a) % a = 0
<1> DEFINE m == n + a - 1
           q == m \div a
           r == m % a
<1>1. m \in Nat /\ q \in Nat /\ r \in 0..(a - 1) /\ m = a * q + r
  OBVIOUS
<1>2. AlignUp(n, a) = a * q
  BY DEF AlignUp
<1>3. (a * q) % a = 0
  <2>1. \A k \in Nat : (a * k) % a = 0
    OBVIOUS
  <2> HIDE DEF q
  <2> QED  BY <1>1, <2>1
<1>4. a * q \in Nat
  BY <1>1
<1>5. a * q = n + a - 1 - r
  BY <1>1
<1> HIDE DEF q, r, m
<1> QED  BY <1>1, <1>2, <1>3, <1>4, <1>5

LEMMA Divides ==
  ASSUME NEW n \in Nat, NEW a \in Nat \ {0}, NEW b \in Nat \ {0}, n % b = 0, b % a = 0
  PROVE  n % a = 0
<1> DEFINE k == n \div b
           j == b \div a
<1>1. k \in Nat /\ n = b * k
  OBVIOUS
<1>2. j \in Nat /\ b = a * j
  OBVIOUS
<1>3. \A i \in Nat : (a * i) % a = 0
  OBVIOUS
<1> HIDE DEF k, j
<1>4. n = a * (j * k) /\ j * k \in Nat
  BY <1>1, <1>2
<1> QED  BY <1>3, <1>4

-----------------------------------------------------------------------------
(* The inductive invariant. *)

Field == [type : FieldTypes, offset : Nat, named : BOOLEAN]

\* Fields that fit into size bytes
Apart(fields, packed, size) ==
  packed # 0 =>
    \A i \in DOMAIN fields :
      /\ End(fields[i]) <= size \/ (union /\ fields[i].named)
      /\ ~fields[i].named =>
           /\ packed = Unset => fields[i].offset % fields[i].type.align = 0
           /\ union \/ \A j \in 1..(i - 1) : Disjoint(fields[j], fields[i])

Suits(f, packed) == IF packed = Unset THEN f.type.align ELSE Smaller(packed, f.type.align)
Plain(fields, packed, aligned) ==
  aligned = Unset /\ packed # 0 /\ \A i \in DOMAIN fields : ~fields[i].named

\* Fields that follow one another as a C compiler lets them
AsC(fields, packed, aligned) ==
  LET from(i) == IF union \/ i = 1 THEN 0 ELSE End(fields[i - 1])
  IN  Plain(fields, packed, aligned) =>
        \A i \in DOMAIN fields :
          /\ fields[i].offset \in from(i)..(from(i) + Suits(fields[i], packed) - 1)
          /\ fields[i].offset % Suits(fields[i], packed) = 0

\* What the builder has so far; of plain fields the last one ends where it ends
BuilderSound ==
  builder # Unset =>
    /\ layouts < MaxLayouts
    /\ builder \in [fields : Seq(Field), size : Nat, alignment : Nat \ {0}, min : Nat \ {0}]
    /\ builder.min = IF classAlign = Unset THEN 1 ELSE classAlign
    /\ Apart(builder.fields, classPacked, builder.size)
    /\ AsC(builder.fields, classPacked, classAlign)
    /\ Plain(builder.fields, classPacked, classAlign) /\ ~union =>
         builder.size = IF builder.fields = <<>> THEN 0 ELSE End(builder.fields[Len(builder.fields)])

LayoutSound ==
  layout # Unset =>
    /\ layout.fields \in Seq(Field) /\ layout.size \in Nat \ {0} /\ layout.align \in Nat \ {0}
    /\ layout.size % layout.align = 0
    /\ Apart(layout.fields, layout.packed, layout.size)
    /\ AsC(layout.fields, layout.packed, layout.aligned)

ClassTyped ==
  /\ union \in BOOLEAN
  /\ classPacked \in Packs \cup {Unset} /\ classAlign \in Aligns \cup {Unset}
  /\ classSize \in Nat \cup {Unset} /\ layouts \in 0..MaxLayouts

LayoutIInv == ClassTyped /\ BuilderSound /\ LayoutSound

LEMMA Numbers ==
  /\ Packs \subseteq Nat /\ Aligns \subseteq Nat \ {0}
  /\ \A t \in FieldTypes : t.size \in Nat /\ t.align \in Nat \ {0}
BY TypeAssumption

(* Where the builder puts a field whose offset is not named: behind all      *)
(* others, at the next offset that suits it.                                 *)
LEMMA PlacedBehind ==
  ASSUME LayoutIInv, builder # Unset, ~union, classPacked # 0, NEW t \in FieldTypes
  PROVE  LET a == IF classPacked # Unset THEN Smaller(classPacked, t.align)
                  ELSE Larger(builder.min, t.align)
         IN  /\ a \in Nat \ {0}
             /\ classAlign = Unset => a = IF classPacked = Unset THEN t.align
                                          ELSE Smaller(classPacked, t.align)
             /\ Placed(t) \in Nat /\ builder.size <= Placed(t) /\ Placed(t) < builder.size + a
             /\ Placed(t) % a = 0
             /\ classPacked = Unset => Placed(t) % t.align = 0
<1> DEFINE a == IF classPacked # Unset THEN Smaller(classPacked, t.align)
                ELSE Larger(builder.min, t.align)
<1>1. /\ builder.size \in Nat /\ builder.min \in Nat \ {0} /\ t.align \in Nat \ {0}
      /\ builder.min = (IF classAlign = Unset THEN 1 ELSE classAlign)
      /\ classPacked \in Packs \cup {Unset} /\ classAlign \in Aligns \cup {Unset}
  BY Numbers DEF LayoutIInv, ClassTyped, BuilderSound
<1>2. classPacked # Unset => classPacked \in Nat \ {0}
  BY <1>1, Numbers
<1>3. a \in Nat \ {0}
  BY <1>1, <1>2 DEF Smaller, Larger
<1>4. classAlign = Unset => a = IF classPacked = Unset THEN t.align ELSE Smaller(classPacked, t.align)
  BY <1>1 DEF Larger
<1>5. Placed(t) = AlignUp(builder.size, a)
  BY DEF Placed
<1>6. classPacked = Unset => a % t.align = 0
  <2>1. CASE a = t.align
    <3>1. \A n \in Nat \ {0} : n % n = 0
      OBVIOUS
    <3> QED  BY <1>1, <2>1, <3>1
  <2>2. CASE classPacked = Unset /\ a # t.align
    <3>1. a = builder.min /\ t.align < a
      BY <1>1, <2>2 DEF Larger
    <3>2. classAlign # Unset /\ a = classAlign
      BY <1>1, <3>1
    <3>3. a \in Alignments /\ t.align \in Alignments
      BY <1>1, <3>2 DEF Alignments
    <3> HIDE DEF a
    <3> QED  BY <1>1, <1>3, <3>1, <3>3, AlignmentAssumption
  <2> QED  BY <2>1, <2>2
<1> HIDE DEF a
<1>7. /\ Placed(t) \in Nat /\ builder.size <= Placed(t) /\ Placed(t) < builder.size + a
      /\ Placed(t) % a = 0
  BY <1>1, <1>3, <1>5, AlignUpBounds
<1>8. classPacked = Unset => Placed(t) % t.align = 0
  BY <1>1, <1>3, <1>6, <1>7, Divides
<1> QED  BY <1>3, <1>4, <1>7, <1>8 DEF a

(* One field more, named or placed.                                          *)
LEMMA FieldAppended ==
  ASSUME NEW fields \in Seq(Field), NEW f \in Field
  PROVE  /\ Append(fields, f) \in Seq(Field)
         /\ Len(Append(fields, f)) = Len(fields) + 1 /\ Len(fields) \in Nat
         /\ Append(fields, f)[Len(fields) + 1] = f
         /\ DOMAIN Append(fields, f) = 1..(Len(fields) + 1) /\ DOMAIN fields = 1..Len(fields)
         /\ \A i \in 1..Len(fields) : Append(fields, f)[i] = fields[i] /\ fields[i] \in Field
OBVIOUS

LEMMA ApartAppended ==
  ASSUME NEW fields \in Seq(Field), NEW f \in Field, NEW packed, NEW size \in Nat, NEW size2 \in Nat,
         Apart(fields, packed, size), size <= size2,
         End(f) <= size2 \/ (union /\ f.named),
         packed # 0 /\ ~f.named =>
           /\ packed = Unset => f.offset % f.type.align = 0
           /\ union \/ size <= f.offset
  PROVE  Apart(Append(fields, f), packed, size2)
<1> DEFINE g == Append(fields, f)
           n == Len(fields)
<1>1. /\ n \in Nat /\ g[n + 1] = f /\ DOMAIN g = 1..(n + 1) /\ DOMAIN fields = 1..n
      /\ \A i \in 1..n : g[i] = fields[i] /\ fields[i] \in Field
  BY FieldAppended
<1> HIDE DEF g, n
<1> SUFFICES ASSUME packed # 0, NEW i \in 1..(n + 1)
             PROVE  /\ End(g[i]) <= size2 \/ (union /\ g[i].named)
                    /\ ~g[i].named =>
                         /\ packed = Unset => g[i].offset % g[i].type.align = 0
                         /\ union \/ \A j \in 1..(i - 1) : Disjoint(g[j], g[i])
  BY <1>1 DEF Apart, g
<1>2. \A h \in Field : End(h) \in Nat
  BY Numbers DEF End, Field
<1>3. \A j \in 1..n : End(fields[j]) <= size \/ (union /\ fields[j].named)
  BY <1>1 DEF Apart
<1>4. CASE i = n + 1
  <2>1. g[i] = f /\ 1..(i - 1) = 1..n
    BY <1>1, <1>4
  <2>2. ASSUME ~f.named, ~union, NEW j \in 1..n PROVE Disjoint(g[j], f)
    <3>1. End(g[j]) <= size /\ size <= f.offset /\ End(g[j]) \in Nat /\ f.offset \in Nat
      BY <1>1, <1>2, <1>3, <2>2 DEF Field
    <3> QED  BY <3>1 DEF Disjoint
  <2> QED  BY <2>1, <2>2
<1>5. CASE i # n + 1
  <2>1. i \in 1..n /\ g[i] = fields[i] /\ \A j \in 1..(i - 1) : j \in 1..n /\ g[j] = fields[j]
    BY <1>1, <1>5
  <2>2. End(g[i]) <= size2 \/ (union /\ g[i].named)
    BY <1>1, <1>2, <1>3, <2>1
  <2> QED  BY <1>1, <2>1, <2>2 DEF Apart
<1> QED  BY <1>4, <1>5

LEMMA AsCAppended ==
  ASSUME NEW fields \in Seq(Field), NEW f \in Field, NEW packed, NEW aligned,
         AsC(fields, packed, aligned),
         Plain(Append(fields, f), packed, aligned) =>
           LET from == IF union \/ fields = <<>> THEN 0 ELSE End(fields[Len(fields)])
           IN  /\ f.offset \in from..(from + Suits(f, packed) - 1)
               /\ f.offset % Suits(f, packed) = 0
  PROVE  /\ AsC(Append(fields, f), packed, aligned)
         /\ Plain(Append(fields, f), packed, aligned) => Plain(fields, packed, aligned) /\ ~f.named
<1> DEFINE g == Append(fields, f)
           n == Len(fields)
           from(h, i) == IF union \/ i = 1 THEN 0 ELSE End(h[i - 1])
<1>1. /\ n \in Nat /\ g[n + 1] = f /\ DOMAIN g = 1..(n + 1) /\ DOMAIN fields = 1..n
      /\ \A i \in 1..n : g[i] = fields[i] /\ fields[i] \in Field
  BY FieldAppended
<1>2. fields = <<>> <=> n = 0
  OBVIOUS
<1> HIDE DEF g, n
<1>3. ASSUME Plain(g, packed, aligned) PROVE Plain(fields, packed, aligned) /\ ~f.named
  BY <1>1, <1>3 DEF Plain
<1>4. ASSUME Plain(g, packed, aligned), NEW i \in 1..(n + 1)
      PROVE  /\ g[i].offset \in from(g, i)..(from(g, i) + Suits(g[i], packed) - 1)
             /\ g[i].offset % Suits(g[i], packed) = 0
  <2>1. CASE i = n + 1
    <3>1. g[i] = f /\ i - 1 = n /\ (i = 1 <=> n = 0)
      BY <1>1, <2>1
    <3>2. n # 0 => g[n] = fields[n]
      BY <1>1
    <3>3. from(g, i) = IF union \/ fields = <<>> THEN 0 ELSE End(fields[n])
      BY <1>2, <3>1, <3>2
    <3> QED  BY <1>4, <3>1, <3>3 DEF g, n
  <2>2. CASE i # n + 1
    <3>1. i \in 1..n /\ g[i] = fields[i] /\ (i # 1 => g[i - 1] = fields[i - 1])
      BY <1>1, <2>2
    <3>2. from(g, i) = from(fields, i)
      BY <3>1
    <3>3. /\ fields[i].offset \in from(fields, i)..(from(fields, i) + Suits(fields[i], packed) - 1)
          /\ fields[i].offset % Suits(fields[i], packed) = 0
      BY <1>1, <1>3, <1>4, <3>1 DEF AsC
    <3> HIDE DEF from
    <3> QED  BY <3>1, <3>2, <3>3
  <2> QED  BY <2>1, <2>2
<1> QED  BY <1>1, <1>3, <1>4 DEF AsC, g

LEMMA AddInv ==
  ASSUME LayoutIInv, NEW t \in FieldTypes, NEW named \in Offsets \cup {Unset}, Add(t, named)
  PROVE  LayoutIInv'
<1> DEFINE offset == IF named = Unset THEN Placed(t) ELSE named
           f == [type |-> t, offset |-> offset, named |-> named # Unset]
           b == builder.fields
           size2 == Larger(builder.size, t.size + IF union THEN 0 ELSE offset)
           alignment2 == IF classPacked # Unset THEN builder.alignment ELSE Larger(builder.alignment, t.align)
<1>1. /\ builder # Unset /\ UNCHANGED <<union, classPacked, classAlign, classSize, layout, layouts>>
      /\ builder' = [builder EXCEPT !.fields = Append(@, f), !.alignment = alignment2, !.size = size2]
  BY DEF Add
<1>2. /\ builder \in [fields : Seq(Field), size : Nat, alignment : Nat \ {0}, min : Nat \ {0}]
      /\ Apart(b, classPacked, builder.size) /\ AsC(b, classPacked, classAlign)
      /\ t.size \in Nat /\ t.align \in Nat \ {0}
  BY <1>1, Numbers DEF LayoutIInv, BuilderSound
<1>3. Placed(t) \in Nat
  <2>1. CASE union
    BY <2>1 DEF Placed
  <2>2. CASE ~union /\ classPacked = 0 /\ classPacked # Unset
    <3>1. Smaller(classPacked, t.align) = 0
      BY <1>2, <2>2 DEF Smaller
    <3> QED  BY <2>2, <3>1 DEF Placed, AlignUp
  <2>3. CASE ~union /\ classPacked # 0
    BY <1>1, <2>3, PlacedBehind
  <2>4. CASE ~union /\ classPacked = Unset /\ classPacked = 0
    <3>1. builder.min \in Nat \ {0} /\ builder.size \in Nat
      BY <1>2
    <3>2. Larger(builder.min, t.align) \in Nat \ {0}
      BY <1>2, <3>1 DEF Larger
    <3> QED  BY <2>4, <3>1, <3>2, AlignUpBounds DEF Placed
  <2> QED  BY <2>1, <2>2, <2>3, <2>4
<1>4. offset \in Nat
  BY <1>3, TypeAssumption
<1> HIDE DEF offset
<1>5. f \in Field
  BY <1>4 DEF Field
<1>6. /\ size2 \in Nat /\ builder.size <= size2 /\ alignment2 \in Nat \ {0}
      /\ t.size + (IF union THEN 0 ELSE offset) <= size2
  BY <1>2, <1>4 DEF Larger
<1>7. End(f) <= size2 \/ (union /\ f.named)
  <2>1. CASE union /\ ~f.named
    <3>1. offset = 0
      BY <2>1 DEF Placed, offset
    <3> QED  BY <1>2, <1>4, <1>6, <2>1, <3>1 DEF End
  <2>2. CASE ~union
    BY <1>2, <1>4, <1>6, <2>2 DEF End
  <2> QED  BY <2>1, <2>2
<1> HIDE DEF size2, alignment2
<1>8. classPacked # 0 /\ ~f.named =>
        /\ classPacked = Unset => f.offset % f.type.align = 0
        /\ union \/ builder.size <= f.offset
  <2> SUFFICES ASSUME classPacked # 0, ~f.named
               PROVE  /\ classPacked = Unset => offset % t.align = 0
                      /\ union \/ builder.size <= offset
    OBVIOUS
  <2>1. offset = Placed(t)
    BY DEF offset
  <2>2. CASE union
    <3>1. offset = 0
      BY <2>1, <2>2 DEF Placed
    <3>2. \A n \in Nat \ {0} : 0 % n = 0
      OBVIOUS
    <3> QED  BY <1>2, <2>2, <3>1, <3>2
  <2>3. CASE ~union
    BY <1>1, <2>1, <2>3, PlacedBehind
  <2> QED  BY <2>2, <2>3
<1>9. b \in Seq(Field) /\ builder.size \in Nat
  BY <1>2
<1>10. Apart(Append(b, f), classPacked, size2)
  <2> HIDE DEF b, f
  <2> QED  BY <1>2, <1>5, <1>6, <1>7, <1>8, <1>9, ApartAppended DEF b
<1>11. ASSUME Plain(Append(b, f), classPacked, classAlign)
       PROVE  LET from == IF union \/ b = <<>> THEN 0 ELSE End(b[Len(b)])
              IN  /\ f.offset \in from..(from + Suits(f, classPacked) - 1)
                  /\ f.offset % Suits(f, classPacked) = 0
  <2> DEFINE from == IF union \/ b = <<>> THEN 0 ELSE End(b[Len(b)])
  <2>1. Plain(b, classPacked, classAlign) /\ ~f.named
    <3> HIDE DEF b, f
    <3> QED  BY <1>5, <1>9, <1>11, FieldAppended DEF Plain
  <2>2. classPacked # 0 /\ classAlign = Unset
    BY <1>11 DEF Plain
  <2>3. offset = Placed(t)
    BY <2>1 DEF offset
  <2>4. Suits(f, classPacked) = IF classPacked = Unset THEN t.align ELSE Smaller(classPacked, t.align)
    BY DEF Suits
  <2>5. Suits(f, classPacked) \in Nat \ {0}
    <3>1. classPacked # Unset => classPacked \in Nat \ {0}
      BY <2>2, Numbers DEF LayoutIInv, ClassTyped
    <3> QED  BY <1>2, <2>4, <3>1 DEF Smaller
  <2>6. CASE union
    <3>1. offset = 0 /\ from = 0
      BY <2>3, <2>6 DEF Placed
    <3>2. \A n \in Nat \ {0} : 0 % n = 0 /\ 0 \in 0..(0 + n - 1)
      OBVIOUS
    <3> HIDE DEF from
    <3>3. f.offset = 0
      BY <3>1
    <3> QED  BY <2>5, <3>1, <3>2, <3>3 DEF from
  <2>7. CASE ~union
    <3>1. builder.size = from
      BY <1>1, <2>1, <2>7 DEF LayoutIInv, BuilderSound
    <3>2. /\ Placed(t) \in Nat /\ builder.size <= Placed(t)
          /\ Placed(t) < builder.size + Suits(f, classPacked)
          /\ Placed(t) % Suits(f, classPacked) = 0
      <4> HIDE DEF f
      <4>1. LET a == IF classPacked # Unset THEN Smaller(classPacked, t.align)
                     ELSE Larger(builder.min, t.align)
            IN  a = Suits(f, classPacked)
        BY <1>1, <2>2, <2>4, <2>7, PlacedBehind
      <4> QED  BY <1>1, <2>2, <2>7, <4>1, PlacedBehind
    <3>3. f.offset = Placed(t)
      BY <2>3
    <3> HIDE DEF from, f
    <3>4. f.offset \in from..(from + Suits(f, classPacked) - 1)
      BY <1>9, <2>5, <3>1, <3>2, <3>3
    <3> QED  BY <3>2, <3>3, <3>4 DEF from
  <2> QED  BY <2>6, <2>7
<1>12. /\ AsC(Append(b, f), classPacked, classAlign)
       /\ Plain(Append(b, f), classPacked, classAlign) => Plain(b, classPacked, classAlign) /\ ~f.named
  <2> HIDE DEF b, f
  <2> QED  BY <1>2, <1>5, <1>9, <1>11, AsCAppended DEF b
<1>13. Plain(Append(b, f), classPacked, classAlign) /\ ~union => size2 = End(f)
  <2> SUFFICES ASSUME Plain(Append(b, f), classPacked, classAlign), ~union PROVE size2 = End(f)
    OBVIOUS
  <2>1. classPacked # 0 /\ ~f.named
    BY <1>12 DEF Plain
  <2>2. builder.size <= offset
    BY <1>8, <2>1
  <2> QED  BY <1>2, <1>4, <1>9, <2>2 DEF size2, Larger, End
<1>14. /\ Append(b, f) \in Seq(Field) /\ Append(b, f) # <<>>
       /\ Append(b, f)[Len(Append(b, f))] = f
  <2> HIDE DEF b, f
  <2> QED  BY <1>5, <1>9, FieldAppended
<1>15. /\ builder'.fields = Append(b, f) /\ builder'.size = size2
       /\ builder'.alignment = alignment2 /\ builder'.min = builder.min
       /\ builder' = [fields |-> builder'.fields, size |-> builder'.size,
                      alignment |-> builder'.alignment, min |-> builder'.min]
  BY <1>1, <1>2
<1>16. builder' \in [fields : Seq(Field), size : Nat, alignment : Nat \ {0}, min : Nat \ {0}]
  <2> HIDE DEF b, f
  <2>1. builder.min \in Nat \ {0}
    BY <1>2
  <2> QED  BY <1>6, <1>14, <1>15, <2>1
<1>17. BuilderSound'
  <2> HIDE DEF b, f
  <2>1. Apart(builder.fields, classPacked, builder.size)' /\ AsC(builder.fields, classPacked, classAlign)'
    BY <1>1, <1>10, <1>12, <1>15 DEF Apart, AsC, Plain, Suits, End, Disjoint
  <2>2. builder'.min = IF classAlign' = Unset THEN 1 ELSE classAlign'
    BY <1>1, <1>15 DEF LayoutIInv, BuilderSound
  <2>3. Plain(builder.fields, classPacked, classAlign)' /\ ~union'
          => builder'.size = End(builder'.fields[Len(builder'.fields)])
    BY <1>1, <1>13, <1>14, <1>15 DEF Plain
  <2>4. builder'.fields # <<>>
    BY <1>14, <1>15
  <2>5. layouts' < MaxLayouts
    BY <1>1 DEF LayoutIInv, BuilderSound
  <2> QED  BY <1>16, <2>1, <2>2, <2>3, <2>4, <2>5 DEF BuilderSound
<1>18. LayoutSound' /\ ClassTyped'
  BY <1>1 DEF LayoutIInv, LayoutSound, ClassTyped, Apart, AsC, Plain
<1> QED  BY <1>17, <1>18 DEF LayoutIInv

LEMMA BeginLayoutInv == LayoutIInv /\ BeginLayout => LayoutIInv'
<1> SUFFICES ASSUME LayoutIInv, BeginLayout PROVE LayoutIInv'
  OBVIOUS
<1> DEFINE p == IF classPacked = Unset \/ classPacked = 0 THEN 1 ELSE classPacked
           a == IF classAlign = Unset THEN 1 ELSE classAlign
<1>1. /\ UNCHANGED <<union, classPacked, classAlign, classSize, layout, layouts>>
      /\ builder' = [fields |-> <<>>, size |-> 0, alignment |-> Larger(p, a), min |-> a]
  BY DEF BeginLayout
<1>2. p \in Nat \ {0} /\ a \in Nat \ {0}
  BY Numbers DEF LayoutIInv, ClassTyped
<1>3. Larger(p, a) \in Nat \ {0}
  BY <1>2 DEF Larger
<1>4. <<>> \in Seq(Field) /\ DOMAIN <<>> = {}
  OBVIOUS
<1>5. builder' \in [fields : Seq(Field), size : Nat, alignment : Nat \ {0}, min : Nat \ {0}]
  <2> HIDE DEF p, a
  <2> QED  BY <1>1, <1>2, <1>3, <1>4
<1>6. builder'.fields = <<>> /\ builder'.size = 0 /\ builder'.min = a
  BY <1>1
<1>7. BuilderSound'
  <2>1. layouts < MaxLayouts
    BY DEF BeginLayout
  <2> QED  BY <1>1, <1>4, <1>5, <1>6, <2>1 DEF BuilderSound, Apart, AsC
<1>8. LayoutSound' /\ ClassTyped'
  BY <1>1 DEF LayoutIInv, LayoutSound, ClassTyped, Apart, AsC, Plain
<1> QED  BY <1>7, <1>8 DEF LayoutIInv

LEMMA EndLayoutInv == LayoutIInv /\ EndLayout => LayoutIInv'
<1> SUFFICES ASSUME LayoutIInv, EndLayout PROVE LayoutIInv'
  OBVIOUS
<1>1. /\ builder # Unset /\ builder' = Unset /\ layouts' = layouts + 1
      /\ UNCHANGED <<union, classPacked, classAlign>>
  BY DEF EndLayout
<1>2. /\ builder.fields \in Seq(Field) /\ builder.size \in Nat /\ builder.alignment \in Nat \ {0}
      /\ Apart(builder.fields, classPacked, builder.size)
      /\ AsC(builder.fields, classPacked, classAlign)
      /\ layouts' \in 0..MaxLayouts
  BY <1>1, TypeAssumption DEF LayoutIInv, BuilderSound, ClassTyped
<1>3. LayoutSize \in Nat /\ builder.size <= LayoutSize /\ LayoutSize % builder.alignment = 0
  <2> DEFINE n == Larger(builder.size, IF classSize = Unset THEN 0 ELSE classSize)
  <2>1. n \in Nat /\ builder.size <= n
    BY <1>2 DEF Larger, LayoutIInv, ClassTyped
  <2>2. LayoutSize = AlignUp(n, builder.alignment)
    BY DEF LayoutSize
  <2> HIDE DEF n
  <2>3. AlignUp(n, builder.alignment) \in Nat /\ n <= AlignUp(n, builder.alignment)
        /\ AlignUp(n, builder.alignment) % builder.alignment = 0
    BY <1>2, <2>1, AlignUpBounds
  <2> QED  BY <1>2, <2>1, <2>2, <2>3
<1>4. CASE Accepted
  <2>1. LayoutSize \in Nat \ {0}
    BY <1>3, <1>4 DEF Accepted
  <2>2. /\ classSize' = LayoutSize
        /\ layout'.fields = builder.fields /\ layout'.size = LayoutSize
        /\ layout'.align = builder.alignment
        /\ layout'.packed = classPacked /\ layout'.aligned = classAlign
    BY <1>4 DEF EndLayout
  <2>3. Apart(builder.fields, classPacked, LayoutSize)
    <3>1. \A i \in DOMAIN builder.fields : builder.fields[i] \in Field
      BY <1>2
    <3>2. \A h \in Field : End(h) \in Nat
      BY Numbers DEF End, Field
    <3>3. \A i \in DOMAIN builder.fields :
            End(builder.fields[i]) <= builder.size => End(builder.fields[i]) <= LayoutSize
      BY <1>2, <1>3, <3>1, <3>2
    <3> QED  BY <1>2, <3>3 DEF Apart
  <2>4. LayoutSound'
    <3>1. Apart(layout.fields, layout.packed, layout.size)' /\ AsC(layout.fields, layout.packed, layout.aligned)'
      BY <1>1, <1>2, <2>2, <2>3 DEF Apart, AsC, Plain
    <3> QED  BY <1>2, <1>3, <2>1, <2>2, <3>1 DEF LayoutSound
  <2>5. ClassTyped'
    BY <1>1, <1>2, <2>1, <2>2 DEF LayoutIInv, ClassTyped
  <2> QED  BY <1>1, <2>4, <2>5 DEF LayoutIInv, BuilderSound
<1>5. CASE ~Accepted
  <2>1. UNCHANGED <<layout, classSize>>
    BY <1>5 DEF EndLayout
  <2>2. LayoutSound'
    BY <1>1, <2>1 DEF LayoutIInv, LayoutSound, Apart, AsC, Plain
  <2>3. ClassTyped'
    BY <1>1, <1>2, <2>1 DEF LayoutIInv, ClassTyped
  <2> QED  BY <1>1, <2>2, <2>3 DEF LayoutIInv, BuilderSound
<1> QED  BY <1>4, <1>5

(* packed, aligned and size= come between two layouts.                       *)
LEMMA ClassSetInv ==
  ASSUME LayoutIInv, builder = Unset, builder' = Unset,
         classPacked' \in Packs \cup {Unset}, classAlign' \in Aligns \cup {Unset},
         classSize' \in Nat \cup {Unset}, UNCHANGED <<union, layout, layouts>>
  PROVE  LayoutIInv'
<1>1. LayoutSound'
  BY DEF LayoutIInv, LayoutSound, Apart, AsC, Plain
<1> QED  BY <1>1 DEF LayoutIInv, ClassTyped, BuilderSound

LEMMA LayoutNextInv == LayoutIInv /\ [LayoutNext]_layoutVars => LayoutIInv'
<1> SUFFICES ASSUME LayoutIInv, [LayoutNext]_layoutVars PROVE LayoutIInv'
  OBVIOUS
<1>1. ASSUME NEW p \in Packs, SetPacked(p) PROVE LayoutIInv'
  BY <1>1, ClassSetInv DEF SetPacked, LayoutIInv, ClassTyped
<1>2. ASSUME NEW a \in Aligns, SetAligned(a) PROVE LayoutIInv'
  BY <1>2, ClassSetInv DEF SetAligned, LayoutIInv, ClassTyped
<1>3. ASSUME NEW n \in Sizes, SetSize(n) PROVE LayoutIInv'
  <2>1. n \in Nat
    BY TypeAssumption
  <2> QED  BY <1>3, <2>1, ClassSetInv DEF SetSize, LayoutIInv, ClassTyped
<1>4. CASE BeginLayout
  BY <1>4, BeginLayoutInv
<1>5. ASSUME NEW t \in FieldTypes, NEW o \in Offsets \cup {Unset}, Add(t, o) PROVE LayoutIInv'
  BY <1>5, AddInv
<1>6. CASE EndLayout
  BY <1>6, EndLayoutInv
<1>7. CASE UNCHANGED layoutVars
  <2>1. UNCHANGED <<union, classPacked, classAlign, classSize, builder, layout, layouts>>
    BY <1>7 DEF layoutVars
  <2>2. BuilderSound'
    BY <2>1 DEF LayoutIInv, BuilderSound, Apart, AsC, Plain
  <2>3. LayoutSound'
    BY <2>1 DEF LayoutIInv, LayoutSound, Apart, AsC, Plain
  <2> QED  BY <2>1, <2>2, <2>3 DEF LayoutIInv, ClassTyped
<1> QED  BY <1>1, <1>2, <1>3, <1>4, <1>5, <1>6, <1>7 DEF LayoutNext

LEMMA LayoutInitInv == LayoutInit => LayoutIInv
BY TypeAssumption DEF LayoutInit, LayoutIInv, ClassTyped, BuilderSound, LayoutSound

THEOREM LayoutInvariant == LayoutSpec => []LayoutIInv
BY LayoutInitInv, LayoutNextInv, PTL DEF LayoutSpec

LEMMA LayoutTypesHold == LayoutIInv => LayoutTypeOK
<1> SUFFICES ASSUME LayoutIInv PROVE LayoutTypeOK
  OBVIOUS
<1>1. ASSUME layout # Unset, NEW i \in DOMAIN layout.fields
      PROVE  layout.fields[i].type \in FieldTypes
  <2>1. layout.fields[i] \in Field
    BY <1>1 DEF LayoutIInv, LayoutSound
  <2> QED  BY <2>1 DEF Field
<1> QED  BY <1>1 DEF LayoutIInv, ClassTyped, BuilderSound, LayoutSound, LayoutTypeOK

(* The types of a struct class's state.                                      *)
THEOREM LayoutsTyped == LayoutSpec => []LayoutTypeOK
BY LayoutTypesHold, LayoutInvariant, PTL

(* The fields of a layout fit, lie aligned and do not overlap, whatever      *)
(* types, offsets, packings, alignments and sizes a class names.             *)
THEOREM FieldsFit == LayoutSpec => []LayoutFits
<1>1. LayoutIInv => LayoutFits
  BY DEF LayoutIInv, LayoutSound, Apart, LayoutFits
<1> QED  BY <1>1, LayoutInvariant, PTL

(* The fields of a plain layout lie where the C compiler puts them; the      *)
(* struct's size is not compared.                                            *)
THEOREM PlainLayoutsAsC == LayoutSpec => []LayoutAsC
<1>1. LayoutIInv => LayoutAsC
  BY DEF LayoutIInv, LayoutSound, AsC, Plain, Suits, LayoutAsC
<1> QED  BY <1>1, LayoutInvariant, PTL

(* The loop of find_homogeneous_leaf_type over the elements.                  *)
LEMMA LeafLoop ==
  ASSUME NEW fields \in Seq(Field)
  PROVE  \E leaf : /\ LeafOf(fields) = leaf[Len(fields)] /\ leaf[0] = NoLeaf
                   /\ \A n \in 1 .. Len(fields) :
                        leaf[n] = IF fields[n].type.size = 0 THEN leaf[n - 1]
                                  ELSE IF leaf[n - 1] \in {NoLeaf, fields[n].type.leaf}
                                       THEN fields[n].type.leaf
                                  ELSE NoLeaf
<1> DEFINE m == Len(fields)
           V == {NoLeaf} \cup {fields[i].type.leaf : i \in 1 .. m}
           step == [n \in 1 .. m |-> [x \in V |->
                      IF fields[n].type.size = 0 THEN x
                      ELSE IF x \in {NoLeaf, fields[n].type.leaf} THEN fields[n].type.leaf
                      ELSE NoLeaf]]
           Loop(f) == [n \in 0 .. m |->
                         IF n = 0 THEN NoLeaf
                         ELSE IF fields[n].type.size = 0 THEN f[n - 1]
                         ELSE IF f[n - 1] \in {NoLeaf, fields[n].type.leaf} THEN fields[n].type.leaf
                         ELSE NoLeaf]
           leaf == CHOOSE f : f = Loop(f)
<1>1. m \in Nat
  OBVIOUS
<1>2. LeafOf(fields) = leaf[m]
  BY DEF LeafOf
<1>3. \E f : f = Loop(f)
  <2>1. NoLeaf \in V /\ step \in [1 .. m -> [V -> V]]
    OBVIOUS
  <2>2. \A n \in 1 .. m, x \in V :
          step[n][x] = IF fields[n].type.size = 0 THEN x
                           ELSE IF x \in {NoLeaf, fields[n].type.leaf} THEN fields[n].type.leaf
                           ELSE NoLeaf
    OBVIOUS
  <2> HIDE DEF V, step
  <2>3. m \in Nat
    OBVIOUS
  <2> HIDE DEF m
  <2>4. Loops(m, V, NoLeaf, step) # {}
    BY <2>1, <2>3, Recursion
  <2>5. PICK f \in [0 .. m -> V] :
          f[0] = NoLeaf /\ \A n \in 1 .. m : f[n] = step[n][f[n - 1]]
    BY <2>4 DEF Loops
  <2>6. \A n \in 0 .. m : n # 0 => n \in 1 .. m /\ n - 1 \in 0 .. m
    BY <2>3
  <2>7. \A n \in 0 .. m : f[n] = Loop(f)[n]
    BY <2>2, <2>5, <2>6
  <2>8. f = Loop(f)
    BY <2>7
  <2> QED  BY <2>8
<1>4. leaf = Loop(leaf)
  <2> HIDE DEF Loop
  <2> QED  BY <1>3
<1> HIDE DEF leaf
<1>5. \A n \in 0 .. m : leaf[n] = Loop(leaf)[n]
  BY <1>4
<1>6. \A n \in 0 .. m : leaf[n] = IF n = 0 THEN NoLeaf
                                  ELSE IF fields[n].type.size = 0 THEN leaf[n - 1]
                                  ELSE IF leaf[n - 1] \in {NoLeaf, fields[n].type.leaf} THEN fields[n].type.leaf
                                  ELSE NoLeaf
  BY <1>5
<1>7. /\ 0 \in 0 .. m
      /\ \A n \in 1 .. m : n \in 0 .. m /\ n # 0
  BY <1>1
<1>8. leaf[0] = NoLeaf
  BY <1>6, <1>7
<1>9. \A n \in 1 .. m : leaf[n] = IF fields[n].type.size = 0 THEN leaf[n - 1]
                                  ELSE IF leaf[n - 1] \in {NoLeaf, fields[n].type.leaf} THEN fields[n].type.leaf
                                  ELSE NoLeaf
  <2> SUFFICES ASSUME NEW n \in 1 .. m
               PROVE  leaf[n] = IF fields[n].type.size = 0 THEN leaf[n - 1]
                                ELSE IF leaf[n - 1] \in {NoLeaf, fields[n].type.leaf} THEN fields[n].type.leaf
                                ELSE NoLeaf
    OBVIOUS
  <2> HIDE DEF m
  <2> QED  BY <1>6, <1>7
<1> QED  BY <1>2, <1>8, <1>9

(* The leaf of a union is the leaf of one of its elements; and the one they    *)
(* all have, if they have one.                                                 *)
LEMMA LeafOfElement ==
  ASSUME NEW fields \in Seq(Field)
  PROVE  /\ LeafOf(fields) # NoLeaf =>
              \E i \in DOMAIN fields : fields[i].type.size > 0 /\ LeafOf(fields) = fields[i].type.leaf
         /\ \A l : l # NoLeaf /\ (\E i \in DOMAIN fields : fields[i].type.size > 0)
                   /\ (\A i \in DOMAIN fields : fields[i].type.size > 0 => fields[i].type.leaf = l)
                   => LeafOf(fields) = l
<1> DEFINE m == Len(fields)
           Sized(i) == fields[i].type.size > 0
<1>1. m \in Nat /\ DOMAIN fields = 1 .. m /\ \A i \in 1 .. m : fields[i].type.size \in Nat
  <2>1. m \in Nat /\ DOMAIN fields = 1 .. m /\ \A i \in 1 .. m : fields[i] \in Field
    OBVIOUS
  <2>2. \A f \in Field : f.type.size \in Nat
    BY Numbers DEF Field
  <2> QED  BY <2>1, <2>2
<1>2. PICK leaf : /\ LeafOf(fields) = leaf[m] /\ leaf[0] = NoLeaf
                  /\ \A n \in 1 .. m :
                       leaf[n] = IF fields[n].type.size = 0 THEN leaf[n - 1]
                                 ELSE IF leaf[n - 1] \in {NoLeaf, fields[n].type.leaf}
                                      THEN fields[n].type.leaf
                                 ELSE NoLeaf
  BY LeafLoop
<1> DEFINE Of(n) == \E i \in 1 .. n : Sized(i) /\ leaf[n] = fields[i].type.leaf
           All(n) == \A l : /\ l # NoLeaf
                            /\ \A i \in 1 .. m : Sized(i) => fields[i].type.leaf = l
                            => IF \E i \in 1 .. n : Sized(i) THEN leaf[n] = l ELSE leaf[n] = NoLeaf
           S == {n \in 0 .. m : (leaf[n] = NoLeaf \/ Of(n)) /\ All(n)}
<1> HIDE DEF m
<1>3. 0 \in S
  <2>1. 1 .. 0 = {} /\ 0 \in 0 .. m
    BY <1>1
  <2> QED  BY <1>2, <2>1
<1>4. ASSUME NEW n \in S, n < m PROVE n + 1 \in S
  <2>1. n \in Nat /\ n + 1 \in 1 .. m /\ n + 1 \in 0 .. m /\ (n + 1) - 1 = n
    BY <1>1, <1>4
  <2> DEFINE k == n + 1
  <2>2. k \in 1 .. k /\ (\A i \in 1 .. n : i \in 1 .. k) /\ \A i \in 1 .. k : i \in 1 .. n \/ i = k
    BY <2>1
  <2>3. leaf[k] = IF fields[k].type.size = 0 THEN leaf[n]
                  ELSE IF leaf[n] \in {NoLeaf, fields[k].type.leaf} THEN fields[k].type.leaf
                  ELSE NoLeaf
    BY <1>2, <2>1
  <2>4. (fields[k].type.size = 0 /\ ~Sized(k)) \/ (fields[k].type.size # 0 /\ Sized(k))
    BY <1>1, <2>1
  <2>5. k \in 1 .. m /\ k \in 0 .. m
    BY <2>1
  <2> HIDE DEF k, Sized
  <2>6. leaf[k] = NoLeaf \/ Of(k)
    <3>1. leaf[k] = NoLeaf \/ leaf[k] = leaf[n] \/ (Sized(k) /\ leaf[k] = fields[k].type.leaf)
      BY <2>3, <2>4
    <3> QED  BY <1>4, <2>2, <3>1
  <2>7. All(k)
    <3> SUFFICES ASSUME NEW l, l # NoLeaf, \A i \in 1 .. m : Sized(i) => fields[i].type.leaf = l
                 PROVE  IF \E i \in 1 .. k : Sized(i) THEN leaf[k] = l ELSE leaf[k] = NoLeaf
      OBVIOUS
    <3>1. IF \E i \in 1 .. n : Sized(i) THEN leaf[n] = l ELSE leaf[n] = NoLeaf
      BY <1>4
    <3>2. Sized(k) => fields[k].type.leaf = l
      BY <2>5
    <3> QED  BY <2>2, <2>3, <2>4, <3>1, <3>2
  <2> HIDE DEF Of, All
  <2> QED  BY <2>5, <2>6, <2>7 DEF k
<1>5. S = 0 .. m
  <2>1. S \in SUBSET (0 .. m)
    OBVIOUS
  <2> HIDE DEF S
  <2> QED  BY <1>1, <1>3, <1>4, <2>1, BoundedInduction
<1>6. m \in S
  <2> HIDE DEF S
  <2> QED  BY <1>1, <1>5
<1>7. (leaf[m] = NoLeaf \/ Of(m)) /\ All(m)
  BY <1>6
<1> QED  BY <1>1, <1>2, <1>7

(* The alignment the builder has reached: that of some type, packed or aligned. *)
AlignmentReached == builder # Unset => builder.alignment \in Alignments \cup {1}

UnionIInv == LayoutIInv /\ AlignmentReached /\ UnionFilled

LEMMA AlignmentDivides ==
  ASSUME NEW a \in Alignments, NEW b \in Alignments \cup {1}, a <= b, a \in Nat \ {0}
  PROVE  b % a = 0
<1>1. CASE b \in Alignments
  BY <1>1, AlignmentAssumption
<1>2. CASE b = 1
  <2>1. a = 1
    BY <1>2
  <2>2. 1 % 1 = 0
    OBVIOUS
  <2> QED  BY <1>2, <2>1, <2>2
<1> QED  BY <1>1, <1>2

(* The filler struct_layout_union_bang takes.                                *)
LEMMA FillerFits ==
  ASSUME NEW fields \in Seq(Field), NEW alignment \in Alignments \cup {1}, alignment \in Nat \ {0},
         Filler(fields, alignment) # NoLeaf
  PROVE  LET filler == Filler(fields, alignment)
         IN  /\ filler \in FloatTypes \cup IntTypes
             /\ filler.float => FloatOnly(fields)
             /\ FloatOnly(fields) /\ LeafOf(fields) # NoLeaf => filler = LeafOf(fields)
             /\ FloatOnly(fields) /\ (\E l \in FloatTypes : l.align = alignment) => filler.float
             /\ filler.align <= alignment => alignment % filler.size = 0
<1> DEFINE filler == Filler(fields, alignment)
           Leaves == FloatTypes \cup IntTypes
           float == IF FloatOnly(fields)
                      THEN IF LeafOf(fields) # NoLeaf THEN LeafOf(fields) ELSE ByAlignment(FloatTypes, alignment)
                      ELSE NoLeaf
<1>1. \A l \in Leaves : /\ l # NoLeaf /\ l.size \in Nat \ {0} /\ l.align = l.size
                        /\ (l.float <=> l \in FloatTypes) /\ l.align \in Alignments
  BY TypeAssumption, LeafAssumption DEF Alignments
<1>2. \A types \in SUBSET Leaves :
        /\ ByAlignment(types, alignment) # NoLeaf => ByAlignment(types, alignment) \in types
        /\ (\E l \in types : l.align = alignment) => ByAlignment(types, alignment) # NoLeaf
  BY <1>1 DEF ByAlignment
<1>3. filler = IF float # NoLeaf THEN float ELSE ByAlignment(IntTypes, alignment)
  BY DEF Filler
<1>4. FloatOnly(fields) /\ LeafOf(fields) # NoLeaf => LeafOf(fields) \in FloatTypes
  <2> SUFFICES ASSUME FloatOnly(fields), LeafOf(fields) # NoLeaf PROVE LeafOf(fields) \in FloatTypes
    OBVIOUS
  <2>1. PICK i \in DOMAIN fields : fields[i].type.size > 0 /\ LeafOf(fields) = fields[i].type.leaf
    BY LeafOfElement
  <2>2. fields[i].type \in FieldTypes
    <3>1. fields[i] \in Field
      OBVIOUS
    <3> QED  BY <3>1 DEF Field
  <2>3. fields[i].type.floats
    BY <2>1 DEF FloatOnly
  <2> QED  BY <2>1, <2>2, <2>3, LeafAssumption
<1>5. float # NoLeaf => float \in FloatTypes /\ FloatOnly(fields)
  BY <1>2, <1>4
<1>6. filler \in Leaves /\ (filler.float <=> float # NoLeaf)
  <2> HIDE DEF float
  <2>1. CASE float # NoLeaf
    BY <1>1, <1>3, <1>5, <2>1
  <2>2. CASE float = NoLeaf
    <3>1. filler \in IntTypes
      BY <1>2, <1>3, <2>2
    <3> QED  BY <1>1, <2>2, <3>1, LeafAssumption
  <2> QED  BY <2>1, <2>2
<1>7. FloatOnly(fields) /\ LeafOf(fields) # NoLeaf => filler = LeafOf(fields)
  BY <1>3
<1>8. FloatOnly(fields) /\ (\E l \in FloatTypes : l.align = alignment) => filler.float
  <2>1. (\E l \in FloatTypes : l.align = alignment) => ByAlignment(FloatTypes, alignment) # NoLeaf
    BY <1>2
  <2> HIDE DEF filler
  <2> QED  BY <1>6, <2>1
<1>9. filler.align <= alignment => alignment % filler.size = 0
  <2> HIDE DEF filler
  <2> QED  BY <1>1, <1>6, AlignmentDivides
<1> QED  BY <1>5, <1>6, <1>7, <1>8, <1>9

LEMMA EndLayoutFills ==
  ASSUME UnionIInv, EndLayout PROVE AlignmentReached' /\ UnionFilled'
<1>1. /\ builder # Unset /\ builder' = Unset /\ UNCHANGED <<union, classPacked>>
  BY DEF EndLayout
<1>2. AlignmentReached'
  BY <1>1 DEF AlignmentReached
<1>3. CASE ~Accepted
  <2>1. UNCHANGED layout
    BY <1>3 DEF EndLayout
  <2> QED  BY <1>1, <1>2, <2>1 DEF UnionFilled, UnionIInv
<1>4. CASE Accepted
  <2> DEFINE fields == builder.fields
             alignment == builder.alignment
             filler == Filler(fields, alignment)
             elements == {t \in FieldTypes : t.size > 0 /\ \E i \in DOMAIN fields : fields[i].type = t}
             floating == \A t \in elements : t.floats
  <2>1. /\ fields \in Seq(Field) /\ builder.size \in Nat /\ alignment \in Nat \ {0}
        /\ alignment \in Alignments \cup {1}
    BY <1>1 DEF UnionIInv, LayoutIInv, BuilderSound, AlignmentReached
  <2>2. /\ layout'.fields = fields /\ layout'.size = LayoutSize /\ layout'.align = alignment
        /\ union => layout'.filler = filler /\ filler # NoLeaf
    BY <1>4 DEF EndLayout, Accepted
  <2>3. LayoutSize \in Nat /\ LayoutSize % alignment = 0
    <3> DEFINE n == Larger(builder.size, IF classSize = Unset THEN 0 ELSE classSize)
    <3>1. n \in Nat
      BY <2>1 DEF Larger, UnionIInv, LayoutIInv, ClassTyped
    <3>2. LayoutSize = AlignUp(n, alignment)
      BY DEF LayoutSize
    <3> HIDE DEF n, alignment
    <3> QED  BY <2>1, <3>1, <3>2, AlignUpBounds
  <2>4. \A i \in DOMAIN fields : fields[i].type \in FieldTypes
    <3>1. \A f \in Field : f.type \in FieldTypes
      BY DEF Field
    <3> QED  BY <2>1, <3>1
  <2>5. FloatOnly(fields) <=> floating
    <3> HIDE DEF fields
    <3> QED  BY <2>4 DEF FloatOnly
  <2>6. ASSUME union
        PROVE  /\ filler.float => floating
               /\ \A l \in FloatTypes : floating /\ elements # {} /\ (\A t \in elements : t.leaf = l)
                                        => filler = l
               /\ floating /\ (\E l \in FloatTypes : l.align = alignment) => filler.float
               /\ filler.align <= alignment => LayoutSize % filler.size = 0
    <3> HIDE DEF fields, alignment, floating
    <3>1. /\ filler \in FloatTypes \cup IntTypes
          /\ filler.float => FloatOnly(fields)
          /\ FloatOnly(fields) /\ LeafOf(fields) # NoLeaf => filler = LeafOf(fields)
          /\ FloatOnly(fields) /\ (\E l \in FloatTypes : l.align = alignment) => filler.float
          /\ filler.align <= alignment => alignment % filler.size = 0
      BY <2>1, <2>2, <2>6, FillerFits
    <3>2. filler.size \in Nat \ {0}
      BY <3>1, TypeAssumption
    <3>3. filler.align <= alignment => LayoutSize % filler.size = 0
      <4> HIDE DEF filler
      <4> QED  BY <2>1, <2>3, <3>1, <3>2, Divides
    <3>4. ASSUME NEW l \in FloatTypes, floating, elements # {}, \A t \in elements : t.leaf = l
          PROVE  filler = l
      <4>1. l # NoLeaf
        BY LeafAssumption
      <4>2. \E i \in DOMAIN fields : fields[i].type.size > 0
        BY <3>4
      <4>3. \A i \in DOMAIN fields : fields[i].type.size > 0 => fields[i].type.leaf = l
        BY <2>4, <3>4
      <4>4. LeafOf(fields) = l
        BY <2>1, <4>1, <4>2, <4>3, LeafOfElement
      <4> HIDE DEF filler
      <4> QED  BY <2>5, <3>1, <3>4, <4>1, <4>4
    <3> HIDE DEF filler, elements
    <3> QED  BY <2>5, <3>1, <3>3, <3>4
  <2>7. UnionFilled'
    <3> SUFFICES ASSUME union
                 PROVE  /\ filler.float => floating
                        /\ \A l \in FloatTypes : floating /\ elements # {} /\ (\A t \in elements : t.leaf = l)
                                                 => filler = l
                        /\ floating /\ (\E l \in FloatTypes : l.align = alignment) => filler.float
                        /\ filler.align <= alignment => LayoutSize % filler.size = 0
      BY <1>1, <2>2 DEF UnionFilled
    <3> QED  BY <2>6
  <2> QED  BY <1>2, <2>7
<1> QED  BY <1>3, <1>4

LEMMA UnionNextInv == UnionIInv /\ [LayoutNext]_layoutVars => UnionIInv'
<1> SUFFICES ASSUME UnionIInv, [LayoutNext]_layoutVars PROVE AlignmentReached' /\ UnionFilled'
  BY LayoutNextInv DEF UnionIInv
<1>1. CASE \/ \E p \in Packs : SetPacked(p)
           \/ \E a \in Aligns : SetAligned(a)
           \/ \E n \in Sizes : SetSize(n)
  <2>1. builder' = Unset /\ UNCHANGED <<union, layout>>
    BY <1>1 DEF SetPacked, SetAligned, SetSize
  <2> QED  BY <2>1 DEF UnionIInv, AlignmentReached, UnionFilled
<1>2. CASE BeginLayout
  <2> DEFINE p == IF classPacked = Unset \/ classPacked = 0 THEN 1 ELSE classPacked
             a == IF classAlign = Unset THEN 1 ELSE classAlign
  <2>1. UNCHANGED <<union, layout>> /\ builder'.alignment = Larger(p, a)
    BY <1>2 DEF BeginLayout
  <2>2. a \in Aligns \cup {1} /\ p \in (Packs \ {0}) \cup {1}
    BY DEF UnionIInv, LayoutIInv, ClassTyped
  <2>3. Larger(p, a) \in {p, a}
    BY DEF Larger
  <2> HIDE DEF p, a
  <2> QED  BY <2>1, <2>2, <2>3 DEF UnionIInv, AlignmentReached, UnionFilled, Alignments
<1>3. ASSUME NEW t \in FieldTypes, NEW o \in Offsets \cup {Unset}, Add(t, o)
      PROVE  AlignmentReached' /\ UnionFilled'
  <2>1. /\ builder # Unset /\ UNCHANGED <<union, layout>>
        /\ builder \in [fields : Seq(Field), size : Nat, alignment : Nat \ {0}, min : Nat \ {0}]
    BY <1>3 DEF Add, UnionIInv, LayoutIInv, BuilderSound
  <2>2. builder'.alignment \in {builder.alignment, Larger(builder.alignment, t.align)}
    BY <1>3, <2>1 DEF Add
  <2>3. Larger(builder.alignment, t.align) \in {builder.alignment, t.align} /\ t.align \in Alignments
    BY DEF Larger, Alignments
  <2> QED  BY <2>1, <2>2, <2>3 DEF UnionIInv, AlignmentReached, UnionFilled
<1>4. CASE EndLayout
  BY <1>4, EndLayoutFills
<1>5. CASE UNCHANGED layoutVars
  <2>1. UNCHANGED <<union, classPacked, builder, layout>>
    BY <1>5 DEF layoutVars
  <2> QED  BY <2>1 DEF UnionIInv, AlignmentReached, UnionFilled
<1> QED  BY <1>1, <1>2, <1>3, <1>4, <1>5 DEF LayoutNext

(* What libffi is told of a union, whatever fields, packing, alignment and     *)
(* size the class names: floating point only if nothing in it is an integer,   *)
(* its common leaf if it has one, and fillers that cover it exactly where it   *)
(* is aligned for them.                                                        *)
THEOREM FillersOfUnions == LayoutSpec => []UnionFilled
<1>1. LayoutInit => UnionIInv
  BY LayoutInitInv DEF LayoutInit, UnionIInv, AlignmentReached, UnionFilled
<1>2. UnionIInv => UnionFilled
  BY DEF UnionIInv
<1> QED  BY <1>1, <1>2, UnionNextInv, PTL DEF LayoutSpec

-----------------------------------------------------------------------------
(* Libraries: what is attached or held leads into one that is still loaded.  *)

Open(d) == d \in Dl /\ opened[d] \in NativeLib

\* A symbol's own DynamicLibrary object has its library open, which exports the name
Backed(s) ==
  s \in Symbols /\ opened[s.dl] = s.lib /\ s.name \in Exports[s.lib]

\* The loaded libraries of a module, and those Ruby code holds, are open
LInv ==
  /\ opened \in [Dl -> NativeLib \cup {NotOpen}]
  /\ ffiLibs \in Seq(Dl) /\ Len(ffiLibs) <= MaxNames
  /\ \A i \in DOMAIN ffiLibs : Open(ffiLibs[i])
  /\ \A d \in dlHeld : Open(d)
  /\ functions \in [Name -> Symbols \cup {NotAttached}]
  /\ variables \in [Name -> Symbols \cup {NotAttached}]
  /\ \A n \in Name : functions[n] # NotAttached => Backed(functions[n])
  /\ \A n \in Name : variables[n] # NotAttached => Backed(variables[n])
  /\ \A s \in symHeld : Backed(s)

\* What a step leaves open stays backed
LEMMA StaysBacked ==
  ASSUME LInv, \A d \in Dl : opened[d] # NotOpen => opened'[d] = opened[d]
  PROVE  /\ \A s : Backed(s) => Backed(s)'
         /\ \A d : Open(d) => Open(d)'
BY LibraryAssumption, SMT DEF LInv, Backed, Open, Symbols

\* DynamicLibrary.open touches only objects that are new
LEMMA OpensNew ==
  ASSUME LInv, NEW k \in Nat, NEW ds \in [1..k -> Dl], NEW ls \in [1..k -> NativeLib], Opens(ds, ls)
  PROVE  /\ opened' \in [Dl -> NativeLib \cup {NotOpen}]
         /\ \A d \in Dl : opened[d] # NotOpen => opened'[d] = opened[d]
         /\ \A i \in DOMAIN ds : Open(ds[i])'
<1>1. DOMAIN ds = 1..k /\ \A i \in 1..k : ds[i] \in Dl /\ ls[i] \in NativeLib /\ opened[ds[i]] = NotOpen
  BY DEF Opens
<1> DEFINE At(d) == CHOOSE i \in DOMAIN ds : ds[i] = d
<1>2. opened' = [d \in Dl |-> IF \E i \in DOMAIN ds : ds[i] = d THEN ls[At(d)] ELSE opened[d]]
  BY DEF Opens
<1>3. \A d \in Dl : (\E i \in DOMAIN ds : ds[i] = d) => At(d) \in 1..k
  BY <1>1
<1> HIDE DEF At
<1> QED
  BY <1>1, <1>2, <1>3, LibraryAssumption DEF LInv, Open

LEMMA LibInitInv == LibInit => LInv
BY LibraryAssumption, SMT DEF LibInit, LInv, Open, Backed

LEMMA LibNextInv == LInv /\ [LibNext]_libVars => LInv'
<1> SUFFICES ASSUME LInv, [LibNext]_libVars PROVE LInv'
  OBVIOUS
<1>1. ASSUME NEW k \in 0..MaxNames, NEW ds \in [1..k -> Dl], NEW ls \in [1..k -> NativeLib],
             FfiLib(ds, ls) \/ FfiLibFails(ds, ls)
      PROVE  LInv'
  <2>1. Opens(ds, ls)
    BY <1>1 DEF FfiLib, FfiLibFails
  <2>2. /\ \A s : Backed(s) => Backed(s)'
        /\ \A d : Open(d) => Open(d)'
        /\ opened' \in [Dl -> NativeLib \cup {NotOpen}]
        /\ \A i \in DOMAIN ds : Open(ds[i])'
    BY <2>1, OpensNew, StaysBacked
  <2>3. ds \in Seq(Dl) /\ Len(ds) <= MaxNames
    BY LibraryAssumption
  <2> QED
    BY <1>1, <2>2, <2>3 DEF FfiLib, FfiLibFails, LInv, attachedVars, Open, Backed
<1>2. ASSUME NEW d \in Dl, NEW l \in NativeLib, OpenLibrary(d, l) PROVE LInv'
  <2>1. <<d>> \in [1..1 -> Dl] /\ <<l>> \in [1..1 -> NativeLib]
    BY SMT
  <2>2. /\ \A s : Backed(s) => Backed(s)'
        /\ \A e : Open(e) => Open(e)'
        /\ opened' \in [Dl -> NativeLib \cup {NotOpen}]
        /\ \A i \in DOMAIN <<d>> : Open(<<d>>[i])'
    BY <1>2, <2>1, OpensNew, StaysBacked DEF OpenLibrary
  <2>3. Open(d)'
    BY <2>2, SMT DEF Open
  <2> QED
    BY <1>2, <2>2, <2>3 DEF OpenLibrary, LInv, attachedVars, Open, Backed
<1>3. ASSUME NEW n \in Name, AttachFunction(n) PROVE LInv'
  <2>1. PICK i \in Exporting(n) : functions' = [functions EXCEPT ![n] = SymbolIn(ffiLibs[i], n)]
    BY <1>3 DEF AttachFunction
  <2>2. Backed(SymbolIn(ffiLibs[i], n))
    BY SMT DEF Exporting, SymbolIn, Backed, Symbols, LInv, Open
  <2> QED
    BY <1>3, <2>1, <2>2 DEF AttachFunction, LInv, Open, Backed
<1>4. ASSUME NEW n \in Name, AttachVariable(n) PROVE LInv'
  <2>1. PICK i \in Exporting(n) : variables' = [variables EXCEPT ![n] = SymbolIn(ffiLibs[i], n)]
    BY <1>4 DEF AttachVariable
  <2>2. Backed(SymbolIn(ffiLibs[i], n))
    BY SMT DEF Exporting, SymbolIn, Backed, Symbols, LInv, Open
  <2> QED
    BY <1>4, <2>1, <2>2 DEF AttachVariable, LInv, Open, Backed
<1>5. ASSUME NEW d \in Dl, NEW n \in Name, FindSymbol(d, n) PROVE LInv'
  <2>1. Open(d)
    BY <1>5 DEF FindSymbol, LInv, ToSet
  <2>2. Backed(SymbolIn(d, n))
    BY <1>5, <2>1, SMT DEF FindSymbol, SymbolIn, Backed, Symbols, Open
  <2> QED
    BY <1>5, <2>2 DEF FindSymbol, LInv, attachedVars, Open, Backed
<1>6. ASSUME NEW s \in symHeld, ForgetSymbol(s) PROVE LInv'
  BY <1>6 DEF ForgetSymbol, LInv, attachedVars, Open, Backed
<1>7. ASSUME NEW d \in dlHeld, ForgetLibrary(d) PROVE LInv'
  BY <1>7 DEF ForgetLibrary, LInv, attachedVars, Open, Backed
<1>8. ASSUME NEW d \in Dl, SweepLibrary(d) PROVE LInv'
  <2>1. /\ \A i \in DOMAIN ffiLibs : ffiLibs[i] # d
        /\ d \notin dlHeld
        /\ \A n \in Name : functions[n] # NotAttached => functions[n].dl # d
        /\ \A n \in Name : variables[n] # NotAttached => variables[n].dl # d
        /\ \A s \in symHeld : s.dl # d
    BY <1>8 DEF SweepLibrary, MarkedDl, Attached, ToSet
  <2>2. opened' = [opened EXCEPT ![d] = NotOpen]
    BY <1>8 DEF SweepLibrary
  <2>3. \A e : Open(e) /\ e # d => Open(e)'
    BY <2>2, SMT DEF Open, LInv
  <2>4. \A s : Backed(s) /\ s.dl # d => Backed(s)'
    BY <2>2, SMT DEF Backed, LInv, Symbols
  <2>5. opened' \in [Dl -> NativeLib \cup {NotOpen}]
    BY <2>2 DEF LInv
  <2> QED
    BY <1>8, <2>1, <2>3, <2>4, <2>5 DEF SweepLibrary, LInv, attachedVars
<1>9. CASE UNCHANGED libVars
  BY <1>9 DEF libVars, attachedVars, LInv, Open, Backed
<1> QED
  BY <1>1, <1>2, <1>3, <1>4, <1>5, <1>6, <1>7, <1>8, <1>9 DEF LibNext

\* Whatever is attached or held leads into a library that is still loaded, whenever
\* ffi_lib was called again and the collector closed old handles (symbol_mark,
\* library_free)
THEOREM AttachedStaysLoaded == LibSpec => []AttachedLoaded
<1>1. LInv => AttachedLoaded
  <2> SUFFICES ASSUME LInv, NEW s \in Attached \cup symHeld
               PROVE  Loaded(s.lib) /\ s.name \in Exports[s.lib]
    BY DEF AttachedLoaded
  <2>1. Backed(s)
    BY DEF Attached, LInv
  <2> QED
    BY <2>1, SMT DEF Backed, Symbols, Loaded
<1> QED
  BY LibInitInv, LibNextInv, <1>1, PTL DEF LibSpec

-----------------------------------------------------------------------------
(* callbackParameters: what fntype_initialize collects. *)

(* One round of its loop. *)
Collected(f, n) ==
  IF n = 0 THEN <<>>
  ELSE IF params[n] = "function" THEN Append(f[n - 1], n) ELSE f[n - 1]

LEMMA CallbacksDef ==
  ASSUME params \in Seq(ParamKind)
  PROVE  /\ Callbacks[0] = <<>>
         /\ \A n \in 1 .. Len(params) :
              Callbacks[n] = IF params[n] = "function" THEN Append(Callbacks[n - 1], n)
                                                       ELSE Callbacks[n - 1]
<1> DEFINE m == Len(params)
<1>1. m \in Nat
  OBVIOUS
<1>2. PICK f : f = [n \in 0 .. m |-> Collected(f, n)]
  <2> DEFINE step == [n \in 1 .. m |-> [c \in Seq(Nat) |->
                        IF params[n] = "function" THEN Append(c, n) ELSE c]]
  <2>1. <<>> \in Seq(Nat) /\ step \in [1 .. m -> [Seq(Nat) -> Seq(Nat)]]
    OBVIOUS
  <2>2. \A n \in 1 .. m, c \in Seq(Nat) :
          step[n][c] = IF params[n] = "function" THEN Append(c, n) ELSE c
    OBVIOUS
  <2> HIDE DEF step, m
  <2>3. Loops(m, Seq(Nat), <<>>, step) # {}
    BY <1>1, <2>1, Recursion
  <2>4. PICK f \in [0 .. m -> Seq(Nat)] :
          f[0] = <<>> /\ \A n \in 1 .. m : f[n] = step[n][f[n - 1]]
    BY <2>3 DEF Loops
  <2>5. \A n \in 0 .. m : n # 0 => n \in 1 .. m /\ n - 1 \in 0 .. m
    BY <1>1
  <2>6. ASSUME NEW n \in 0 .. m PROVE f[n] = Collected(f, n)
    <3>1. CASE n = 0
      BY <2>4, <3>1 DEF Collected
    <3>2. CASE n # 0
      <4>1. n \in 1 .. m /\ f[n - 1] \in Seq(Nat)
        BY <2>4, <2>5, <3>2
      <4>2. f[n] = IF params[n] = "function" THEN Append(f[n - 1], n) ELSE f[n - 1]
        BY <2>2, <2>4, <4>1
      <4> QED  BY <3>2, <4>2 DEF Collected
    <3> QED  BY <3>1, <3>2
  <2>7. f = [n \in 0 .. m |-> Collected(f, n)]
    BY <2>6
  <2> QED  BY <2>7
<1>3. Callbacks = [n \in 0 .. m |-> Collected(Callbacks, n)]
  BY <1>2, Zenon DEF Callbacks, Collected
<1>4. \A n \in 0 .. m : Callbacks[n] = Collected(Callbacks, n)
  BY <1>3
<1>5. \A n \in 1 .. m : n \in 0 .. m /\ n # 0
  BY <1>1
<1>6. 0 \in 0 .. m
  BY <1>1
<1> HIDE DEF m
<1> QED  BY <1>4, <1>5, <1>6 DEF Collected, m

(* What it has collected after n parameters it keeps. *)
LEMMA CallbacksPrefix ==
  ASSUME params \in Seq(ParamKind), NEW n \in 0 .. Len(params)
  PROVE  /\ Callbacks[n] \in Seq(Nat)
         /\ Len(Callbacks[n]) <= n
         /\ \A k \in 0 .. n : /\ Len(Callbacks[k]) <= Len(Callbacks[n])
                              /\ \A i \in 1 .. Len(Callbacks[k]) : Callbacks[n][i] = Callbacks[k][i]
<1> DEFINE m == Len(params)
           P(j) == /\ Callbacks[j] \in Seq(Nat)
                   /\ Len(Callbacks[j]) <= j
                   /\ \A k \in 0 .. j : /\ Callbacks[k] \in Seq(Nat)
                                        /\ Len(Callbacks[k]) <= Len(Callbacks[j])
                                        /\ \A i \in 1 .. Len(Callbacks[k]) :
                                             Callbacks[j][i] = Callbacks[k][i]
           S == {j \in 0 .. m : P(j)}
<1>1. m \in Nat
  OBVIOUS
<1>2. /\ Callbacks[0] = <<>>
      /\ \A j \in 1 .. m : Callbacks[j] = IF params[j] = "function" THEN Append(Callbacks[j - 1], j)
                                                                    ELSE Callbacks[j - 1]
  BY CallbacksDef
<1> HIDE DEF m
<1>3. 0 \in S
  <2>1. \A k \in 0 .. 0 : k = 0
    OBVIOUS
  <2>2. Len(<<>>) = 0 /\ <<>> \in Seq(Nat)
    OBVIOUS
  <2>3. Callbacks[0] \in Seq(Nat) /\ Len(Callbacks[0]) <= 0
    BY <1>2, <2>2
  <2>4. \A k \in 0 .. 0 : /\ Callbacks[k] \in Seq(Nat)
                         /\ Len(Callbacks[k]) <= Len(Callbacks[0])
                         /\ \A i \in 1 .. Len(Callbacks[k]) : Callbacks[0][i] = Callbacks[k][i]
    <3> TAKE k \in 0 .. 0
    <3>1. k = 0
      BY <2>1
    <3> QED  BY <2>3, <3>1
  <2>5. 0 \in 0 .. m
    BY <1>1
  <2> QED  BY <2>3, <2>4, <2>5
<1>4. ASSUME NEW j \in S, j < m PROVE j + 1 \in S
  <2> DEFINE c == Callbacks[j]
             d == Callbacks[j + 1]
  <2>1. j \in Nat /\ j + 1 \in 1 .. m /\ j + 1 \in 0 .. m /\ (j + 1) - 1 = j
    BY <1>1, <1>4
  <2>2. d = IF params[j + 1] = "function" THEN Append(c, j + 1) ELSE c
    BY <1>2, <2>1
  <2>3. P(j)
    OBVIOUS
  <2>4. c \in Seq(Nat) /\ Len(c) \in Nat /\ Len(c) <= j
    BY <2>3
  <2>5. /\ d \in Seq(Nat) /\ Len(d) \in Nat /\ Len(d) <= j + 1 /\ Len(c) <= Len(d)
        /\ \A i \in 1 .. Len(c) : d[i] = c[i]
    BY <2>1, <2>2, <2>4
  <2>6. ASSUME NEW k \in 0 .. j + 1
        PROVE  /\ Callbacks[k] \in Seq(Nat)
               /\ Len(Callbacks[k]) <= Len(d)
               /\ \A i \in 1 .. Len(Callbacks[k]) : d[i] = Callbacks[k][i]
    <3>1. CASE k = j + 1
      <4>1. Callbacks[k] = d
        BY <3>1
      <4> HIDE DEF d
      <4> QED  BY <2>5, <4>1
    <3>2. CASE k # j + 1
      <4>1. k \in 0 .. j
        BY <2>1, <3>2
      <4> DEFINE b == Callbacks[k]
      <4>2. /\ b \in Seq(Nat) /\ Len(b) <= Len(c)
            /\ \A i \in 1 .. Len(b) : c[i] = b[i]
        BY <2>3, <4>1
      <4> HIDE DEF b, c, d
      <4>3. Len(b) \in Nat /\ \A i \in 1 .. Len(b) : i \in 1 .. Len(c)
        BY <2>4, <4>2
      <4>4. Len(b) <= Len(d) /\ \A i \in 1 .. Len(b) : d[i] = b[i]
        BY <2>4, <2>5, <4>2, <4>3
      <4> QED  BY <4>2, <4>4 DEF b
    <3> QED  BY <3>1, <3>2
  <2>7. P(j + 1)
    BY <2>5, <2>6
  <2> HIDE DEF P
  <2> QED  BY <2>1, <2>7
<1>5. S = 0 .. m
  <2>1. S \in SUBSET (0 .. m)
    OBVIOUS
  <2> HIDE DEF S
  <2> QED  BY <1>1, <1>3, <1>4, <2>1, BoundedInduction
<1>6. P(n)
  <2> HIDE DEF P
  <2> QED  BY <1>5 DEF m
<1> QED  BY <1>6

-----------------------------------------------------------------------------
(* The inductive invariant of a call's arguments. *)

ArgKinds == {"unknown", "number", "symbol", "nil", "string", "to_str", "memory", "struct",
             "to_ptr", "to_ptr anew", "function", "proc", "converted", "struct by_ref"}

ParamsTyped ==
  /\ params \in Seq(ParamKind) /\ Len(params) <= MaxParams
  /\ variadic \in BOOLEAN /\ block \in BOOLEAN /\ callbackProc \in BOOLEAN
  /\ argc \in 0..MaxParams
  /\ phase \in {"before", "converting", "native", "done", "raised"}
  /\ args \in [Arg -> ArgKinds]
  /\ slot \in [Arg -> {"itself", "inner"}]
  /\ given \in Seq(Object \cup {Nothing}) /\ Len(given) <= Len(params)
  /\ closureOf \in Seq([param : Nat, type : Nat])
  /\ argidx \in Nat \ {0} /\ cbidx \in Nat \ {0}
  /\ swept \subseteq Object

\* The arity check has let pass as many arguments as parameters, or with a block one
\* less, where one parameter takes the block
Arity ==
  /\ phase = "before" => ~callbackProc /\ given = <<>>
  /\ phase \in {"converting", "native"} /\ ~callbackProc => argc = Len(params)
  /\ ~callbackProc /\ given # <<>> => argc = Len(params)
  /\ callbackProc => argc = Len(params) - 1 /\ Len(CallbackParameters) = 1
  /\ variadic => ~callbackProc /\ argc = Len(params)

\* The parameters so far that took the block
ByBlock == IF callbackProc THEN Len(Callbacks[Len(given)]) ELSE 0

\* A mapped type over a function type has no entry in callbackParameters
PlainFunctions == \A i \in DOMAIN params : params[i] # "mapped function"

\* Each parameter took an argument or the block, and each callback its entry
Indices ==
  /\ argidx <= Len(given) + 1 - ByBlock
  /\ cbidx <= Len(given) + 1
  /\ PlainFunctions => /\ argidx = Len(given) + 1 - ByBlock
                       /\ cbidx = Len(Callbacks[Len(given)]) + 1
                       /\ \A i \in DOMAIN closureOf : closureOf[i].type = closureOf[i].param

\* What comes after argidx is as it was; the block's Proc is not replaced in argv
Unread ==
  /\ \A a \in Arg : a >= argidx /\ a # BlockArg => args[a] = "unknown" /\ slot[a] = "itself"
  /\ args[BlockArg] \in {"unknown", "proc"} /\ slot[BlockArg] = "itself"

\* What native code was given is marked and was not swept
Held(o) ==
  /\ args[o.arg] # "unknown"
  /\ o.arg = BlockArg => callbackProc
  /\ o.arg # BlockArg => o.arg < argidx
  /\ args[o.arg] # "to_ptr anew" => o \in MarkedArgs /\ o \notin swept
  /\ args[o.arg] = "struct" => /\ [arg |-> o.arg, part |-> "pointee"] \in MarkedArgs
                               /\ [arg |-> o.arg, part |-> "pointee"] \notin swept

GivenHeld ==
  /\ \A i \in DOMAIN given : given[i] # Nothing => Held(given[i])
  /\ args[BlockArg] = "proc" => Held([arg |-> BlockArg, part |-> "inner"])
  /\ \A o \in swept : args[o.arg] # "unknown"

ParamsIInv == ParamsTyped /\ Arity /\ Indices /\ Unread /\ GivenHeld

LEMMA BlockArgument ==
  /\ BlockArg \in Nat /\ BlockArg \in Arg /\ MaxParams \in Nat
  /\ \A a \in 1..MaxParams : a \in Arg /\ a # BlockArg
BY ParamsAssumption DEF BlockArg, Arg

LEMMA SeqsTyped ==
  ASSUME NEW s \in Seqs(ParamKind, MaxParams)
  PROVE  s \in Seq(ParamKind) /\ Len(s) \in Nat /\ Len(s) <= MaxParams
<1>1. PICK k \in 0..MaxParams : s \in [1..k -> ParamKind]
  BY DEF Seqs
<1>2. k \in Nat /\ k <= MaxParams
  BY BlockArgument
<1>3. s \in Seq(ParamKind) /\ Len(s) = k
  BY <1>1, <1>2
<1> QED  BY <1>2, <1>3

LEMMA ParamsInitInv == ParamsInit => ParamsIInv
<1> SUFFICES ASSUME ParamsInit PROVE ParamsIInv
  OBVIOUS
<1>1. /\ params \in Seq(ParamKind) /\ Len(params) \in Nat /\ Len(params) <= MaxParams
      /\ argc \in 0..MaxParams /\ (variadic => argc = Len(params))
  BY SeqsTyped, BlockArgument DEF ParamsInit
<1>2. given \in Seq(Object \cup {Nothing}) /\ closureOf \in Seq([param : Nat, type : Nat])
      /\ Len(given) = 0 /\ DOMAIN given = {} /\ DOMAIN closureOf = {}
  BY DEF ParamsInit
<1>3. ParamsTyped
  <2>1. args \in [Arg -> ArgKinds] /\ slot \in [Arg -> {"itself", "inner"}]
    BY DEF ParamsInit, ArgKinds
  <2>2. phase = "before" /\ callbackProc \in BOOLEAN /\ argidx = 1 /\ cbidx = 1 /\ swept = {}
        /\ variadic \in BOOLEAN /\ block \in BOOLEAN
    BY DEF ParamsInit
  <2>3. Len(given) <= Len(params)
    BY <1>1, <1>2
  <2> QED  BY <1>1, <1>2, <2>1, <2>2, <2>3 DEF ParamsTyped
<1>4. Arity
  BY <1>1 DEF ParamsInit, Arity
<1>5. Indices
  <2>1. Callbacks[0] = <<>> /\ Len(<<>>) = 0
    BY <1>1, CallbacksDef
  <2> QED  BY <1>2, <2>1 DEF ParamsInit, Indices, ByBlock
<1>6. Unread /\ GivenHeld
  BY <1>2, BlockArgument DEF ParamsInit, Unread, GivenHeld
<1> QED  BY <1>3, <1>4, <1>5, <1>6 DEF ParamsIInv

(* The entry of callbackParameters that the next parameter makes, if any. *)
LEMMA NextCallback ==
  ASSUME ParamsTyped, Len(given) < Len(params)
  PROVE  LET g == Len(given)
         IN  /\ g \in Nat /\ g + 1 \in 1..Len(params) /\ g + 1 \in DOMAIN params
             /\ Callbacks[g] \in Seq(Nat) /\ Callbacks[g + 1] \in Seq(Nat)
             /\ Len(Callbacks[g]) \in Nat /\ Len(Callbacks[g]) <= Len(CallbackParameters)
             /\ Param # "function" => Callbacks[g + 1] = Callbacks[g]
             /\ Param = "function" =>
                  /\ Len(Callbacks[g + 1]) = Len(Callbacks[g]) + 1
                  /\ Len(Callbacks[g]) + 1 \in DOMAIN CallbackParameters
                  /\ CallbackParameters[Len(Callbacks[g]) + 1] = g + 1
             /\ CallbackParameters \in Seq(Nat)
<1> DEFINE g == Len(given)
           n == Len(params)
<1>1. /\ g \in Nat /\ n \in Nat /\ g + 1 \in 1..n /\ g + 1 \in DOMAIN params
      /\ g \in 0..n /\ g + 1 \in 0..n /\ n \in 0..n /\ (g + 1) - 1 = g
      /\ params \in Seq(ParamKind)
  BY DEF ParamsTyped
<1>2. /\ Callbacks[g] \in Seq(Nat) /\ Callbacks[g + 1] \in Seq(Nat)
      /\ CallbackParameters \in Seq(Nat)
      /\ Len(Callbacks[g]) <= Len(CallbackParameters)
      /\ Len(Callbacks[g + 1]) <= Len(CallbackParameters)
      /\ \A i \in 1..Len(Callbacks[g + 1]) : CallbackParameters[i] = Callbacks[g + 1][i]
  <2> HIDE DEF g, n
  <2> QED  BY <1>1, CallbacksPrefix DEF CallbackParameters, n
<1>3. Callbacks[g + 1] = IF params[g + 1] = "function" THEN Append(Callbacks[g], g + 1)
                                                       ELSE Callbacks[g]
  <2> HIDE DEF g
  <2> QED  BY <1>1, CallbacksDef
<1>4. Param = params[g + 1]
  BY DEF Param
<1> HIDE DEF g
<1>5. ASSUME Param = "function"
      PROVE  /\ Len(Callbacks[g + 1]) = Len(Callbacks[g]) + 1
             /\ Len(Callbacks[g]) + 1 \in DOMAIN CallbackParameters
             /\ CallbackParameters[Len(Callbacks[g]) + 1] = g + 1
  <2> DEFINE c == Callbacks[g]
             d == Callbacks[g + 1]
             p == CallbackParameters
  <2>1. d = Append(c, g + 1) /\ c \in Seq(Nat) /\ p \in Seq(Nat) /\ Len(d) <= Len(p)
        /\ \A i \in 1..Len(d) : p[i] = d[i]
    BY <1>2, <1>3, <1>4, <1>5
  <2> HIDE DEF c, d, p
  <2>2. Len(d) = Len(c) + 1 /\ d[Len(c) + 1] = g + 1 /\ Len(c) + 1 \in 1..Len(d)
    BY <1>1, <2>1
  <2>3. Len(c) + 1 \in DOMAIN p
    BY <2>1, <2>2
  <2> QED  BY <2>1, <2>2, <2>3 DEF c, d, p
<1>6. Len(Callbacks[g]) \in Nat
  BY <1>2
<1> QED  BY <1>1, <1>2, <1>3, <1>4, <1>5, <1>6 DEF g

(* A parameter that does not take the block finds an argument. *)
LEMMA ArgumentThere ==
  ASSUME ParamsIInv, phase = "converting", Len(given) < Len(params),
         ~callbackProc \/ Param # "function"
  PROVE  argidx \in 1..argc /\ argidx \in Arg /\ argidx # BlockArg
<1> DEFINE g == Len(given)
           c == Len(Callbacks[g])
<1>1. /\ g \in Nat /\ Len(params) \in Nat /\ g < Len(params) /\ argidx \in Nat \ {0}
      /\ c \in Nat /\ c <= Len(CallbackParameters) /\ argc \in 0..MaxParams
  BY NextCallback DEF ParamsIInv, ParamsTyped
<1>2. CASE ~callbackProc
  <2>1. argidx <= g + 1 /\ argc = Len(params)
    BY <1>1, <1>2 DEF ParamsIInv, Arity, Indices, ByBlock
  <2> QED  BY <1>1, <2>1, BlockArgument
<1>3. CASE callbackProc
  <2>1. argidx <= g + 1 - c /\ argc = Len(params) - 1 /\ Len(CallbackParameters) = 1
    BY <1>1, <1>3 DEF ParamsIInv, Arity, Indices, ByBlock
  <2>2. c = 0 => g + 1 # Len(params)
    <3>1. Callbacks[g + 1] = Callbacks[g]
      BY <1>3, NextCallback DEF ParamsIInv
    <3> QED  BY <2>1, <3>1 DEF CallbackParameters
  <2> HIDE DEF g, c
  <2>3. argidx \in 1..argc
    BY <1>1, <2>1, <2>2
  <2> QED  BY <1>1, <2>3, BlockArgument
<1> QED  BY <1>2, <1>3

-----------------------------------------------------------------------------
(* What a conversion does. *)

\* A parameter takes the argument at argidx, which leaves kept in argv
TakesArgument(kind, piece, kept) ==
  /\ Give(argidx, kind, piece)
  /\ argidx' = argidx + 1
  /\ slot' = [slot EXCEPT ![argidx] = kept]
  /\ ~callbackProc \/ Param # "function"
  /\ kind \in ArgKinds \ {"unknown"} /\ piece \in {"none", "itself", "inner"}
  /\ kept \in {"itself", "inner"}
  /\ kind \notin {"nil", "to_ptr anew"} => piece = "none" \/ piece = kept
                                           \/ (kept = "itself" /\ piece \in Keeps(kind))
  /\ kind = "struct" => kept = "itself"

\* A parameter takes the block
TakesBlock == Give(BlockArg, "proc", "inner") /\ callbackProc /\ UNCHANGED <<argidx, slot>>

(* A Proc keeps the Function made of it, a struct its pointer and what that  *)
(* refers to.                                                                *)
LEMMA KeepsThese ==
  /\ Keeps("struct") = {"inner", "pointee"}
  /\ Keeps("to_ptr") = {"inner"} /\ Keeps("proc") = {"inner"}
BY DEF Keeps

(* One more object is given, and it is held as all before it.                *)
LEMMA GivenAppended ==
  ASSUME ParamsTyped, GivenHeld, NEW x \in Object \cup {Nothing}, given' = Append(given, x),
         x # Nothing => Held(x)',
         \A o \in Object : Held(o) => Held(o)',
         args'[BlockArg] = "proc" => \/ args[BlockArg] = "proc"
                                     \/ x = [arg |-> BlockArg, part |-> "inner"],
         \A o \in swept' : args'[o.arg] # "unknown"
  PROVE  GivenHeld'
<1> DEFINE b == [arg |-> BlockArg, part |-> "inner"]
<1>1. given \in Seq(Object \cup {Nothing}) /\ Len(given) \in Nat
  BY DEF ParamsTyped
<1>2. ASSUME NEW i \in DOMAIN given', given'[i] # Nothing PROVE Held(given[i])'
  <2>1. CASE i \in DOMAIN given
    <3>1. PICK p \in Object : given[i] = p
      BY <1>1, <1>2, <2>1
    <3>2. given'[i] = p
      BY <1>1, <2>1, <3>1
    <3>3. Held(p)
      BY <1>2, <2>1, <3>1, <3>2 DEF GivenHeld, Held
    <3>4. Held(p)'
      BY <3>3
    <3> QED  BY <3>2, <3>4 DEF Held
  <2>2. CASE i \notin DOMAIN given
    <3>1. given'[i] = x
      BY <1>1, <1>2, <2>2
    <3> QED  BY <1>2, <3>1 DEF Held
  <2> QED  BY <2>1, <2>2
<1>3. ASSUME args'[BlockArg] = "proc" PROVE Held(b)'
  <2>1. b \in Object /\ b # Nothing
    BY BlockArgument DEF Object, Nothing
  <2>2. CASE args[BlockArg] = "proc"
    BY <2>1, <2>2 DEF GivenHeld
  <2>3. CASE x = b
    BY <2>1, <2>3
  <2> QED  BY <1>3, <2>2, <2>3
<1> QED  BY <1>2, <1>3 DEF GivenHeld

(* The object a parameter was given is held from then on, and everything     *)
(* that was given before still is.                                           *)
LEMMA ArgumentHeld ==
  ASSUME ParamsIInv, NEW kind, NEW piece, NEW kept, TakesArgument(kind, piece, kept)
  PROVE  Unread' /\ GivenHeld'
<1>1. ParamsTyped /\ Unread /\ GivenHeld
  BY DEF ParamsIInv
<1>2. /\ argidx \in 1..argc /\ argidx \in Arg /\ argidx # BlockArg /\ argidx \in Nat
      /\ phase = "converting"
  BY ArgumentThere, <1>1 DEF TakesArgument, Give, ParamsTyped
<1> DEFINE x == IF kind = "nil" \/ piece = "none" THEN Nothing
                ELSE [arg |-> argidx, part |-> piece]
<1>3. /\ args' = [args EXCEPT ![argidx] = kind] /\ slot' = [slot EXCEPT ![argidx] = kept]
      /\ UNCHANGED <<swept, callbackProc, argc, variadic>>
      /\ argidx' = argidx + 1
      /\ given' = Append(given, x)
  BY DEF TakesArgument, Give, inputs
<1>4. /\ \A a \in Arg \ {argidx} : args'[a] = args[a] /\ slot'[a] = slot[a]
      /\ args'[argidx] = kind /\ slot'[argidx] = kept
  BY <1>1, <1>2, <1>3 DEF ParamsTyped
<1>5. Unread'
  BY <1>1, <1>2, <1>3, <1>4, BlockArgument DEF Unread, Arg
<1>6. \A o \in Object : o.arg # argidx => (o \in MarkedArgs' <=> o \in MarkedArgs)
  <2>1. \A o \in Object : o.arg # argidx => (o \in Rooted' <=> o \in Rooted)
    <3>1. \A a \in 1..argc : a \in Arg
      BY <1>1, BlockArgument DEF ParamsTyped
    <3>2. \A o \in Object : o.arg # argidx =>
            ([arg |-> o.arg, part |-> slot'[o.arg]] = [arg |-> o.arg, part |-> slot[o.arg]])
      BY <1>4 DEF Object
    <3>3. \A o \in Object : o.arg # argidx =>
            (o \in {[arg |-> a, part |-> slot'[a]] : a \in 1..argc}
               <=> o \in {[arg |-> a, part |-> slot[a]] : a \in 1..argc})
      BY <3>1, <3>2 DEF Object
    <3> QED  BY <1>3, <3>3 DEF Rooted
  <2>2. \A o \in Object : o.arg \in Arg /\ [arg |-> o.arg, part |-> "itself"] \in Object
    BY DEF Object
  <2> QED  BY <1>4, <2>1, <2>2 DEF MarkedArgs
<1>7. \A o \in Object : Held(o) => Held(o)'
  <2> SUFFICES ASSUME NEW o \in Object, Held(o) PROVE Held(o)'
    OBVIOUS
  <2>1. o.arg \in Arg /\ o.arg # argidx
    <3>1. args[argidx] = "unknown"
      BY <1>1, <1>2 DEF Unread
    <3> QED  BY <3>1 DEF Held, Object
  <2>2. [arg |-> o.arg, part |-> "pointee"] \in Object
    BY <2>1 DEF Object
  <2>3. o.arg # BlockArg => o.arg < argidx'
    <3>1. o.arg \in Int
      BY <2>1, BlockArgument DEF Arg
    <3>2. o.arg # BlockArg => o.arg < argidx
      BY DEF Held
    <3> QED  BY <1>2, <1>3, <3>1, <3>2
  <2> QED  BY <1>3, <1>4, <1>6, <2>1, <2>2, <2>3 DEF Held
<1>8. \A o \in swept : o \in Object /\ o.arg # argidx
  BY <1>1, <1>2 DEF ParamsTyped, GivenHeld, Unread
<1>9. PICK y \in Object \cup {Nothing} : y = x
  BY <1>2 DEF TakesArgument, Object
<1>10. ASSUME y # Nothing PROVE Held(y)'
  <2>1. /\ y = [arg |-> argidx, part |-> piece] /\ y.arg = argidx
        /\ kind \notin {"unknown", "nil"} /\ piece \in {"itself", "inner"}
    BY <1>9, <1>10 DEF TakesArgument
  <2>2. /\ y \in Object /\ [arg |-> argidx, part |-> "pointee"] \in Object
        /\ [arg |-> argidx, part |-> "itself"] \in Object
    BY <1>2, <2>1 DEF Object
  <2>3. [arg |-> argidx, part |-> kept] \in Rooted'
    BY <1>2, <1>3, <1>4 DEF Rooted
  <2>4. kind # "to_ptr anew" => y \in MarkedArgs'
    <3>1. kind # "to_ptr anew" => piece = kept \/ (kept = "itself" /\ piece \in Keeps(kind))
      BY <2>1 DEF TakesArgument
    <3> QED  BY <1>4, <2>1, <2>2, <2>3, <3>1 DEF MarkedArgs
  <2>5. kind = "struct" => [arg |-> argidx, part |-> "pointee"] \in MarkedArgs'
    <3>1. kind = "struct" => kept = "itself"
      BY DEF TakesArgument
    <3> QED  BY <1>4, <2>2, <2>3, <3>1, KeepsThese DEF MarkedArgs
  <2>6. y \notin swept' /\ [arg |-> argidx, part |-> "pointee"] \notin swept'
    BY <1>3, <1>8, <2>1
  <2>7. argidx < argidx'
    BY <1>2, <1>3
  <2> QED  BY <1>2, <1>4, <2>1, <2>4, <2>5, <2>6, <2>7 DEF Held
<1>11. GivenHeld'
  <2>1. \A o \in swept' : args'[o.arg] # "unknown"
    BY <1>1, <1>3, <1>4, <1>8 DEF GivenHeld, Object
  <2>2. args'[BlockArg] = args[BlockArg]
    BY <1>2, <1>4, BlockArgument
  <2> QED  BY <1>1, <1>3, <1>7, <1>9, <1>10, <2>1, <2>2, GivenAppended
<1> QED  BY <1>5, <1>11

(* The same of the block, which callbackProc keeps.                          *)
LEMMA BlockHeld ==
  ASSUME ParamsIInv, TakesBlock
  PROVE  Unread' /\ GivenHeld'
<1>1. ParamsTyped /\ Unread /\ GivenHeld
  BY DEF ParamsIInv
<1>2. PICK b : b = [arg |-> BlockArg, part |-> "inner"]
  OBVIOUS
<1>3. /\ args' = [args EXCEPT ![BlockArg] = "proc"] /\ callbackProc
      /\ UNCHANGED <<slot, swept, callbackProc, argc, variadic, argidx>>
      /\ given' = Append(given, b)
  BY <1>2 DEF TakesBlock, Give, inputs
<1>4. /\ \A a \in Arg \ {BlockArg} : args'[a] = args[a]
      /\ args'[BlockArg] = "proc" /\ slot[BlockArg] = "itself"
      /\ args[BlockArg] \in {"unknown", "proc"}
  BY <1>1, <1>3, BlockArgument DEF ParamsTyped, Unread
<1>5. Unread'
  BY <1>1, <1>3, <1>4 DEF Unread
<1>6. Rooted' = Rooted
  BY <1>3 DEF Rooted
<1>7. \A o \in Object : args[o.arg] # "unknown" => (o \in MarkedArgs' <=> o \in MarkedArgs)
  <2>1. \A a \in Arg : args[a] # "unknown" => args'[a] = args[a]
    BY <1>4
  <2> QED  BY <1>6, <2>1 DEF MarkedArgs, Object
<1>8. \A o \in Object : Held(o) => Held(o)'
  <2> SUFFICES ASSUME NEW o \in Object, Held(o) PROVE Held(o)'
    OBVIOUS
  <2>1. o.arg \in Arg /\ args[o.arg] # "unknown" /\ args'[o.arg] = args[o.arg]
    BY <1>4 DEF Held, Object
  <2>2. [arg |-> o.arg, part |-> "pointee"] \in Object
    BY <2>1 DEF Object
  <2> QED  BY <1>3, <1>7, <2>1, <2>2 DEF Held
<1>9. b \in Object /\ [arg |-> BlockArg, part |-> "itself"] \in Object /\ b.arg = BlockArg
      /\ b.part = "inner"
  BY <1>2, BlockArgument DEF Object
<1>10. Held(b)'
  <2>1. b \in MarkedArgs'
    <3>1. [arg |-> BlockArg, part |-> "itself"] \in Rooted'
      BY <1>3, <1>6 DEF Rooted
    <3> QED  BY <1>4, <1>9, <3>1, KeepsThese DEF MarkedArgs
  <2>2. b \notin swept
    <3>1. CASE args[BlockArg] = "unknown"
      BY <1>1, <1>9, <3>1 DEF GivenHeld
    <3>2. CASE args[BlockArg] = "proc"
      BY <1>1, <1>2, <1>9, <3>2 DEF GivenHeld, Held
    <3> QED  BY <1>4, <3>1, <3>2
  <2> QED  BY <1>3, <1>4, <1>9, <2>1, <2>2 DEF Held
<1>11. GivenHeld'
  <2>1. \A o \in swept' : args'[o.arg] # "unknown"
    BY <1>1, <1>3, <1>4 DEF GivenHeld, ParamsTyped, Object
  <2> QED  BY <1>1, <1>2, <1>3, <1>8, <1>9, <1>10, <2>1, GivenAppended
<1> QED  BY <1>5, <1>11

(* Each conversion takes the argument or the block. *)
LEMMA NumberTaken ==
  ASSUME ParamsIInv, NEW kind \in Takes(Param), GiveNumber(kind)
  PROVE  TakesArgument(kind, "none", "itself")
<1>1. argidx \in Arg /\ argidx # BlockArg /\ argidx \in Nat
  BY ArgumentThere DEF GiveNumber, Give, ParamsIInv, ParamsTyped
<1>2. slot' = [slot EXCEPT ![argidx] = "itself"]
  BY <1>1 DEF GiveNumber, ParamsIInv, ParamsTyped, Unread
<1>3. kind \in {"number", "symbol"}
  BY DEF GiveNumber, Takes
<1> QED  BY <1>2, <1>3 DEF GiveNumber, TakesArgument, ArgKinds

LEMMA StringTaken ==
  ASSUME ParamsIInv, NEW kind \in Takes(Param), GiveString(kind)
  PROVE  LET piece == IF kind = "to_str" THEN "inner" ELSE "itself"
         IN  TakesArgument(kind, piece, piece)
<1>1. kind \in {"nil", "string", "to_str"}
  BY DEF GiveString, Takes
<1> QED  BY <1>1 DEF GiveString, TakesArgument, ArgKinds

LEMMA AddressTaken ==
  ASSUME ParamsIInv, NEW kind \in Takes(Param), GiveAddress(kind)
  PROVE  TakesArgument(kind, IF kind \in {"string", "memory"} THEN "itself" ELSE "inner", "itself")
<1>1. argidx \in Arg /\ argidx # BlockArg /\ argidx \in Nat
  BY ArgumentThere DEF GiveAddress, Give, ParamsIInv, ParamsTyped
<1>2. slot' = [slot EXCEPT ![argidx] = "itself"]
  BY <1>1 DEF GiveAddress, ParamsIInv, ParamsTyped, Unread
<1>3. kind \in {"nil", "string", "memory", "struct", "to_ptr", "to_ptr anew"}
  BY DEF GiveAddress, Takes
<1> QED  BY <1>2, <1>3, KeepsThese DEF GiveAddress, TakesArgument, ArgKinds

LEMMA MappedTaken ==
  ASSUME ParamsIInv, NEW kind \in Takes(Param), GiveMapped(kind)
  PROVE  TakesArgument(kind, "inner", "inner")
<1>1. kind \in {"nil", "converted", "struct by_ref"}
  BY DEF GiveMapped, Takes
<1> QED  BY <1>1 DEF GiveMapped, TakesArgument, ArgKinds

LEMMA FunctionTaken ==
  ASSUME ParamsIInv, NEW kind \in Takes(Param), GiveFunction(kind)
  PROVE  \/ TakesBlock
         \/ /\ ~callbackProc
            /\ TakesArgument(kind, IF kind = "function" THEN "itself" ELSE "inner", "itself")
<1>1. CASE callbackProc
  BY <1>1 DEF GiveFunction, TakesBlock
<1>2. CASE ~callbackProc
  <2>1. argidx \in Arg /\ argidx # BlockArg /\ argidx \in Nat
    BY <1>2, ArgumentThere DEF GiveFunction, Give, ParamsIInv, ParamsTyped
  <2>2. slot' = [slot EXCEPT ![argidx] = "itself"]
    BY <2>1 DEF GiveFunction, ParamsIInv, ParamsTyped, Unread
  <2>3. kind \in {"nil", "function", "proc"}
    BY DEF GiveFunction, Takes
  <2> QED  BY <1>2, <2>2, <2>3, KeepsThese DEF GiveFunction, TakesArgument, ArgKinds
<1> QED  BY <1>1, <1>2

LEMMA MappedFunctionTaken ==
  ASSUME ParamsIInv, NEW kind \in Takes(Param), GiveMappedFunction(kind)
  PROVE  TakesBlock \/ (~callbackProc /\ TakesArgument(kind, "inner", "inner"))
<1>1. CASE callbackProc
  BY <1>1 DEF GiveMappedFunction, TakesBlock
<1>2. CASE ~callbackProc
  <2>1. kind = "converted"
    BY DEF GiveMappedFunction, Takes
  <2> QED  BY <1>2, <2>1 DEF GiveMappedFunction, TakesArgument, ArgKinds
<1> QED  BY <1>1, <1>2

(* What the indices are after one parameter more.                            *)
LEMMA CallbacksKept ==
  params' = params => Callbacks' = Callbacks /\ CallbackParameters' = CallbackParameters
BY DEF Callbacks, CallbackParameters

(* A conversion keeps the types and the arity, and counts its parameter.     *)
LEMMA TakenTyped ==
  ASSUME ParamsIInv, NEW kind, NEW piece, NEW kept,
         TakesArgument(kind, piece, kept) \/ TakesBlock,
         closureOf' \in Seq([param : Nat, type : Nat]), cbidx' \in Nat \ {0}
  PROVE  ParamsTyped' /\ Arity' /\ Len(given') = Len(given) + 1
<1>1. ParamsTyped /\ Arity
  BY DEF ParamsIInv
<1>2. phase = "converting" /\ Len(given) < Len(params)
  BY DEF TakesArgument, TakesBlock, Give
<1>3. PICK a \in Arg, k \in ArgKinds, x \in Object \cup {Nothing} :
        args' = [args EXCEPT ![a] = k] /\ given' = Append(given, x)
  <2>1. CASE TakesArgument(kind, piece, kept)
    <3>1. argidx \in Arg
      BY <1>2, <2>1, ArgumentThere DEF TakesArgument
    <3>2. (IF kind = "nil" \/ piece = "none" THEN Nothing ELSE [arg |-> argidx, part |-> piece])
            \in Object \cup {Nothing}
      BY <2>1, <3>1 DEF TakesArgument, Object
    <3> QED  BY <2>1, <3>1, <3>2 DEF TakesArgument, Give
  <2>2. CASE TakesBlock
    <3>1. [arg |-> BlockArg, part |-> "inner"] \in Object /\ "proc" \in ArgKinds
      BY BlockArgument DEF Object, ArgKinds
    <3> QED  BY <2>2, <3>1, BlockArgument DEF TakesBlock, Give
  <2> QED  BY <2>1, <2>2
<1>4. UNCHANGED <<params, variadic, argc, block, phase, callbackProc, swept>>
  BY DEF TakesArgument, TakesBlock, Give, inputs
<1>5. slot' \in [Arg -> {"itself", "inner"}]
  BY <1>1 DEF TakesArgument, TakesBlock, ParamsTyped
<1>10. argidx' \in Nat \ {0}
  <2>1. argidx' = argidx + 1 \/ argidx' = argidx
    BY DEF TakesArgument, TakesBlock
  <2> QED  BY <1>1, <2>1 DEF ParamsTyped
<1>6. args' \in [Arg -> ArgKinds]
  BY <1>1, <1>3 DEF ParamsTyped
<1>7. given' \in Seq(Object \cup {Nothing}) /\ Len(given') = Len(given) + 1
      /\ Len(given') <= Len(params')
  BY <1>1, <1>2, <1>3, <1>4 DEF ParamsTyped
<1>8. ParamsTyped'
  BY <1>1, <1>4, <1>5, <1>10, <1>6, <1>7 DEF ParamsTyped
<1>9. Arity'
  BY <1>1, <1>2, <1>4, CallbacksKept DEF Arity
<1> QED  BY <1>7, <1>8, <1>9

(* A parameter that is no function leaves callbackParameters as it was.      *)
LEMMA PlainIndices ==
  ASSUME ParamsIInv, phase = "converting", Len(given) < Len(params), Param # "function",
         Len(given') = Len(given) + 1, argidx' = argidx + 1,
         UNCHANGED <<params, callbackProc, closureOf, cbidx>>
  PROVE  Indices'
<1> DEFINE g == Len(given)
<1>1. /\ g \in Nat /\ Callbacks[g + 1] = Callbacks[g] /\ Len(Callbacks[g]) \in Nat
      /\ argidx \in Nat /\ cbidx \in Nat /\ Callbacks' = Callbacks
  BY NextCallback, CallbacksKept DEF ParamsIInv, ParamsTyped
<1>2. ByBlock' = ByBlock /\ ByBlock \in Nat
  BY <1>1 DEF ByBlock
<1>3. PlainFunctions' <=> PlainFunctions
  BY DEF PlainFunctions
<1>4. Indices
  BY DEF ParamsIInv
<1>5. Callbacks'[Len(given')] = Callbacks[g]
  BY <1>1
<1> QED  BY <1>1, <1>2, <1>3, <1>4, <1>5 DEF Indices

(* A callback takes the next entry of callbackParameters: its own.           *)
LEMMA FunctionIndices ==
  ASSUME ParamsIInv, NEW kind \in Takes(Param), GiveFunction(kind), Len(given') = Len(given) + 1
  PROVE  /\ Indices'
         /\ closureOf' \in Seq([param : Nat, type : Nat]) /\ cbidx' \in Nat \ {0}
<1> DEFINE g == Len(given)
           c == Len(Callbacks[g])
           t == IF kind \in {"nil", "function"} /\ ~callbackProc THEN g + 1 ELSE CallbackType
<1>1. /\ phase = "converting" /\ g < Len(params) /\ Param = "function"
      /\ UNCHANGED <<params, callbackProc>> /\ cbidx' = cbidx + 1
  BY DEF GiveFunction, Give, inputs
<1>2. /\ g \in Nat /\ c \in Nat /\ Len(Callbacks[g + 1]) = c + 1
      /\ c + 1 \in DOMAIN CallbackParameters /\ CallbackParameters[c + 1] = g + 1
      /\ CallbackParameters \in Seq(Nat)
      /\ argidx \in Nat /\ cbidx \in Nat /\ Callbacks' = Callbacks
      /\ closureOf \in Seq([param : Nat, type : Nat])
  BY <1>1, NextCallback, CallbacksKept DEF ParamsIInv, ParamsTyped
<1>3. Indices
  BY DEF ParamsIInv
<1>4. closureOf' = Append(closureOf, [param |-> g + 1, type |-> t])
  BY DEF GiveFunction, AddClosure
<1>5. PlainFunctions => t = g + 1
  BY <1>2, <1>3 DEF Indices, CallbackType
<1>6. t \in Nat
  <2>1. CallbackType \in Nat
    BY <1>2 DEF CallbackType
  <2> QED  BY <1>2, <2>1
<1>7. argidx' = IF callbackProc THEN argidx ELSE argidx + 1
  BY DEF GiveFunction
<1>8. PlainFunctions' <=> PlainFunctions
  BY <1>1 DEF PlainFunctions
<1>9. /\ ByBlock = IF callbackProc THEN c ELSE 0
      /\ ByBlock' = IF callbackProc THEN c + 1 ELSE 0
  <2>1. Callbacks'[Len(given')] = Callbacks[g + 1]
    BY <1>2
  <2> QED  BY <1>1, <1>2, <2>1 DEF ByBlock
<1>10. Len(Callbacks'[Len(given')]) = c + 1
  BY <1>2
<1>11. closureOf' \in Seq([param : Nat, type : Nat])
  <2> HIDE DEF t
  <2>1. [param |-> g + 1, type |-> t] \in [param : Nat, type : Nat]
    BY <1>2, <1>6
  <2> QED  BY <1>2, <1>4, <2>1
<1>12. ASSUME PlainFunctions PROVE \A i \in DOMAIN closureOf' : closureOf'[i].type = closureOf'[i].param
  <2> HIDE DEF t
  <2> DEFINE e == [param |-> g + 1, type |-> t]
  <2>1. e.type = e.param
    BY <1>5, <1>12
  <2>2. \A i \in DOMAIN closureOf : closureOf[i].type = closureOf[i].param
    BY <1>3, <1>12 DEF Indices
  <2>3. closureOf' = Append(closureOf, e)
    BY <1>4
  <2> HIDE DEF e
  <2>4. ASSUME NEW i \in DOMAIN closureOf' PROVE closureOf'[i] = e \/ (i \in DOMAIN closureOf /\ closureOf'[i] = closureOf[i])
    BY <1>2, <2>3, <2>4
  <2> QED  BY <2>1, <2>2, <2>4
<1> HIDE DEF g, c, t
<1>13. /\ argidx' <= Len(given') + 1 - ByBlock'
       /\ cbidx' <= Len(given') + 1
       /\ PlainFunctions => argidx' = Len(given') + 1 - ByBlock' /\ cbidx' = c + 2
  <2>1. /\ argidx <= g + 1 - ByBlock /\ cbidx <= g + 1
        /\ PlainFunctions => argidx = g + 1 - ByBlock /\ cbidx = c + 1
    BY <1>3 DEF Indices, g, c
  <2>2. Len(given') = g + 1
    BY DEF g
  <2>3. g \in Nat /\ c \in Nat /\ argidx \in Nat /\ cbidx \in Nat
    BY <1>2
  <2>4. cbidx' = cbidx + 1
    BY <1>1
  <2>5. CASE callbackProc
    BY <1>7, <1>9, <2>1, <2>2, <2>3, <2>4, <2>5
  <2>6. CASE ~callbackProc
    BY <1>7, <1>9, <2>1, <2>2, <2>3, <2>4, <2>6
  <2> QED  BY <2>5, <2>6
<1>14. c + 2 = (c + 1) + 1
  BY <1>2
<1>15. Indices'
  BY <1>8, <1>10, <1>12, <1>13, <1>14 DEF Indices
<1>16. cbidx' \in Nat \ {0}
  BY <1>1, <1>2
<1> QED  BY <1>11, <1>15, <1>16

(* One that is mapped takes an entry that is not its own; the indices stay   *)
(* in bounds.                                                                *)
LEMMA MappedFunctionIndices ==
  ASSUME ParamsIInv, NEW kind \in Takes(Param), GiveMappedFunction(kind), Len(given') = Len(given) + 1
  PROVE  /\ Indices'
         /\ closureOf' \in Seq([param : Nat, type : Nat]) /\ cbidx' \in Nat \ {0}
<1> DEFINE g == Len(given)
           t == IF kind \in {"nil", "function"} /\ ~callbackProc THEN g + 1 ELSE CallbackType
<1>1. /\ phase = "converting" /\ g < Len(params) /\ Param = "mapped function"
      /\ UNCHANGED <<params, callbackProc>> /\ cbidx' = cbidx + 1
  BY DEF GiveMappedFunction, Give, inputs
<1>2. /\ g \in Nat /\ Callbacks[g + 1] = Callbacks[g] /\ Len(Callbacks[g]) \in Nat
      /\ g + 1 \in DOMAIN params
      /\ CallbackParameters \in Seq(Nat)
      /\ argidx \in Nat /\ cbidx \in Nat /\ Callbacks' = Callbacks
      /\ closureOf \in Seq([param : Nat, type : Nat])
  BY <1>1, NextCallback, CallbacksKept DEF ParamsIInv, ParamsTyped
<1>3. ~PlainFunctions'
  BY <1>1, <1>2 DEF PlainFunctions, Param
<1>4. closureOf' = Append(closureOf, [param |-> g + 1, type |-> t])
  BY DEF GiveMappedFunction, AddClosure
<1>5. t \in Nat
  <2>1. CallbackType \in Nat
    BY <1>2 DEF CallbackType
  <2> QED  BY <1>2, <2>1
<1>6. closureOf' \in Seq([param : Nat, type : Nat])
  <2> HIDE DEF t
  <2>1. [param |-> g + 1, type |-> t] \in [param : Nat, type : Nat]
    BY <1>2, <1>5
  <2> QED  BY <1>2, <1>4, <2>1
<1>7. argidx' = argidx \/ argidx' = argidx + 1
  BY DEF GiveMappedFunction
<1>8. ByBlock' = ByBlock /\ ByBlock \in Nat
  BY <1>1, <1>2 DEF ByBlock
<1>9. argidx <= g + 1 - ByBlock /\ cbidx <= g + 1
  BY DEF ParamsIInv, Indices
<1>10. argidx' <= Len(given') + 1 - ByBlock' /\ cbidx' <= Len(given') + 1
  <2>1. Len(given') = g + 1
    OBVIOUS
  <2>2. g \in Nat /\ argidx \in Nat /\ cbidx \in Nat
    BY <1>2
  <2>3. cbidx' = cbidx + 1
    BY <1>1
  <2> HIDE DEF g, t
  <2> QED  BY <1>7, <1>8, <1>9, <2>1, <2>2, <2>3
<1>11. Indices'
  BY <1>3, <1>10 DEF Indices
<1>12. cbidx' \in Nat \ {0}
  <2>1. cbidx \in Nat /\ cbidx' = cbidx + 1
    BY <1>1, <1>2
  <2> QED  BY <2>1
<1> QED  BY <1>6, <1>11, <1>12

(* So every conversion preserves the invariant.                              *)
LEMMA ConversionInv ==
  ASSUME ParamsIInv, NEW kind \in Takes(Param),
         \/ GiveNumber(kind) \/ GiveString(kind) \/ GiveAddress(kind)
         \/ GiveMapped(kind) \/ GiveFunction(kind) \/ GiveMappedFunction(kind)
  PROVE  ParamsIInv'
<1>1. PICK piece, kept : TakesArgument(kind, piece, kept) \/ TakesBlock
  <2>1. CASE GiveNumber(kind)
    BY <2>1, NumberTaken
  <2>2. CASE GiveString(kind)
    BY <2>2, StringTaken
  <2>3. CASE GiveAddress(kind)
    BY <2>3, AddressTaken
  <2>4. CASE GiveMapped(kind)
    BY <2>4, MappedTaken
  <2>5. CASE GiveFunction(kind)
    BY <2>5, FunctionTaken
  <2>6. CASE GiveMappedFunction(kind)
    BY <2>6, MappedFunctionTaken
  <2> QED  BY <2>1, <2>2, <2>3, <2>4, <2>5, <2>6
<1>2. phase = "converting" /\ Len(given) < Len(params) /\ UNCHANGED <<params, callbackProc>>
      /\ Len(given') = Len(given) + 1
  <2>1. \E x : given' = Append(given, x)
    BY <1>1 DEF TakesArgument, TakesBlock, Give
  <2>2. given \in Seq(Object \cup {Nothing})
    BY DEF ParamsIInv, ParamsTyped
  <2>3. Len(given') = Len(given) + 1
    BY <2>1, <2>2
  <2> QED  BY <1>1, <2>3 DEF TakesArgument, TakesBlock, Give, inputs
<1>3. Unread' /\ GivenHeld'
  BY <1>1, ArgumentHeld, BlockHeld
<1>4. Indices' /\ closureOf' \in Seq([param : Nat, type : Nat]) /\ cbidx' \in Nat \ {0}
  <2>1. CASE GiveFunction(kind)
    BY <1>2, <2>1, FunctionIndices
  <2>2. CASE GiveMappedFunction(kind)
    BY <1>2, <2>2, MappedFunctionIndices
  <2>3. CASE GiveNumber(kind) \/ GiveString(kind) \/ GiveAddress(kind) \/ GiveMapped(kind)
    <3>1. argidx' = argidx + 1 /\ UNCHANGED <<closureOf, cbidx>> /\ Param # "function"
      BY <2>3 DEF GiveNumber, GiveString, GiveAddress, GiveMapped
    <3> QED  BY <1>2, <3>1, PlainIndices DEF ParamsIInv, ParamsTyped
  <2> QED  BY <2>1, <2>2, <2>3
<1>5. ParamsTyped' /\ Arity'
  BY <1>1, <1>4, TakenTyped
<1> QED  BY <1>3, <1>4, <1>5 DEF ParamsIInv

(* The other steps: the arity check lets arguments in, the collector takes   *)
(* what nothing marks, and the rest moves the phase on.                      *)
LEMMA BeginParamsInv == ParamsIInv /\ BeginParams => ParamsIInv'
<1> SUFFICES ASSUME ParamsIInv, BeginParams PROVE ParamsIInv'
  OBVIOUS
<1>1. /\ phase = "before" /\ ~variadic /\ ~callbackProc /\ given = <<>>
      /\ phase' \in {"converting", "raised"}
      /\ UNCHANGED <<params, variadic, argc, block, args, slot, given, closureOf, argidx, cbidx, swept>>
      /\ \/ callbackProc' = FALSE /\ (phase' = "converting" => argc = Len(params))
         \/ /\ callbackProc' = TRUE
            /\ argc = Len(params) - 1 /\ Len(CallbackParameters) = 1
  BY DEF BeginParams, ParamsIInv, Arity, ParamsTyped, inputs
<1>2. ParamsTyped'
  BY <1>1 DEF ParamsIInv, ParamsTyped
<1>3. Callbacks' = Callbacks /\ CallbackParameters' = CallbackParameters
  BY <1>1, CallbacksKept
<1>4. Arity'
  BY <1>1, <1>3 DEF ParamsIInv, Arity
<1>5. Indices'
  <2>1. Callbacks[0] = <<>> /\ Len(<<>>) = 0 /\ Len(given) = 0
    BY <1>1, CallbacksDef DEF ParamsIInv, ParamsTyped
  <2>2. ByBlock' = 0 /\ ByBlock = 0
    BY <1>1, <1>3, <2>1 DEF ByBlock
  <2> QED  BY <1>1, <1>3, <2>2 DEF ParamsIInv, Indices, PlainFunctions
<1>6. Unread'
  BY <1>1 DEF ParamsIInv, Unread
<1>7. args[BlockArg] # "proc"
  <2>1. args[BlockArg] = "proc" => callbackProc
    BY DEF ParamsIInv, GivenHeld, Held
  <2> QED  BY <1>1, <2>1
<1>8. GivenHeld'
  BY <1>1, <1>7 DEF ParamsIInv, GivenHeld
<1> QED  BY <1>2, <1>4, <1>5, <1>6, <1>8 DEF ParamsIInv

LEMMA PhaseInv ==
  ASSUME ParamsIInv, UNCHANGED <<inputs, args, slot, given, closureOf, locals, swept>>,
         \/ phase' = phase
         \/ phase = "before" /\ phase' \in {"converting", "raised"} /\ variadic
         \/ phase' \in {"native", "done", "raised"} /\ phase \in {"converting", "native"}
  PROVE  ParamsIInv'
<1>1. UNCHANGED <<params, variadic, argc, block, args, slot, given, closureOf,
                  argidx, cbidx, callbackProc, swept>>
  BY DEF inputs, locals
<1>2. ParamsTyped'
  BY <1>1 DEF ParamsIInv, ParamsTyped
<1>3. Callbacks' = Callbacks /\ CallbackParameters' = CallbackParameters
  BY <1>1, CallbacksKept
<1>4. Arity'
  BY <1>1, <1>3 DEF ParamsIInv, Arity
<1>5. Indices'
  BY <1>1, <1>3 DEF ParamsIInv, Indices, ByBlock, PlainFunctions
<1>6. Unread'
  BY <1>1 DEF ParamsIInv, Unread
<1>7. MarkedArgs' = MarkedArgs
  BY <1>1 DEF MarkedArgs, Rooted
<1>8. GivenHeld'
  BY <1>1, <1>7, Zenon DEF ParamsIInv, GivenHeld, Held
<1> QED  BY <1>2, <1>4, <1>5, <1>6, <1>8 DEF ParamsIInv

LEMMA SweepArgsInv == ParamsIInv /\ SweepArgs => ParamsIInv'
<1> SUFFICES ASSUME ParamsIInv, SweepArgs PROVE ParamsIInv'
  OBVIOUS
<1>1. /\ UNCHANGED <<params, variadic, argc, block, phase, args, slot, given, closureOf,
                     argidx, cbidx, callbackProc>>
      /\ swept' = swept \cup {o \in Object : args[o.arg] # "unknown" /\ o \notin MarkedArgs}
  BY DEF SweepArgs, inputs, locals
<1>2. ParamsTyped'
  BY <1>1 DEF ParamsIInv, ParamsTyped
<1>3. Callbacks' = Callbacks /\ CallbackParameters' = CallbackParameters
  BY <1>1, CallbacksKept
<1>4. Arity' /\ Unread'
  BY <1>1, <1>3 DEF ParamsIInv, Arity, Unread
<1>5. Indices'
  BY <1>1, <1>3 DEF ParamsIInv, Indices, ByBlock, PlainFunctions
<1>6. MarkedArgs' = MarkedArgs
  BY <1>1 DEF MarkedArgs, Rooted
<1>7. \A o : Held(o) => Held(o)'
  BY <1>1, <1>6 DEF Held
<1>8. GivenHeld'
  <2>1. \A i \in DOMAIN given' : given'[i] # Nothing => Held(given[i])'
    <3> SUFFICES ASSUME NEW i \in DOMAIN given, given[i] # Nothing PROVE Held(given[i])'
      BY <1>1
    <3>1. PICK p : given[i] = p
      OBVIOUS
    <3>2. Held(p)'
      BY <1>7, <3>1 DEF ParamsIInv, GivenHeld, Held
    <3>3. given'[i] = p
      BY <1>1, <3>1
    <3> QED  BY <3>2, <3>3 DEF Held
  <2>2. args'[BlockArg] = "proc" => Held([arg |-> BlockArg, part |-> "inner"])'
    <3>1. PICK p : p = [arg |-> BlockArg, part |-> "inner"]
      OBVIOUS
    <3>2. args[BlockArg] = "proc" => Held(p)
      BY <3>1 DEF ParamsIInv, GivenHeld
    <3> QED  BY <1>1, <1>7, <3>1, <3>2
  <2>3. \A o \in swept' : args'[o.arg] # "unknown"
    BY <1>1 DEF ParamsIInv, GivenHeld
  <2> QED  BY <1>1, <2>1, <2>2, <2>3 DEF GivenHeld
<1> QED  BY <1>2, <1>4, <1>5, <1>8 DEF ParamsIInv

LEMMA ParamsNextInv == ParamsIInv /\ [ParamsNext]_paramVars => ParamsIInv'
<1> SUFFICES ASSUME ParamsIInv, [ParamsNext]_paramVars PROVE ParamsIInv'
  OBVIOUS
<1>1. CASE BeginParams
  BY <1>1, BeginParamsInv
<1>2. CASE BeginVariadic
  BY <1>2, PhaseInv DEF BeginVariadic
<1>3. CASE ParamRaises
  BY <1>3, PhaseInv DEF ParamRaises
<1>4. CASE CallNative
  BY <1>4, PhaseInv DEF CallNative
<1>5. CASE FinishNative
  BY <1>5, PhaseInv DEF FinishNative
<1>6. CASE SweepArgs
  BY <1>6, SweepArgsInv
<1>7. CASE \E kind \in Takes(Param) :
             \/ GiveNumber(kind) \/ GiveString(kind) \/ GiveAddress(kind)
             \/ GiveMapped(kind) \/ GiveFunction(kind) \/ GiveMappedFunction(kind)
  BY <1>7, ConversionInv
<1>8. CASE UNCHANGED paramVars
  BY <1>8, PhaseInv DEF paramVars
<1> QED  BY <1>1, <1>2, <1>3, <1>4, <1>5, <1>6, <1>7, <1>8 DEF ParamsNext

THEOREM ParamsInvariant == ParamsSpec => []ParamsIInv
<1> QED  BY ParamsInitInv, ParamsNextInv, PTL DEF ParamsSpec

(* No conversion reads behind the arguments, and the locals stay in bounds.  *)
LEMMA ArgidxBound == ParamsIInv => argidx <= argc + 1 /\ cbidx <= BlockArg
<1> SUFFICES ASSUME ParamsIInv PROVE argidx <= argc + 1 /\ cbidx <= BlockArg
  OBVIOUS
<1> DEFINE g == Len(given)
           n == Len(params)
           c == Len(Callbacks[g])
<1>1. /\ g \in Nat /\ n \in Nat /\ g <= n /\ n <= MaxParams
      /\ argidx \in Nat /\ cbidx \in Nat /\ argc \in Nat
      /\ given \in Seq(Object \cup {Nothing}) /\ params \in Seq(ParamKind)
  BY BlockArgument DEF ParamsIInv, ParamsTyped
<1>2. argidx <= g + 1 - ByBlock /\ cbidx <= g + 1
  BY DEF ParamsIInv, Indices
<1>3. c \in Nat
  <2>1. g \in 0..n
    BY <1>1
  <2> HIDE DEF g
  <2> QED  BY <1>1, <2>1, CallbacksPrefix DEF n
<1>4. cbidx <= BlockArg
  <2> HIDE DEF g, n, c
  <2> QED  BY <1>1, <1>2, BlockArgument DEF BlockArg
<1>5. CASE ~callbackProc
  <2>1. ByBlock = 0 /\ (g = 0 \/ argc = n)
    BY <1>1, <1>5 DEF ByBlock, ParamsIInv, Arity
  <2> HIDE DEF g, n, c
  <2> QED  BY <1>1, <1>2, <1>4, <2>1
<1>6. CASE callbackProc
  <2>1. ByBlock = c /\ argc = n - 1 /\ Len(CallbackParameters) = 1
    BY <1>6 DEF ByBlock, ParamsIInv, Arity
  <2>2. g = n => c = 1
    BY <2>1 DEF CallbackParameters
  <2> HIDE DEF g, n, c
  <2> QED  BY <1>1, <1>2, <1>3, <1>4, <2>1, <2>2
<1> QED  BY <1>5, <1>6

LEMMA ParamTypesHold == ParamsIInv => ParamsTypeOK
<1> SUFFICES ASSUME ParamsIInv PROVE ParamsTypeOK
  OBVIOUS
<1>1. ParamsTyped /\ Indices
  BY DEF ParamsIInv
<1>2. params \in Seqs(ParamKind, MaxParams)
  <2>1. Len(params) \in 0..MaxParams /\ params \in [1..Len(params) -> ParamKind]
    BY <1>1, BlockArgument DEF ParamsTyped
  <2> QED  BY <2>1 DEF Seqs
<1>3. \A i \in DOMAIN given : given[i] \in Object \cup {Nothing}
  BY <1>1 DEF ParamsTyped
<1>4. argidx <= argc + 1 /\ cbidx <= BlockArg
  BY ArgidxBound
<1>5. \A a \in Arg : slot[a] \in {"itself", "inner"}
  BY <1>1 DEF ParamsTyped
<1> QED  BY <1>1, <1>2, <1>3, <1>4, <1>5 DEF ParamsTyped, ParamsTypeOK

(* The types of a call's state. *)
THEOREM CallStateTyped == ParamsSpec => []ParamsTypeOK
BY ParamTypesHold, ParamsInvariant, PTL

(* While native code runs, the collector has not taken what it was given.    *)
THEOREM WhatNativeReaches == ParamsSpec => []NativeReachesLive
<1>1. ParamsIInv => NativeReachesLive
  <2> SUFFICES ASSUME ParamsIInv, NEW i \in DOMAIN given, given[i] # Nothing
               PROVE  LET a == given[i].arg
                      IN  /\ given[i] \in swept => args[a] = "to_ptr anew"
                          /\ args[a] = "struct" => [arg |-> a, part |-> "pointee"] \notin swept
    BY DEF NativeReachesLive
  <2> QED  BY DEF ParamsIInv, GivenHeld, Held
<1> QED  BY <1>1, ParamsInvariant, PTL

\* Native code is called with every parameter
ParamsNative == ParamsIInv /\ (phase \in {"native", "done"} => Len(given) = Len(params))

LEMMA NativeHasAll == ParamsSpec => []ParamsNative
<1>1. ParamsInit => ParamsNative
  BY ParamsInitInv DEF ParamsInit, ParamsNative
<1>2. ParamsNative /\ [ParamsNext]_paramVars => ParamsNative'
  <2> SUFFICES ASSUME ParamsNative, [ParamsNext]_paramVars
               PROVE  phase' \in {"native", "done"} => Len(given') = Len(params')
    BY ParamsNextInv DEF ParamsNative
  <2>1. phase \in {"native", "done"} => Len(given) = Len(params)
    BY DEF ParamsNative
  <2>2. CASE CallNative
    BY <2>2 DEF CallNative, inputs
  <2>3. CASE FinishNative \/ SweepArgs \/ UNCHANGED paramVars
    BY <2>1, <2>3 DEF FinishNative, SweepArgs, paramVars, inputs
  <2>4. CASE BeginParams \/ BeginVariadic \/ ParamRaises
    BY <2>4 DEF BeginParams, BeginVariadic, ParamRaises
  <2>5. CASE \E kind \in Takes(Param) :
               \/ GiveNumber(kind) \/ GiveString(kind) \/ GiveAddress(kind)
               \/ GiveMapped(kind) \/ GiveFunction(kind) \/ GiveMappedFunction(kind)
    <3>1. phase' = phase /\ phase = "converting"
      BY <2>5 DEF GiveNumber, GiveString, GiveAddress, GiveMapped, GiveFunction,
                  GiveMappedFunction, Give
    <3> QED  BY <3>1
  <2> QED  BY <2>2, <2>3, <2>4, <2>5 DEF ParamsNext
<1> QED  BY <1>1, <1>2, PTL DEF ParamsSpec

(* A callback runs with its own parameter's function type, and a block moves *)
(* no other argument; where no mapped type lies over a function type.        *)
THEOREM CallbacksOfTheirType == ParamsSpec => []CallbacksTyped
<1>1. ParamsNative => CallbacksTyped
  <2> SUFFICES ASSUME ParamsNative, PlainFunctions
               PROVE  /\ \A i \in DOMAIN closureOf : closureOf[i].type = closureOf[i].param
                      /\ phase = "native" => argidx = argc + 1
    BY DEF CallbacksTyped, PlainFunctions
  <2>1. ParamsIInv
    BY DEF ParamsNative
  <2>2. \A i \in DOMAIN closureOf : closureOf[i].type = closureOf[i].param
    BY <2>1 DEF ParamsIInv, Indices
  <2>3. ASSUME phase = "native" PROVE argidx = argc + 1
    <3> DEFINE n == Len(params)
    <3>1. n \in Nat /\ Len(given) = n
      BY <2>1, <2>3 DEF ParamsNative, ParamsIInv, ParamsTyped
    <3>2. argidx = n + 1 - ByBlock
      BY <2>1, <3>1 DEF ParamsIInv, Indices
    <3>3. CASE ~callbackProc
      BY <2>1, <2>3, <3>1, <3>2, <3>3 DEF ParamsIInv, Arity, ByBlock
    <3>4. CASE callbackProc
      <4>1. ByBlock = Len(CallbackParameters)
        BY <3>1, <3>4 DEF ByBlock, CallbackParameters
      <4>2. argc = n - 1 /\ Len(CallbackParameters) = 1
        BY <2>1, <3>4 DEF ParamsIInv, Arity
      <4> HIDE DEF n
      <4> QED  BY <3>1, <3>2, <4>1, <4>2
    <3> QED  BY <3>3, <3>4
  <2> QED  BY <2>2, <2>3
<1> QED  BY <1>1, NativeHasAll, PTL

-----------------------------------------------------------------------------
(* All of them side by side. *)

DeclarationsIInv == LayoutIInv /\ EnumIInv /\ LInv /\ ParamsIInv

LEMMA LibTypesHold == LInv => LibTypeOK
<1> SUFFICES ASSUME LInv PROVE LibTypeOK
  OBVIOUS
<1>1. ToSet(ffiLibs) \subseteq Dl
  BY DEF LInv, ToSet
<1>2. symHeld \subseteq Symbols /\ dlHeld \subseteq Dl
  BY DEF LInv, Backed, Open
<1> QED  BY <1>1, <1>2 DEF LInv, LibTypeOK

(* The types of the four parts.                                              *)
THEOREM DeclarationsTyped == Spec => []TypeOK
<1>1. Init => DeclarationsIInv
  BY LayoutInitInv, EnumInitInv, LibInitInv, ParamsInitInv DEF Init, DeclarationsIInv
<1>2. DeclarationsIInv /\ [Next]_vars => DeclarationsIInv'
  <2> SUFFICES ASSUME DeclarationsIInv, [Next]_vars PROVE DeclarationsIInv'
    OBVIOUS
  <2>1. /\ LayoutNext \/ UNCHANGED layoutVars
        /\ EnumNext \/ UNCHANGED enumVars
        /\ LibNext \/ UNCHANGED libVars
        /\ ParamsNext \/ UNCHANGED paramVars
    BY DEF Next, vars
  <2> QED  BY <2>1, LayoutNextInv, EnumNextInv, LibNextInv, ParamsNextInv DEF DeclarationsIInv
<1>3. DeclarationsIInv => TypeOK
  BY LayoutTypesHold, EnumTypesHold, LibTypesHold, ParamTypesHold DEF DeclarationsIInv, TypeOK
<1> QED  BY <1>1, <1>2, <1>3, PTL DEF Spec
=============================================================================
