------------------------------ MODULE EnumTypes ------------------------------
(***************************************************************************)
(* FFI::Enum and FFI::Bitmask: how the list of symbols and integers that   *)
(* declares one gives the symbols their values, and the conversions of both*)
(* (lib/ffi/enum.rb).                                                      *)
(*                                                                         *)
(* A declaration is read one item per step.  Integers are Ruby's, without a*)
(* width; the native type has one, and may be signed.                      *)
(***************************************************************************)
EXTENDS Integers, Sequences, SequencesExt

CONSTANTS
  Symbol,      \* names of constants
  Given,       \* integers a declaration may contain
  NativeTypes, \* [bits, signed, listed]: the width, whether C's type is signed, and
               \* whether it is one of INT8 to INT64, which alone make @signed true
               \* (Type::LONG is another type, signed and not listed)
  MaxItems,    \* bound: items of a declaration
  MaxBit,      \* bound: the highest bit of an integer, which every value stays below
  NoSymbol

ASSUME EnumAssumption ==
  /\ Given \subseteq Int /\ MaxItems \in Nat
  /\ MaxBit \in Nat /\ \A n \in Given \cup {0} : n + MaxItems <= MaxBit
  /\ NoSymbol \notin Symbol /\ \A s \in Symbol : s \notin Int
  /\ \A t \in NativeTypes : /\ t.bits \in 1..MaxBit /\ t.signed \in BOOLEAN
                             /\ t.listed \in BOOLEAN /\ (t.listed => t.signed)

VARIABLES
  isBitmask,  \* the class is Bitmask
  native,     \* @native_type, and with it @signed (native.listed)
  kvMap,      \* @kv_map, in the order of insertion: a sequence of [key, val]
  nextValue,  \* the local variable value
  lastCst,    \* the local variable last_cst
  items       \* items read

enumVars == <<isBitmask, native, kvMap, nextValue, lastCst, items>>

EnumInit ==
  /\ isBitmask \in BOOLEAN /\ native \in NativeTypes
  /\ kvMap = <<>> /\ nextValue = 0 /\ lastCst = NoSymbol /\ items = 0

Keys == {kvMap[i].key : i \in DOMAIN kvMap}
ValueOf(s) == (CHOOSE e \in ToSet(kvMap) : e.key = s).val

\* 1 << n
Pow2[n \in 0..(MaxBit + 1)] == IF n = 0 THEN 1 ELSE 2 * Pow2[n - 1]
Meaning(n) == IF isBitmask THEN Pow2[n] ELSE n

-----------------------------------------------------------------------------
\* A symbol takes the next value; a second time it raises
ReadSymbol(s) ==
  /\ items < MaxItems /\ s \notin Keys
  /\ kvMap' = Append(kvMap, [key |-> s, val |-> Meaning(nextValue)])
  /\ lastCst' = s /\ nextValue' = nextValue + 1 /\ items' = items + 1
  /\ UNCHANGED <<isBitmask, native>>

\* An integer replaces the value of the symbol before it; Bitmask raises for a
\* negative one.  A list begins with a symbol.
ReadInteger(n) ==
  /\ items < MaxItems /\ lastCst # NoSymbol /\ (isBitmask => n >= 0)
  /\ kvMap' = [i \in DOMAIN kvMap |->
                 IF kvMap[i].key = lastCst THEN [kvMap[i] EXCEPT !.val = Meaning(n)] ELSE kvMap[i]]
  /\ nextValue' = n + 1 /\ items' = items + 1
  /\ UNCHANGED <<isBitmask, native, lastCst>>

EnumNext == (\E s \in Symbol : ReadSymbol(s)) \/ (\E n \in Given : ReadInteger(n))

EnumSpec == EnumInit /\ [][EnumNext]_enumVars

-----------------------------------------------------------------------------
(* Enum *)

\* to_native and from_native, through @vk_map, the inverse of @kv_map: of synonyms
\* the last one inserted
EnumToNative(x) == IF x \in Symbol THEN ValueOf(x) ELSE x

\* Mutation of EnumFromNative: the position in the list is taken for the value
EnumFromNativeByPosition(n) == IF n + 1 \in DOMAIN kvMap THEN kvMap[n + 1].key ELSE n
EnumFromNative(n) ==
  LET i == SelectLastInSeq(kvMap, LAMBDA e : e.val = n)
  IN  IF i = 0 THEN n ELSE kvMap[i].key

-----------------------------------------------------------------------------
(* Bitmask *)

\* The bits of an integer, of a negative one in two's complement, and the integer
\* that has the bits of B
Bits(n) == {i \in 0..MaxBit : (n \div Pow2[i]) % 2 = 1}
OfBits(B) ==
  LET below[i \in 0..(MaxBit + 1)] ==
        IF i = 0 THEN 0 ELSE below[i - 1] + IF i - 1 \in B THEN Pow2[i - 1] ELSE 0
  IN  below[MaxBit + 1]

\* The integer of Ruby with these bits, and with all the higher ones if it is negative
RubyInteger(B, negative) == OfBits(B) - IF negative THEN Pow2[MaxBit + 1] ELSE 0

\* What a C value of the native type can be
InRange(n) ==
  IF native.signed THEN n \in -Pow2[native.bits - 1]..(Pow2[native.bits - 1] - 1)
                   ELSE n \in 0..(Pow2[native.bits] - 1)
NativeValues == {n \in -Pow2[native.bits]..Pow2[native.bits] : InRange(n)}

\* Mutation of BitmaskToNative: no value is negative
BitmaskToNativeUnsigned(flags, rest) ==
  RubyInteger((UNION {Bits(ValueOf(s)) : s \in flags}) \cup Bits(rest), rest < 0)

\* to_native of a list of symbols and an integer: the | of them; with the sign bit
\* set, the result for a listed type is the negative number that has these bits
BitmaskToNative(flags, rest) ==
  LET res == RubyInteger((UNION {Bits(ValueOf(s)) : s \in flags}) \cup Bits(rest), rest < 0)
  IN  IF native.listed /\ res >= Pow2[native.bits - 1] THEN -((-res) % Pow2[native.bits]) ELSE res

\* from_native: the symbols with a bit in val, and what the symbols leave of it
FlagsIn(n) == {s \in Keys : Bits(ValueOf(s)) \cap Bits(n) # {}}
Remainder(n) ==
  LET val == IF native.listed THEN Bits(n) \cap 0..(native.bits - 1) ELSE Bits(n)
      named == UNION {Bits(ValueOf(s)) : s \in FlagsIn(n)}
  IN  RubyInteger((val \ named) \cup (named \ val), ~native.listed /\ n < 0)

-----------------------------------------------------------------------------
\* Type invariant
EnumTypeOK ==
  /\ isBitmask \in BOOLEAN /\ native \in NativeTypes
  /\ \A i \in DOMAIN kvMap : kvMap[i].key \in Symbol /\ kvMap[i].val \in Int
  /\ nextValue \in Int /\ lastCst \in Symbol \cup {NoSymbol} /\ items \in 0..MaxItems

\* What C gives comes back to C unchanged through whatever Ruby made of it, and a
\* symbol comes back as itself or a synonym (Enum#to_native, from_native).
EnumsInvert ==
  ~isBitmask =>
    /\ \A n \in NativeValues : EnumToNative(EnumFromNative(n)) = n
    /\ \A s \in Keys : EnumToNative(EnumFromNative(EnumToNative(s))) = EnumToNative(s)

\* The same of a bitmask: every native value, with the sign bit set and with bits
\* that have no name, becomes a list that gives the value again.  Flags that the
\* type has room for become a value of the type, unless it is signed and not
\* listed (Type::LONG: the flag of its sign bit is too large for the call); and as
\* a value of the type they come back with their synonyms and no others, with no
\* remainder (Bitmask#to_native, from_native).
BitmasksInvert ==
  isBitmask =>
    /\ \A n \in NativeValues : BitmaskToNative(FlagsIn(n), Remainder(n)) = n
    /\ \A flags \in SUBSET {s \in Keys : ValueOf(s) < Pow2[native.bits]} :
         LET n == BitmaskToNative(flags, 0)
             roomy == \A s \in Keys : ValueOf(s) < Pow2[native.bits]
         IN  /\ (native.signed => native.listed) => InRange(n)
             /\ roomy /\ InRange(n) =>
                  /\ FlagsIn(n) = {s \in Keys : \E f \in flags : ValueOf(f) = ValueOf(s)}
                  /\ Remainder(n) = 0

\* Nothing is lost between C and Ruby in either direction
ConversionsInvert == EnumsInvert /\ BitmasksInvert
=============================================================================
