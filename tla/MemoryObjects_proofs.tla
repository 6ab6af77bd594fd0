-------------------------- MODULE MemoryObjects_proofs --------------------------
(***************************************************************************)
(* For every width of long, every set of type sizes and every memory whose *)
(* size is not negative: the bounds check, though its sums wrap, accepts   *)
(* exactly what lies inside the memory, and no accessor that uses it       *)
(* leaves it; nor does the copy of a struct into a field.                  *)
(*                                                                         *)
(* For every set of objects, and whatever is made, viewed, copied, freed   *)
(* and collected: storage has one owner, is not collected under a view,    *)
(* and what an object reaches through accessors is its storage.            *)
(***************************************************************************)
EXTENDS MemoryObjects, TLAPS

Sizes == 0..LongMax

\* The offsets inside a memory
Within(s) == 0..(s - 1)

LEMMA LongFacts ==
  /\ LongMax \in Nat \ {0} /\ ValueSize \in Nat \ {0} /\ PtrSize \in Nat \ {0}
  /\ PtrSize <= LongMax /\ 2 * ValueSize <= LongMax
  /\ \A t \in TypeSizes : t \in Nat \ {0} /\ t <= 2 * ValueSize /\ t <= LongMax
BY LongAssumption, ValueAssumption, SizesAssumption, SMT

\* A sum or difference that has left the longs by less than a word is a long again
LEMMA WrapIsLong ==
  ASSUME NEW x \in Int, x >= -LongMax - 1 - Word, x <= LongMax + Word
  PROVE  Wrap(x) \in Long
BY LongFacts, SMT DEF Wrap, Long, Word

\* checkBounds accepts an access of len bytes at off exactly when it lies in the
\* memory, whatever wraps in its sums: the hazard at AbstractMemory.h:102.
THEOREM CheckBoundsExact ==
  ASSUME NEW size \in Sizes, NEW off \in Long, NEW len \in Long
  PROVE  InBounds(size, off, len) <=> Inside(size, off, len)
BY LongFacts, SMT DEF Sizes, Long, InBounds, Inside, Wrap, Word

LEMMA SpanInside ==
  ASSUME NEW size \in Sizes, NEW off \in Long, NEW len \in Long, InBounds(size, off, len)
  PROVE  /\ off \in Nat /\ len \in Nat /\ off + len <= size
         /\ Span(off, len) \subseteq Within(size)
<1>1. Inside(size, off, len)
  BY CheckBoundsExact
<1> QED
  BY <1>1, LongFacts, SMT DEF Inside, Span, Within, Sizes, Long

-----------------------------------------------------------------------------
(* One type, one string *)

LEMMA ScalarInside ==
  ASSUME NEW s \in Sizes, NEW t \in Int, 0 < t, t <= LongMax, NEW off \in Long
  PROVE  Scalar(s, t, off) \subseteq Within(s)
<1>1. t \in Long
  BY LongFacts, SMT DEF Long
<1>2. InBounds(s, off, t) => Span(off, t) \subseteq Within(s)
  BY <1>1, SpanInside
<1> QED
  BY <1>2 DEF Scalar

LEMMA BytesInside ==
  ASSUME NEW s \in Sizes, NEW off \in Long, NEW len \in Long
  PROVE  /\ GetString(s, off, len) \subseteq Within(s)
         /\ GetBytes(s, off, len) \subseteq Within(s)
         /\ GetStringToEnd(s, off) \subseteq Within(s)
<1>1. \A n \in Long : GetString(s, off, n) \subseteq Within(s)
  <2> TAKE n \in Long
  <2>1. InBounds(s, off, n) => Span(off, n) \subseteq Within(s)
    BY SpanInside
  <2> QED
    BY <2>1 DEF GetString
<1>2. Wrap(s - off) \in Long
  <2>1. /\ s - off \in Int
        /\ s - off >= -LongMax - 1 - Word
        /\ s - off <= LongMax + Word
    BY LongFacts, SMT DEF Sizes, Long, Word
  <2> QED
    BY <2>1, WrapIsLong
<1> QED
  BY <1>1, <1>2 DEF GetBytes, GetStringToEnd

LEMMA PutsInside ==
  ASSUME NEW s \in Sizes, NEW off \in Long, NEW n \in 0..(LongMax - 1), NEW i \in Long
  PROVE  /\ PutString(s, off, n) \subseteq Within(s)
         /\ \A len \in Long : PutBytes(s, off, n, i, len) \subseteq Within(s)
         /\ PutBytesToEnd(s, off, n, i) \subseteq Within(s)
<1>1. PutString(s, off, n) \subseteq Within(s)
  <2>1. n + 1 \in Long
    BY LongFacts, SMT DEF Long
  <2>2. InBounds(s, off, n + 1) => Span(off, n + 1) \subseteq Within(s)
    BY <2>1, SpanInside
  <2> QED
    BY <2>2 DEF PutString
<1>2. \A len \in Long : PutBytes(s, off, n, i, len) \subseteq Within(s)
  BY BytesInside DEF PutBytes
<1>3. PutBytesToEnd(s, off, n, i) \subseteq Within(s)
  <2>1. CASE i >= 0
    <3>1. n - i \in Long
      BY <2>1, LongFacts, SMT DEF Long
    <3> QED
      BY <3>1, <1>2 DEF PutBytesToEnd
  <2>2. CASE ~(i >= 0)
    BY <2>2 DEF PutBytesToEnd, PutBytes
  <2> QED
    BY <2>1, <2>2
<1> QED
  BY <1>1, <1>2, <1>3

-----------------------------------------------------------------------------
(* Arrays *)

\* A product below a word that is not negative as a long has not wrapped
LEMMA ProductUnwrapped ==
  ASSUME NEW x \in Nat, x <= 2 * LongMax, AsLong(x) >= 0
  PROVE  AsLong(x) = x /\ x \in Long
<1>1. x % Word = x
  BY LongFacts, SMT DEF Word
<1> QED
  BY <1>1, LongFacts, SMT DEF AsLong, Unsigned, Wrap, Word, Long

\* No array is long enough for the product to pass a whole word
LEMMA ProductBounded ==
  ASSUME NEW count \in ArrayLengths, NEW t \in Nat, t <= 2 * ValueSize
  PROVE  count * t \in Nat /\ count * t <= 2 * LongMax
<1> DEFINE q == LongMax \div ValueSize
<1>1. q \in Nat /\ q * ValueSize <= LongMax
  BY LongFacts, SMT
<1>2. count \in Nat /\ count <= q
  BY <1>1, SMT DEF ArrayLengths
<1> HIDE DEF q
<1>3. count * t \in Nat
  BY <1>2, SMT
<1>4. count * t <= count * (2 * ValueSize)
  BY <1>2, LongFacts, SMT
<1>5. count * (2 * ValueSize) <= q * (2 * ValueSize)
  BY <1>1, <1>2, LongFacts, SMT
<1>6. q * (2 * ValueSize) = 2 * (q * ValueSize)
  BY <1>1, LongFacts, SMT
<1> QED
  BY <1>1, <1>3, <1>4, <1>5, <1>6, <1>2, LongFacts, SMT

LEMMA ArrayInside ==
  ASSUME NEW s \in Sizes, NEW t \in Nat, t <= 2 * ValueSize,
         NEW off \in Long, NEW count \in Long
  PROVE  Array(s, t, off, count) \subseteq Within(s)
<1>1. SUFFICES ASSUME count \in ArrayLengths, InBounds(s, off, AsLong(count * t))
               PROVE  Span(off, count * t) \subseteq Within(s)
  BY DEF Array
<1>2. count * t \in Nat /\ count * t <= 2 * LongMax
  BY <1>1, ProductBounded
<1>3. AsLong(count * t) >= 0
  BY <1>1 DEF InBounds
<1>4. AsLong(count * t) = count * t /\ count * t \in Long
  BY <1>2, <1>3, ProductUnwrapped
<1> QED
  BY <1>1, <1>4, SpanInside

LEMMA StringsInside ==
  ASSUME NEW s \in Sizes, NEW off \in Long
  PROVE  GetStringsToNull(s, off) \subseteq Within(s)
<1>1. SUFFICES ASSUME InBounds(s, off, PtrSize),
                      NEW at \in off..(s - PtrSize - 1)
               PROVE  Span(at, PtrSize) \subseteq Within(s)
  BY DEF GetStringsToNull
<1>2. PtrSize \in Long
  BY LongFacts, SMT DEF Long
<1>3. off \in Nat
  BY <1>1, <1>2, SpanInside
<1> QED
  BY <1>1, <1>3, LongFacts, SMT DEF Span, Within, Sizes

\* Each pointer of the chain is made by a checked slice of the one before
LEMMA ChainInside ==
  ASSUME NEW s \in Sizes, NEW t \in TypeSizes, NEW n \in 1..LongMax
  PROVE  ReadArrayOfType(s, t, n) \subseteq Within(s)
<1>0. t \in Nat \ {0} /\ t <= LongMax
  BY LongFacts
<1>1. SUFFICES ASSUME NEW j \in 0..(n - 1),
                      \A i \in 1..j : InBounds(s - (i - 1) * t, t, s - i * t),
                      NEW b \in Scalar(s - j * t, t, 0)
               PROVE  j * t + b \in Within(s)
  BY DEF ReadArrayOfType
<1>2. j * t \in Nat
  BY <1>0, SMT
<1>3. s - j * t >= 0
  <2>1. CASE j = 0
    BY <2>1, <1>0, SMT DEF Sizes
  <2>2. CASE j # 0
    <3>1. j \in 1..j
      BY <2>2, SMT
    <3> QED
      BY <3>1, <1>1 DEF InBounds
  <2> QED
    BY <2>1, <2>2
<1>4. s - j * t \in Sizes /\ 0 \in Long
  BY <1>2, <1>3, LongFacts, SMT DEF Sizes, Long
<1>5. b \in Within(s - j * t)
  BY <1>0, <1>1, <1>4, ScalarInside
<1> HIDE DEF Within
<1>6. b \in 0..(s - j * t - 1)
  BY <1>5 DEF Within
<1> QED
  BY <1>2, <1>6, <1>4, SMT DEF Within, Sizes

LEMMA RowInside ==
  ASSUME NEW s \in Sizes, NEW t \in TypeSizes, NEW n \in 1..LongMax
  PROVE  WriteArrayOfType(s, t, n) \subseteq Within(s)
<1>0. t \in Nat \ {0} /\ t <= LongMax
  BY LongFacts
<1>1. SUFFICES ASSUME NEW i \in 0..(n - 1), i * t <= LongMax
               PROVE  Scalar(s, t, i * t) \subseteq Within(s)
  BY DEF WriteArrayOfType
<1>2. i * t \in Nat
  BY <1>0, SMT
<1>3. i * t \in Long
  BY <1>1, <1>2, LongFacts, SMT DEF Long
<1> QED
  BY <1>0, <1>3, ScalarInside

-----------------------------------------------------------------------------
(* Fields and inline arrays *)

LEMMA IntFacts ==
  /\ IntMax \in Nat \ {0} /\ IntMax <= LongMax
  /\ Ints \subseteq Long /\ UnsignedInts \subseteq Nat
<1>1. IntMax \in Nat \ {0} /\ IntMax <= LongMax
  BY IntAssumption, LongFacts, SMT
<1>2. Ints \subseteq Long /\ UnsignedInts \subseteq Nat
  BY <1>1, LongFacts, SMT DEF Ints, UnsignedInts, Long
<1> QED
  BY <1>1, <1>2

LEMMA Conversions ==
  ASSUME NEW x \in Int
  PROVE  AsInt(x) \in Ints /\ AsInt(x) \in Long /\ AsLong(x) \in Long
<1>1. (x + IntMax + 1) % (2 * IntMax + 2) \in 0..(2 * IntMax + 1)
  BY IntFacts, SMT
<1>2. x % Word \in 0..(Word - 1)
  BY LongFacts, SMT DEF Word
<1>3. AsLong(x) \in Long
  BY <1>2, LongFacts, SMT DEF AsLong, Unsigned, Wrap, Word, Long
<1>4. AsInt(x) \in Ints
  BY IntFacts, <1>1, SMT DEF AsInt, Ints
<1> QED
  BY <1>3, <1>4, IntFacts

LEMMA FieldInside ==
  ASSUME NEW s \in Sizes, NEW t \in TypeSizes \cup {PtrSize}, NEW off \in UnsignedInts
  PROVE  FieldAt(s, t, off) \subseteq Within(s)
<1>1. t \in Int /\ 0 < t /\ t <= LongMax
  BY LongFacts, SMT
<1>2. AsLong(off) \in Long
  BY IntFacts, Conversions
<1> QED
  BY <1>1, <1>2, ScalarInside DEF FieldAt

LEMMA ElementInside ==
  ASSUME NEW s \in Sizes, NEW a \in InlineArray, NEW i \in Int
  PROVE  Element(s, a, i) \subseteq Within(s)
<1>1. a.size \in Int /\ 0 < a.size /\ a.size <= LongMax /\ a.off \in Int
  <2>1. a.size \in 1..IntMax /\ a.off \in UnsignedInts
    BY DEF InlineArray
  <2>2. \A x \in 1..IntMax : x \in Int /\ 0 < x /\ x <= LongMax
    BY IntFacts, LongFacts, SMT
  <2>3. \A x \in UnsignedInts : x \in Int
    BY IntFacts, SMT
  <2> QED
    BY <2>1, <2>2, <2>3
<1>2. AsInt(a.off) + i * a.size \in Int
  <2>1. AsInt(a.off) \in Int
    BY <1>1, Conversions DEF Ints
  <2>2. i * a.size \in Int
    BY <1>1, SMT
  <2> QED
    BY <2>1, <2>2, SMT
<1>3. ElementOffsets(a, i) \subseteq Long
  BY <1>2, Conversions DEF ElementOffsets
<1>4. \A off \in ElementOffsets(a, i) : Scalar(s, a.size, off) \subseteq Within(s)
  BY <1>1, <1>3, ScalarInside
<1> QED
  BY <1>4 DEF Element

LEMMA CharsInside ==
  ASSUME NEW s \in Sizes, NEW a \in InlineArray
  PROVE  /\ CharsToS(s, a) \subseteq Within(s)
         /\ \A n \in 0..(LongMax - 1) : PutChars(s, a, n) \subseteq Within(s)
<1>1. SUFFICES ASSUME a.off <= LongMax
               PROVE  /\ GetString(s, a.off, a.length) \subseteq Within(s)
                      /\ \A n \in 0..(LongMax - 1) :
                           /\ PutString(s, a.off, n) \subseteq Within(s)
                           /\ PutBytesToEnd(s, a.off, n, 0) \subseteq Within(s)
  BY DEF CharsToS, PutChars
<1>2. a.off \in Long /\ a.length \in Long /\ 0 \in Long
  <2>1. a.off \in UnsignedInts /\ a.length \in 0..IntMax
    BY DEF InlineArray
  <2>2. \A x \in UnsignedInts : x <= LongMax => x \in Long
    BY IntFacts, LongFacts, SMT DEF Long
  <2>3. \A x \in 0..IntMax : x \in Long
    BY IntFacts, LongFacts, SMT DEF Long
  <2>4. 0 \in Long
    BY LongFacts, SMT DEF Long
  <2> QED
    BY <1>1, <2>1, <2>2, <2>3, <2>4
<1> QED
  BY <1>2, BytesInside, PutsInside

-----------------------------------------------------------------------------
LEMMA BothInside ==
  ASSUME NEW s \in Sizes
  PROVE  Both(s) \subseteq Within(s)
<1>1. \A t \in TypeSizes, off \in Long :
        Scalar(s, t, off) \subseteq Within(s) /\ ByType(s, t, off) \subseteq Within(s)
  BY LongFacts, ScalarInside DEF ByType
<1>2. \A t \in TypeSizes, off \in Long, n \in Long : Array(s, t, off, n) \subseteq Within(s)
  BY LongFacts, ArrayInside
<1>3. \A t \in TypeSizes \cup {PtrSize}, off \in UnsignedInts :
        FieldAt(s, t, off) \subseteq Within(s)
  BY FieldInside
<1>4. \A a \in InlineArray, i \in Ints : Element(s, a, i) \subseteq Within(s)
  BY ElementInside DEF Ints
<1> QED
  BY <1>1, <1>2, <1>3, <1>4 DEF Both

\* No accessor that checks its bounds reads outside a memory of a known size: numbers,
\* arrays whose byte count may wrap, strings, chains of pointers.
THEOREM ReadsInside ==
  ASSUME NEW s \in Sizes
  PROVE  Reads(s) \subseteq Within(s)
<1>1. \A off \in Long, n \in Long :
        /\ GetBytes(s, off, n) \subseteq Within(s)
        /\ GetStringToEnd(s, off) \subseteq Within(s)
  BY BytesInside
<1>2. \A off \in Long : GetStringToEnd(s, off) \cup GetStringsToNull(s, off) \subseteq Within(s)
  BY <1>1, StringsInside
<1>3. \A off \in Long, n \in Long : GetStrings(s, off, n) \subseteq Within(s)
  <2>1. PtrSize \in Nat /\ PtrSize <= 2 * ValueSize
    BY SizesAssumption, ValueAssumption, SMT
  <2> QED
    BY <2>1, ArrayInside DEF GetStrings
<1>4. \A t \in TypeSizes, n \in 1..LongMax : ReadArrayOfType(s, t, n) \subseteq Within(s)
  BY ChainInside
<1>5. Both(s) \subseteq Within(s)
  BY BothInside
<1>6. \A n \in Long : ReadStrings(s, n) \cup ReadBytes(s, n) \subseteq Within(s)
  <2>1. 0 \in Long
    BY LongFacts, SMT DEF Long
  <2> QED
    BY <2>1, <1>1, <1>3 DEF ReadStrings, ReadBytes
<1>7. \A a \in InlineArray : Elements(s, a) \cup CharsToS(s, a) \subseteq Within(s)
  <2>1. \A a \in InlineArray : \A i \in 0..(a.length - 1) : Element(s, a, i) \subseteq Within(s)
    BY ElementInside
  <2> QED
    BY <2>1, CharsInside DEF Elements
<1> QED
  BY <1>1, <1>2, <1>3, <1>4, <1>5, <1>6, <1>7 DEF Reads

\* Nor does one write outside it: with the terminators of strings, parts of strings,
\* and clear.
THEOREM WritesInside ==
  ASSUME NEW s \in Sizes
  PROVE  Writes(s) \subseteq Within(s)
<1>1. Clear(s) \subseteq Within(s)
  BY SMT DEF Clear, Span, Within, Sizes
<1>2. \A off \in Long, n \in 0..(LongMax - 1) : PutString(s, off, n) \subseteq Within(s)
  <2>1. 0 \in Long
    BY LongFacts, SMT DEF Long
  <2> QED
    BY <2>1, PutsInside
<1>3. \A off \in Long, i \in Long, n \in Long : PutBytes(s, off, LongMax - 1, i, n) \subseteq Within(s)
  <2>1. LongMax - 1 \in 0..(LongMax - 1)
    BY LongFacts, SMT
  <2> QED
    BY <2>1, PutsInside
<1>4. \A off \in Long, n \in 0..(LongMax - 1), i \in Long : PutBytesToEnd(s, off, n, i) \subseteq Within(s)
  BY PutsInside
<1>5. \A t \in TypeSizes, n \in 1..LongMax : WriteArrayOfType(s, t, n) \subseteq Within(s)
  BY RowInside
<1>6. Both(s) \subseteq Within(s)
  BY BothInside
<1>7. \A i \in Long, n \in Long : WriteBytes(s, LongMax - 1, i, n) \subseteq Within(s)
  <2>1. 0 \in Long
    BY LongFacts, SMT DEF Long
  <2> QED
    BY <2>1, <1>3 DEF WriteBytes
<1>8. \A a \in InlineArray, n \in 0..(LongMax - 1) : PutChars(s, a, n) \subseteq Within(s)
  BY CharsInside
<1> QED
  BY <1>1, <1>2, <1>3, <1>4, <1>5, <1>6, <1>7, <1>8 DEF Writes

\* __copy_from__ has no check of its own: an inner struct is copied to a slice, which
\* lies inside the memory, and from a memory as large as the struct (InnerStruct#put).
THEOREM CopiesInside ==
  ASSUME NEW s \in Sizes
  PROVE  Copies(s) \subseteq Within(s)
<1>1. ASSUME NEW off \in UnsignedInts, NEW n \in 0..IntMax
      PROVE  PutStruct(s, off, n) \subseteq Within(s)
  <2>1. CASE off <= LongMax /\ InBounds(s, off, n)
    <3>1. off \in Long /\ n \in Long
      BY <2>1, IntFacts, LongFacts, SMT DEF Long
    <3>2. off \in Nat /\ n \in Nat /\ off + n <= s
      BY <2>1, <3>1, SpanInside
    <3>3. \A b \in CopyFrom(n) : off + b \in Within(s)
      BY <3>2, SMT DEF CopyFrom, Span, Within, Sizes
    <3> QED
      BY <2>1, <3>3 DEF PutStruct
  <2>2. CASE ~(off <= LongMax /\ InBounds(s, off, n))
    BY <2>2 DEF PutStruct
  <2> QED
    BY <2>1, <2>2
<1>2. \A n \in 0..IntMax : n <= s => CopyFrom(n) \subseteq Within(s)
  BY IntFacts, LongFacts, SMT DEF CopyFrom, Span, Within, Sizes
<1> QED
  BY <1>1, <1>2 DEF Copies
-----------------------------------------------------------------------------
(* What the collector marks *)

Closed(M, S) == \A x \in S : M[x] \subseteq S

\* The least closed set that holds H
Closure(H, M) ==
  {o \in Obj : \A S \in SUBSET Obj : H \subseteq S /\ Closed(M, S) => o \in S}

\* Whoever marks o marks r in the end
Leads(M, o, r) == \A S \in SUBSET Obj : o \in S /\ Closed(M, S) => r \in S

MarkMap == [x \in Obj |-> Marks(x)]

LEMMA ClosureFacts ==
  ASSUME NEW H \in SUBSET Obj, NEW M \in [Obj -> SUBSET Obj]
  PROVE  /\ Closure(H, M) \in SUBSET Obj
         /\ H \subseteq Closure(H, M)
         /\ Closed(M, Closure(H, M))
         /\ \A S \in SUBSET Obj : H \subseteq S /\ Closed(M, S) => Closure(H, M) \subseteq S
<1>1. Closed(M, Closure(H, M))
  <2>1. SUFFICES ASSUME NEW x \in Closure(H, M), NEW y \in M[x],
                        NEW S \in SUBSET Obj, H \subseteq S, Closed(M, S)
                 PROVE  y \in S
    BY DEF Closed, Closure
  <2>2. x \in S
    BY <2>1 DEF Closure
  <2> QED
    BY <2>1, <2>2 DEF Closed
<1> QED
  BY <1>1 DEF Closure

\* Where the maps agree on a closed set, what leads somewhere still does
LEMMA LeadsKept ==
  ASSUME NEW M \in [Obj -> SUBSET Obj], NEW M2 \in [Obj -> SUBSET Obj],
         NEW K \in SUBSET Obj, Closed(M, K), \A x \in K : M2[x] = M[x],
         NEW o \in K, NEW r, Leads(M, o, r)
  PROVE  Leads(M2, o, r) /\ r \in K
<1>1. r \in K
  BY DEF Leads
<1>2. ASSUME NEW S \in SUBSET Obj, o \in S, Closed(M2, S)
      PROVE  r \in S
  <2>1. Closed(M, S \cap K)
    BY <1>2 DEF Closed
  <2> QED
    BY <1>2, <2>1 DEF Leads
<1> QED
  BY <1>1, <1>2 DEF Leads

LEMMA MarkedIsClosure ==
  /\ Marked = Closure(memHeld, MarkMap)
  /\ Marked' = Closure(memHeld', MarkMap')
<1>1. \A S \in SUBSET Obj : Closed(MarkMap, S) <=> \A x \in S : Marks(x) \subseteq S
  BY DEF Closed, MarkMap
<1>2. \A S \in SUBSET Obj : Closed(MarkMap', S) <=> \A x \in S : Marks(x)' \subseteq S
  BY DEF Closed, MarkMap
<1> QED
  BY <1>1, <1>2 DEF Marked, Closure

-----------------------------------------------------------------------------
(* The inductive invariant *)

Typed ==
  /\ heap \in [Obj -> Memory \cup {NoMemory}]
  /\ memHeld \in SUBSET Obj
  /\ \A o \in memHeld : Exists(o)
  /\ room \in [Obj -> Int]
  /\ store \in [Obj -> {"none", "live", "freed", "left"}]

\* An object and the storage of its own name
StorageOf(o) ==
  /\ ~Exists(o) => store[o] \in {"none", "left"}
  /\ (Exists(o) /\ heap[o].root = o) => store[o] \in {"live", "freed"}
  /\ (Exists(o) /\ heap[o].owns) => store[o] = "live"
  /\ store[o] = "live" =>
       /\ Exists(o) /\ heap[o].root = o
       /\ heap[o].owns \/ (heap[o].kind = "buffer" /\ heap[o].size <= EmbedMax)

\* m lies in the storage it points into, with nothing wrapped on the way
Bounded(m) ==
  /\ m.root = Null => m.access = {}
  /\ (m.root \in Obj /\ ~m.unsized) =>
       /\ m.off >= 0 /\ m.size >= 0 /\ m.off + m.size <= room[m.root]
       /\ m.kind \in {"pointer", "memory"} => m.size < LongMax

\* What the program can reach keeps the owner of its storage marked
Rooted(o) ==
  heap[o].root \in Obj =>
    /\ Leads(MarkMap, o, heap[o].root)
    /\ heap[heap[o].root].root = heap[o].root

Sound(o) == Exists(o) /\ Rooted(o) /\ Bounded(heap[o])

MemoryIInv ==
  /\ Typed
  /\ \A o \in Obj : StorageOf(o)
  /\ \A o \in Marked : Sound(o)

LEMMA MarkTypes ==
  /\ Typed => MarkMap \in [Obj -> SUBSET Obj] /\ \A x \in Obj : Exists(x) => heap[x] \in Memory
  /\ Typed' => MarkMap' \in [Obj -> SUBSET Obj] /\ \A x \in Obj : Exists(x)' => heap'[x] \in Memory
<1>1. ASSUME Typed
      PROVE  MarkMap \in [Obj -> SUBSET Obj] /\ \A x \in Obj : Exists(x) => heap[x] \in Memory
  <2>1. \A x \in Obj : Exists(x) => heap[x] \in Memory
    BY <1>1 DEF Typed, Exists, NoMemory
  <2>2. \A x \in Obj : Marks(x) \in SUBSET Obj
    BY <2>1 DEF Marks, Memory
  <2> QED
    BY <2>1, <2>2 DEF MarkMap
<1>2. ASSUME Typed'
      PROVE  MarkMap' \in [Obj -> SUBSET Obj] /\ \A x \in Obj : Exists(x)' => heap'[x] \in Memory
  <2>1. \A x \in Obj : Exists(x)' => heap'[x] \in Memory
    BY <1>2 DEF Typed, Exists, NoMemory
  <2>2. \A x \in Obj : Marks(x)' \in SUBSET Obj
    BY <2>1 DEF Marks, Memory
  <2> QED
    BY <2>1, <2>2 DEF MarkMap
<1> QED
  BY <1>1, <1>2

\* What a step may not change of an object the program can reach
Kept(x) ==
  /\ heap'[x].kind = heap[x].kind /\ heap'[x].root = heap[x].root
  /\ heap'[x].parent = heap[x].parent /\ heap'[x].unsized = heap[x].unsized
  /\ heap'[x].off = heap[x].off /\ heap'[x].size = heap[x].size
  /\ heap[x].root = Null => heap'[x].access = heap[x].access
  /\ room'[x] = room[x]

\* After a step that keeps what was marked and adds N, only N needs a look
LEMMA MarkedStep ==
  ASSUME MemoryIInv, Typed', NEW N \in SUBSET Obj,
         memHeld' \subseteq Marked \cup N,
         \A x \in Marked : Kept(x),
         \A x \in N : Marks(x)' \subseteq Marked \cup N
  PROVE  /\ Marked' \subseteq Marked \cup N
         /\ \A x \in Marked : Sound(x)'
         /\ \A x \in Marked, r \in Obj :
              Leads(MarkMap, x, r) => Leads(MarkMap', x, r) /\ r \in Marked
<1>1. /\ MarkMap \in [Obj -> SUBSET Obj] /\ MarkMap' \in [Obj -> SUBSET Obj]
      /\ memHeld \in SUBSET Obj /\ memHeld' \in SUBSET Obj
  BY MarkTypes DEF MemoryIInv, Typed
<1>2. Marked \in SUBSET Obj /\ Closed(MarkMap, Marked)
  BY <1>1, ClosureFacts, MarkedIsClosure
<1>3. \A x \in Marked : MarkMap'[x] = MarkMap[x]
  BY <1>2 DEF MarkMap, Kept, Marks, Exists
<1>4. Marked' \subseteq Marked \cup N
  <2>1. Closed(MarkMap', Marked \cup N)
    BY <1>2, <1>3 DEF Closed, MarkMap
  <2>2. Marked \cup N \in SUBSET Obj
    BY <1>2
  <2>3. Closure(memHeld', MarkMap') \subseteq Marked \cup N
    BY <1>1, <2>1, <2>2, ClosureFacts
  <2> QED
    BY <2>3, MarkedIsClosure
<1>5. \A x \in Marked, r \in Obj :
        Leads(MarkMap, x, r) => Leads(MarkMap', x, r) /\ r \in Marked
  BY <1>1, <1>2, <1>3, LeadsKept
<1>6. ASSUME NEW x \in Marked
      PROVE  Sound(x)'
  <2>1. Sound(x) /\ Kept(x)
    BY DEF MemoryIInv
  <2>2. Exists(x)'
    BY <2>1 DEF Sound, Exists, Kept
  <2>3. ASSUME heap[x].root \in Obj
        PROVE  heap[x].root \in Marked /\ Leads(MarkMap', x, heap[x].root)
    BY <2>1, <2>3, <1>5 DEF Sound, Rooted
  <2>4. Rooted(x)'
    BY <2>1, <2>3 DEF Sound, Rooted, Kept
  <2>5. Bounded(heap[x])'
    BY <2>1, <2>3 DEF Sound, Bounded, Kept
  <2> QED
    BY <2>2, <2>4, <2>5 DEF Sound
<1> QED
  BY <1>4, <1>5, <1>6

-----------------------------------------------------------------------------
(* Making objects *)

LEMMA InitSound == MemoryInit => MemoryIInv
<1> SUFFICES ASSUME MemoryInit
             PROVE  MemoryIInv
  OBVIOUS
<1>1. \A o \in Obj : ~Exists(o) /\ Marks(o) = {}
  BY DEF MemoryInit, Exists, Marks, NoMemory
<1>2. Marked = {}
  <2>1. {} \in SUBSET Obj /\ memHeld \subseteq {} /\ \A x \in {} : Marks(x) \subseteq {}
    BY DEF MemoryInit
  <2> QED
    BY <2>1 DEF Marked
<1>3. Typed
  <2>1. room \in [Obj -> Int]
    BY SMT DEF MemoryInit
  <2> QED
    BY <2>1 DEF MemoryInit, Typed
<1>4. \A o \in Obj : StorageOf(o)
  BY <1>1 DEF MemoryInit, StorageOf
<1> QED
  BY <1>2, <1>3, <1>4 DEF MemoryIInv

\* What the program can reach exists; what has no id yet cannot be reached
LEMMA HeldMarked ==
  ASSUME MemoryIInv
  PROVE  /\ memHeld \subseteq Marked /\ Marked \in SUBSET Obj
         /\ \A o \in Obj : ~Exists(o) => o \notin Marked
<1>1. MarkMap \in [Obj -> SUBSET Obj] /\ memHeld \in SUBSET Obj
  BY MarkTypes DEF MemoryIInv, Typed
<1>2. memHeld \subseteq Marked /\ Marked \in SUBSET Obj
  BY <1>1, ClosureFacts, MarkedIsClosure
<1> QED
  BY <1>2 DEF MemoryIInv, Sound

\* An object that owns its storage, or a small Buffer
LEMMA OwnerMade ==
  ASSUME MemoryIInv, NEW o \in Obj, NEW m \in Memory, NEW r \in Int, Made(o, m),
         room' = [room EXCEPT ![o] = r], store' = [store EXCEPT ![o] = "live"],
         m.root = o, m.kind \in {"pointer", "memory", "buffer"}, m.parent = NoObj,
         m.owns \/ (m.kind = "buffer" /\ m.size <= EmbedMax),
         ~m.unsized => m.off = 0 /\ m.size >= 0 /\ m.size <= r,
         ~m.unsized /\ m.kind # "buffer" => m.size < LongMax
  PROVE  MemoryIInv'
<1>1. o \notin Marked /\ Marked \in SUBSET Obj /\ memHeld \subseteq Marked
  BY HeldMarked DEF Made, Fresh
<1>2. /\ \A x \in Obj \ {o} : heap'[x] = heap[x] /\ room'[x] = room[x] /\ store'[x] = store[x]
      /\ heap'[o] = m /\ room'[o] = r /\ store'[o] = "live"
      /\ Exists(o)'
  BY DEF Made, MemoryIInv, Typed, Exists, Memory
<1>3. Typed'
  <2>1. heap' \in [Obj -> Memory \cup {NoMemory}] /\ memHeld' \in SUBSET Obj
    BY DEF Made, MemoryIInv, Typed
  <2>2. \A x \in memHeld' : Exists(x)'
    BY <1>2 DEF Made, MemoryIInv, Typed, Exists
  <2>3. room' \in [Obj -> Int]
    BY DEF MemoryIInv, Typed
  <2>4. store' \in [Obj -> {"none", "live", "freed", "left"}]
    BY DEF MemoryIInv, Typed
  <2> QED
    BY <2>1, <2>2, <2>3, <2>4 DEF Typed
<1>4. \A x \in Obj : StorageOf(x)'
  <2>1. ASSUME NEW x \in Obj \ {o}
        PROVE  StorageOf(x)'
    BY <1>2 DEF MemoryIInv, StorageOf, Exists
  <2>2. StorageOf(o)'
    BY <1>2 DEF StorageOf
  <2> QED
    BY <2>1, <2>2
<1>5. \A x \in Marked : Kept(x)
  BY <1>1, <1>2 DEF Kept
<1>6. Marks(o)' = {}
  BY <1>2 DEF Marks
<1>7. /\ Marked' \subseteq Marked \cup {o}
      /\ \A x \in Marked : Sound(x)'
  <2>1. memHeld' \subseteq Marked \cup {o} /\ {o} \in SUBSET Obj
    BY <1>1 DEF Made
  <2> QED
    BY <1>3, <1>5, <1>6, <2>1, MarkedStep
<1>8. Sound(o)'
  <2>1. Rooted(o)'
    BY <1>2 DEF Rooted, Leads
  <2>2. o # Null
    BY ObjectAssumption
  <2>3. Bounded(m)'
    <3>1. ~m.unsized => m.off >= 0 /\ m.size >= 0 /\ m.off + m.size <= r
      BY SMT DEF Memory, Long
    <3> QED
      BY <1>2, <2>2, <3>1 DEF Bounded
  <2> QED
    BY <1>2, <2>1, <2>3 DEF Sound
<1> QED
  BY <1>3, <1>4, <1>7, <1>8 DEF MemoryIInv

\* What a view takes over from the object it is made of
ViewFrom(src, m) ==
  /\ m.root = heap[src].root /\ m.parent = src /\ m.kind \in {"pointer", "part"}
  /\ Bounded(m)

LEMMA ViewMade ==
  ASSUME MemoryIInv, NEW o \in Obj, NEW m \in Memory, Made(o, m), UNCHANGED <<room, store>>,
         m.owns = FALSE,
         \/ m.root = Null /\ m.access = {} /\ m.parent = NoObj
         \/ \E src \in memHeld : ViewFrom(src, m)
  PROVE  MemoryIInv'
<1>1. o \notin Marked /\ Marked \in SUBSET Obj /\ memHeld \subseteq Marked
  BY HeldMarked DEF Made, Fresh
<1>2. /\ \A x \in Obj \ {o} : heap'[x] = heap[x]
      /\ heap'[o] = m /\ Exists(o)'
  BY DEF Made, MemoryIInv, Typed, Exists, Memory
<1>3. Typed'
  <2>1. heap' \in [Obj -> Memory \cup {NoMemory}] /\ memHeld' \in SUBSET Obj
    BY DEF Made, MemoryIInv, Typed
  <2>2. \A x \in memHeld' : Exists(x)'
    BY <1>2 DEF Made, MemoryIInv, Typed, Exists
  <2> QED
    BY <2>1, <2>2 DEF Typed, MemoryIInv
<1>4. \A x \in Marked : Kept(x)
  BY <1>1, <1>2 DEF Kept
<1>5. Marks(o)' \subseteq Marked
  BY <1>1, <1>2 DEF Marks, ViewFrom
<1>6. /\ Marked' \subseteq Marked \cup {o}
      /\ \A x \in Marked : Sound(x)'
      /\ \A x \in Marked, r \in Obj :
           Leads(MarkMap, x, r) => Leads(MarkMap', x, r) /\ r \in Marked
  <2>1. memHeld' \subseteq Marked \cup {o} /\ {o} \in SUBSET Obj
    BY <1>1 DEF Made
  <2> QED
    BY <1>3, <1>4, <1>5, <2>1, MarkedStep
<1>7. m.root # o
  <2>1. ASSUME NEW src \in memHeld, m.root = heap[src].root, m.root \in Obj
        PROVE  m.root \in Marked
    BY <1>1, <1>6, <2>1 DEF MemoryIInv, Sound, Rooted
  <2> QED
    BY <1>1, <2>1, ObjectAssumption DEF ViewFrom
<1>8. \A x \in Obj : StorageOf(x)'
  <2>1. ASSUME NEW x \in Obj \ {o}
        PROVE  StorageOf(x)'
    BY <1>2 DEF MemoryIInv, StorageOf, Exists
  <2>2. store'[o] = "none"
    BY DEF Made, Fresh, MemoryIInv, StorageOf
  <2>3. StorageOf(o)'
    BY <1>2, <1>7, <2>2 DEF StorageOf
  <2> QED
    BY <2>1, <2>3
<1>9. Sound(o)'
  <2>1. Bounded(m)'
    BY ObjectAssumption DEF Bounded, ViewFrom
  <2>2. ASSUME NEW src \in memHeld, ViewFrom(src, m), m.root \in Obj
        PROVE  Rooted(o)'
    <3>1. Leads(MarkMap', src, m.root) /\ m.root \in Marked /\ heap[m.root].root = m.root
      BY <1>1, <1>6, <2>2 DEF MemoryIInv, Sound, Rooted, ViewFrom
    <3>2. src \in Obj /\ src # NoObj
      BY <1>1, ObjectAssumption
    <3>3. src \in MarkMap'[o]
      BY <1>2, <2>2, <3>2 DEF MarkMap, Marks, ViewFrom
    <3>4. Leads(MarkMap', o, m.root)
      BY <3>1, <3>3 DEF Leads, Closed
    <3> QED
      BY <1>1, <1>2, <3>1, <3>4 DEF Rooted
  <2>3. Rooted(o)'
    <3>1. CASE m.root \in Obj
      BY <2>2, <3>1, ObjectAssumption
    <3>2. CASE m.root \notin Obj
      BY <1>2, <3>2 DEF Rooted
    <3> QED
      BY <3>1, <3>2
  <2> QED
    BY <1>2, <2>1, <2>3 DEF Sound
<1> QED
  BY <1>3, <1>6, <1>8, <1>9 DEF MemoryIInv

-----------------------------------------------------------------------------
(* Storage *)

LEMMA OwnerTyped ==
  ASSUME NEW o \in Obj, NEW kind \in {"pointer", "memory", "buffer"},
         NEW size \in Long, NEW tsize \in TypeSizes
  PROVE  /\ Owner(o, kind, size, tsize) \in Memory
         /\ Owner(o, kind, size, tsize).root = o
         /\ Owner(o, kind, size, tsize).kind = kind
         /\ Owner(o, kind, size, tsize).parent = NoObj
         /\ Owner(o, kind, size, tsize).owns
         /\ Owner(o, kind, size, tsize).size = size
         /\ Owner(o, kind, size, tsize).off = 0
         /\ Owner(o, kind, size, tsize).unsized = (size < 0)
<1> DEFINE p == PointerTo(o)
<1> DEFINE negative == size < 0
<1>1. LongMax \in Long /\ 1 \in TypeSizes
  BY LongFacts, ObjectAssumption, SMT DEF Long
<1>2. negative \in BOOLEAN
  OBVIOUS
<1>3. /\ p \in Memory /\ p.root = o /\ p.off = 0 /\ p.parent = NoObj
  BY <1>1 DEF PointerTo, Memory
<1> HIDE DEF p, negative
<1>4. Owner(o, kind, size, tsize) =
        [p EXCEPT !.kind = kind, !.size = size, !.tsize = tsize, !.owns = TRUE,
                  !.unsized = negative, !.autorelease = kind # "buffer"]
  BY DEF Owner, p, negative
<1> DEFINE m == Owner(o, kind, size, tsize)
<1>5. /\ m \in Memory /\ m.root = o /\ m.kind = kind /\ m.parent = NoObj /\ m.owns
      /\ m.size = size /\ m.off = 0 /\ m.unsized = negative
  BY <1>2, <1>3, <1>4 DEF Memory
<1> QED
  BY <1>5 DEF negative

LEMMA ClaimFacts ==
  ASSUME NEW o \in Obj, NEW size \in Long, Claim(o, size)
  PROVE  \E r \in Int : /\ room' = [room EXCEPT ![o] = r]
                        /\ store' = [store EXCEPT ![o] = "live"]
                        /\ size >= 0 => size <= r /\ size < LongMax
<1> DEFINE bytes == Unsigned(Unsigned(size) + Pad)
<1>1. Pad \in Int /\ 1 <= Pad /\ Pad <= LongMax
  BY ObjectAssumption, LongFacts, SMT
<1>2. bytes \in Int
  BY <1>1, LongFacts, SMT DEF Unsigned, Word, Long
<1>3. size >= 0 => bytes = size + Pad
  <2>1. ASSUME size >= 0
        PROVE  size % Word = size /\ (size + Pad) % Word = size + Pad
    BY <1>1, <2>1, LongFacts, SMT DEF Word, Long
  <2> QED
    BY <2>1 DEF Unsigned
<1>4. bytes <= LongMax
  BY DEF Claim
<1> HIDE DEF bytes
<1>5. bytes - Pad \in Int /\ (size >= 0 => size <= bytes - Pad /\ size < LongMax)
  BY <1>1, <1>2, <1>3, <1>4, LongFacts, SMT DEF Long
<1> QED
  BY <1>5 DEF Claim, bytes

LEMMA OwnerClaimed ==
  ASSUME MemoryIInv, NEW o \in Obj, NEW kind \in {"pointer", "memory", "buffer"},
         NEW size \in Long, NEW tsize \in TypeSizes,
         Made(o, Owner(o, kind, size, tsize)), Claim(o, size)
  PROVE  MemoryIInv'
<1> DEFINE m == Owner(o, kind, size, tsize)
<1>1. PICK r \in Int : /\ room' = [room EXCEPT ![o] = r]
                       /\ store' = [store EXCEPT ![o] = "live"]
                       /\ size >= 0 => size <= r /\ size < LongMax
  BY ClaimFacts
<1>2. /\ m \in Memory /\ m.root = o /\ m.kind = kind /\ m.parent = NoObj /\ m.owns
      /\ m.size = size /\ m.off = 0 /\ m.unsized = (size < 0)
  BY OwnerTyped
<1>3. ~m.unsized => size >= 0
  <2>1. ~(size < 0) => size >= 0
    BY SMT DEF Long
  <2> QED
    BY <1>2, <2>1
<1> HIDE DEF m
<1>4. Made(o, m)
  BY DEF m
<1>5. /\ ~m.unsized => m.off = 0 /\ m.size >= 0 /\ m.size <= r
      /\ ~m.unsized /\ m.kind # "buffer" => m.size < LongMax
  BY <1>1, <1>2, <1>3, Zenon
<1> QED
  BY <1>1, <1>2, <1>4, <1>5, OwnerMade

LEMMA CountedSize ==
  ASSUME NEW t \in TypeSizes, NEW n \in Counts
  PROVE  AsLong(t * n) \in Long
<1>1. t \in Int /\ n \in Int
  BY LongFacts, ObjectAssumption, SMT DEF Long
<1>2. t * n \in Int
  BY <1>1, SMT
<1> QED
  BY <1>2, Conversions

LEMMA NewMemoryPointerStep ==
  ASSUME MemoryIInv, NEW o \in Obj, NEW t \in TypeSizes, NEW n \in Counts,
         NewMemoryPointer(o, t, n)
  PROVE  MemoryIInv'
BY CountedSize, OwnerClaimed DEF NewMemoryPointer

LEMMA NewBufferStep ==
  ASSUME MemoryIInv, NEW o \in Obj, NEW t \in TypeSizes, NEW n \in Counts, NewBuffer(o, t, n)
  PROVE  MemoryIInv'
<1> DEFINE size == AsLong(t * n)
<1> DEFINE buffer == Owner(o, "buffer", size, t)
<1> DEFINE small == [buffer EXCEPT !.owns = FALSE]
<1>1. size \in Long
  BY CountedSize
<1>2. CASE Made(o, buffer) /\ Claim(o, size)
  BY <1>1, <1>2, OwnerClaimed
<1>3. CASE /\ size <= EmbedMax /\ Made(o, small)
           /\ room' = [room EXCEPT ![o] = EmbedMax] /\ store' = [store EXCEPT ![o] = "live"]
  <2>1. /\ buffer \in Memory /\ buffer.root = o /\ buffer.kind = "buffer"
        /\ buffer.parent = NoObj /\ buffer.size = size /\ buffer.off = 0
        /\ buffer.unsized = (size < 0)
    BY <1>1, OwnerTyped
  <2> HIDE DEF buffer
  <2>2. /\ small \in Memory /\ small.root = o /\ small.kind = "buffer"
        /\ small.parent = NoObj /\ small.size = size /\ small.off = 0
        /\ small.unsized = (size < 0)
    BY <2>1 DEF Memory
  <2> HIDE DEF small
  <2>3. ~small.unsized => small.size >= 0
    <3>1. ~(size < 0) => size >= 0
      BY <1>1, SMT DEF Long
    <3> QED
      BY <2>2, <3>1
  <2>4. EmbedMax \in Int
    BY ObjectAssumption, SMT
  <2> QED
    BY <1>3, <2>2, <2>3, <2>4, OwnerMade
<1> QED
  BY <1>2, <1>3 DEF NewBuffer

LEMMA CopiedStep ==
  ASSUME MemoryIInv, NEW o \in Obj, NEW src \in memHeld, DupPointer(o, src) \/ DupBuffer(o, src)
  PROVE  MemoryIInv'
<1> DEFINE m == heap[src]
<1>1. m \in Memory
  BY MarkTypes DEF MemoryIInv, Typed
<1>2. m.size \in Long /\ m.tsize \in TypeSizes
  BY <1>1 DEF Memory
<1>3. CASE DupPointer(o, src)
  BY <1>2, <1>3, OwnerClaimed DEF DupPointer, Copied, IsPointer
<1>4. CASE DupBuffer(o, src)
  BY <1>2, <1>4, OwnerClaimed DEF DupBuffer, Copied
<1> QED
  BY <1>3, <1>4

-----------------------------------------------------------------------------
(* Views *)

\* The fields of a view v of src, which is m
ViewLike(m, v, src, off, size) ==
  /\ v \in Memory
  /\ v.root = m.root /\ v.parent = src /\ v.size = size /\ v.access = m.access
  /\ v.owns = FALSE /\ v.unsized = m.unsized
  /\ v.kind = IF m.kind \in {"buffer", "part"} THEN "part" ELSE "pointer"
  /\ (m.root \in Obj /\ ~m.unsized) => v.off = m.off + off

LEMMA ViewFacts ==
  ASSUME MemoryIInv, NEW src \in memHeld, NEW off \in Int, NEW size \in Long
  PROVE  ViewLike(heap[src], ViewOf(src, off, size), src, off, size)
<1> DEFINE m == heap[src]
<1> DEFINE p == PartOf(src, off, size)
<1>1. m \in Memory
  BY MarkTypes DEF MemoryIInv, Typed
<1>2. m.off + off \in Int
  <2>1. m.off \in Int
    BY <1>1 DEF Memory
  <2> QED
    BY <2>1, SMT
<1>3. src \in Obj
  BY DEF MemoryIInv, Typed
<1>4. /\ p \in Memory /\ p.root = m.root /\ p.size = size /\ p.access = m.access
      /\ p.owns = FALSE /\ p.unsized = m.unsized
      /\ p.kind = IF m.kind \in {"buffer", "part"} THEN "part" ELSE "pointer"
      /\ (m.root \in Obj /\ ~m.unsized) => p.off = m.off + off
  <2> DEFINE kind == IF m.kind \in {"buffer", "part"} THEN "part" ELSE "pointer"
  <2> DEFINE start == IF m.root \in Obj /\ ~m.unsized THEN m.off + off ELSE 0
  <2>1. p = [m EXCEPT !.kind = kind, !.off = start, !.size = size, !.parent = NoObj,
                      !.owns = FALSE, !.autorelease = FALSE]
    BY DEF PartOf
  <2>2. kind \in {"pointer", "part"} /\ start \in Int
    BY <1>2
  <2> HIDE DEF p, m, kind, start
  <2>3. /\ p \in Memory /\ p.root = m.root /\ p.size = size /\ p.access = m.access
        /\ p.owns = FALSE /\ p.unsized = m.unsized /\ p.kind = kind /\ p.off = start
    BY <1>1, <2>1, <2>2 DEF Memory
  <2> QED
    BY <2>3 DEF kind, start
<1> HIDE DEF p
<1> DEFINE v == ViewOf(src, off, size)
<1>5. v = [p EXCEPT !.parent = src]
  BY DEF ViewOf, p
<1> HIDE DEF v, m
<1>6. ViewLike(m, v, src, off, size)
  BY <1>3, <1>4, <1>5 DEF Memory, ViewLike
<1> QED
  BY <1>6 DEF m, v

\* A part that passed the bounds check is inside what it is a part of
LEMMA PartBounded ==
  ASSUME MemoryIInv, NEW src \in memHeld, NEW off \in Long, NEW size \in Long,
         InBounds(heap[src].size, off, size), NEW v, v = ViewOf(src, off, size)
  PROVE  v \in Memory /\ v.owns = FALSE /\ ViewFrom(src, v)
<1> DEFINE m == heap[src]
<1>0. off \in Int
  BY DEF Long
<1>1. /\ v \in Memory
      /\ v.root = m.root /\ v.parent = src /\ v.size = size /\ v.access = m.access
      /\ v.owns = FALSE /\ v.unsized = m.unsized
      /\ v.kind = IF m.kind \in {"buffer", "part"} THEN "part" ELSE "pointer"
      /\ (m.root \in Obj /\ ~m.unsized) => v.off = m.off + off
  <2>1. ViewLike(m, ViewOf(src, off, size), src, off, size)
    BY <1>0, ViewFacts
  <2> HIDE DEF m
  <2>2. ViewLike(m, v, src, off, size)
    BY <2>1
  <2> QED
    BY <2>2 DEF ViewLike
<1>2. m \in Memory /\ Bounded(m)
  BY HeldMarked, MarkTypes DEF MemoryIInv, Typed, Sound
<1>3. m.kind \in {"pointer", "memory", "buffer", "part"} /\ m.size \in Long /\ m.off \in Int
  BY <1>2 DEF Memory
<1>4. ASSUME m.root \in Obj, ~m.unsized
      PROVE  /\ v.off >= 0 /\ v.size >= 0 /\ v.off + v.size <= room[v.root]
             /\ v.kind \in {"pointer", "memory"} => v.size < LongMax
  <2>1. m.off >= 0 /\ m.size >= 0 /\ m.off + m.size <= room[m.root]
    BY <1>2, <1>4 DEF Bounded
  <2>2. m.size \in Sizes
    BY <1>3, <2>1, LongFacts, SMT DEF Sizes, Long
  <2>3. off >= 0 /\ size >= 0 /\ off + size <= m.size
    BY <2>2, CheckBoundsExact DEF Inside
  <2>4. room[m.root] \in Int
    BY <1>4 DEF MemoryIInv, Typed
  <2>5. v.off = m.off + off /\ v.size = size /\ v.root = m.root
    BY <1>1, <1>4
  <2>6. /\ m.off + off >= 0 /\ size >= 0 /\ (m.off + off) + size <= room[m.root]
        /\ m.size < LongMax => size < LongMax
    BY <1>3, <2>1, <2>3, <2>4, LongFacts, SMT DEF Long
  <2>7. v.kind \in {"pointer", "memory"} => m.size < LongMax
    BY <1>1, <1>2, <1>3, <1>4 DEF Bounded
  <2> QED
    BY <2>5, <2>6, <2>7
<1>5. Bounded(v)
  BY <1>1, <1>2, <1>4 DEF Bounded
<1>6. v.kind \in {"pointer", "part"}
  BY <1>1
<1> QED
  BY <1>1, <1>5, <1>6 DEF ViewFrom

LEMMA BufferSliceStep ==
  ASSUME MemoryIInv, NEW o \in Obj, NEW src \in memHeld, NEW off \in Long, NEW size \in Long,
         BufferSlice(o, src, off, size)
  PROVE  MemoryIInv'
<1> DEFINE v == ViewOf(src, off, size)
<1>1. v \in Memory /\ v.owns = FALSE /\ ViewFrom(src, v)
  BY PartBounded DEF BufferSlice
<1>2. Made(o, v) /\ UNCHANGED <<room, store>>
  BY DEF BufferSlice, Viewed
<1> HIDE DEF v
<1> QED
  BY <1>1, <1>2, ViewMade

LEMMA PointerSliceStep ==
  ASSUME MemoryIInv, NEW o \in Obj, NEW src \in memHeld, NEW off \in Long, NEW size \in Long,
         PointerSlice(o, src, off, size)
  PROVE  MemoryIInv'
<1> DEFINE m == heap[src]
<1> DEFINE view == ViewOf(src, off, size)
<1> DEFINE v == [view EXCEPT !.unsized = @ \/ (size = LongMax /\ m.size # LongMax)]
<1>1. Made(o, v) /\ UNCHANGED <<room, store>> /\ IsPointer(src)
  BY DEF PointerSlice, Viewed
<1>2. off \in Int
  BY DEF Long
<1>3. /\ view \in Memory
      /\ view.root = m.root /\ view.parent = src /\ view.size = size /\ view.access = m.access
      /\ view.owns = FALSE /\ view.unsized = m.unsized
      /\ view.kind = IF m.kind \in {"buffer", "part"} THEN "part" ELSE "pointer"
  <2>1. ViewLike(m, view, src, off, size)
    BY <1>2, ViewFacts
  <2> HIDE DEF m, view
  <2> QED
    BY <2>1 DEF ViewLike
<1>4. m \in Memory /\ Bounded(m)
  BY HeldMarked, MarkTypes DEF MemoryIInv, Typed, Sound
<1>5. CASE size # LongMax
  <2>1. view \in Memory /\ view.owns = FALSE /\ ViewFrom(src, view)
    BY <1>5, PartBounded DEF PointerSlice
  <2>2. v = view
    BY <1>3, <1>5 DEF Memory
  <2> HIDE DEF v, view
  <2> QED
    BY <1>1, <2>1, <2>2, ViewMade
<1>6. CASE size = LongMax
  <2> HIDE DEF view
  <2>1. /\ v \in Memory /\ v.owns = FALSE /\ v.root = m.root /\ v.parent = src
        /\ v.access = m.access /\ v.kind = "pointer"
        /\ v.unsized = (m.unsized \/ m.size # LongMax)
    BY <1>1, <1>3, <1>6 DEF Memory, IsPointer
  <2> HIDE DEF v
  <2>2. m.root \in Obj => v.unsized
    <3>1. m.root \in Obj /\ ~m.unsized => m.size < LongMax
      BY <1>1, <1>4 DEF Bounded, IsPointer
    <3>2. LongMax < LongMax => FALSE
      BY LongFacts, SMT
    <3> QED
      BY <2>1, <3>1, <3>2
  <2>3. ViewFrom(src, v)
    BY <1>4, <2>1, <2>2 DEF ViewFrom, Bounded
  <2> QED
    BY <1>1, <2>1, <2>3, ViewMade
<1> QED
  BY <1>5, <1>6

LEMMA NewPointerStep ==
  ASSUME MemoryIInv, NEW o \in Obj, NewPointer(o)
  PROVE  MemoryIInv'
<1> DEFINE m == PointerTo(Null)
<1>1. LongMax \in Long /\ 1 \in TypeSizes
  BY LongFacts, ObjectAssumption, SMT DEF Long
<1>2. /\ m \in Memory /\ m.owns = FALSE
      /\ m.root = Null /\ m.access = {} /\ m.parent = NoObj
  BY <1>1 DEF PointerTo, Memory
<1>3. Made(o, m) /\ UNCHANGED <<room, store>>
  BY DEF NewPointer
<1> HIDE DEF m
<1> QED
  BY <1>2, <1>3, ViewMade

LEMMA SumsAreLong ==
  ASSUME MemoryIInv, NEW src \in memHeld
  PROVE  /\ heap[src].size \in Long /\ LongMax \in Long /\ 0 \in Long
         /\ \A off \in Long : Wrap(heap[src].size - off) \in Long
<1>1. heap[src] \in Memory
  BY MarkTypes DEF MemoryIInv, Typed
<1>2. heap[src].size \in Long
  BY <1>1 DEF Memory
<1>3. LongMax \in Long /\ 0 \in Long
  BY LongFacts, SMT DEF Long
<1>4. ASSUME NEW size \in Long, NEW off \in Long
      PROVE  Wrap(size - off) \in Long
  <2>1. /\ size - off \in Int
        /\ size - off >= -LongMax - 1 - Word
        /\ size - off <= LongMax + Word
    BY LongFacts, SMT DEF Long, Word
  <2> QED
    BY <2>1, WrapIsLong
<1> QED
  BY <1>2, <1>3, <1>4

LEMMA PlusStep ==
  ASSUME MemoryIInv, NEW o \in Obj, NEW src \in memHeld, NEW off \in Long,
         PointerPlus(o, src, off) \/ BufferPlus(o, src, off)
  PROVE  MemoryIInv'
<1>1. CASE PointerPlus(o, src, off)
  <2> DEFINE size == IF heap[src].size = LongMax THEN LongMax ELSE Wrap(heap[src].size - off)
  <2>1. size \in Long
    BY SumsAreLong
  <2>2. PointerSlice(o, src, off, size)
    BY <1>1 DEF PointerPlus
  <2> HIDE DEF size
  <2> QED
    BY <2>1, <2>2, PointerSliceStep
<1>2. CASE BufferPlus(o, src, off)
  BY <1>2, SumsAreLong, BufferSliceStep DEF BufferPlus
<1> QED
  BY <1>1, <1>2

LEMMA ArefStep ==
  ASSUME MemoryIInv, NEW o \in Obj, NEW src \in memHeld, NEW idx \in Long, Aref(o, src, idx)
  PROVE  MemoryIInv'
<1> DEFINE off == Unsigned(Unsigned(idx) * heap[src].tsize)
<1>1. off \in Long
  <2>1. heap[src] \in Memory
    BY MarkTypes DEF MemoryIInv, Typed
  <2>2. heap[src].tsize \in Int /\ Unsigned(idx) \in Int
    <3>1. heap[src].tsize \in TypeSizes
      BY <2>1 DEF Memory
    <3>2. Unsigned(idx) \in Int
      BY LongFacts, SMT DEF Unsigned, Word, Long
    <3> QED
      BY <3>1, <3>2, LongFacts
  <2>3. ASSUME NEW a \in Int, NEW b \in Int, Unsigned(a * b) <= LongMax
        PROVE  Unsigned(a * b) \in Long
    <3>1. a * b \in Int
      BY SMT
    <3>2. ASSUME NEW x \in Int, Unsigned(x) <= LongMax
          PROVE  Unsigned(x) \in Long
      BY <3>2, LongFacts, SMT DEF Unsigned, Word, Long
    <3> QED
      BY <2>3, <3>1, <3>2
  <2> QED
    BY <2>2, <2>3 DEF Aref
<1>2. PointerPlus(o, src, off) \/ BufferPlus(o, src, off)
  BY DEF Aref
<1> HIDE DEF off
<1> QED
  BY <1>1, <1>2, PlusStep

LEMMA PointerFromStep ==
  ASSUME MemoryIInv, NEW o \in Obj, NEW src \in memHeld, PointerFrom(o, src)
  PROVE  MemoryIInv'
<1> DEFINE m == heap[src]
<1> DEFINE view == ViewOf(src, 0, m.size)
<1> DEFINE v == [view EXCEPT !.tsize = 1]
<1>1. ViewLike(m, view, src, 0, m.size)
  BY SumsAreLong, ViewFacts
<1>2. Made(o, v) /\ UNCHANGED <<room, store>> /\ m.kind \in {"pointer", "memory"}
  BY DEF PointerFrom, Viewed, IsPointer
<1>3. m \in Memory /\ Bounded(m)
  BY HeldMarked, MarkTypes DEF MemoryIInv, Typed, Sound
<1>4. m.off + 0 = m.off
  BY <1>3, SMT DEF Memory
<1> HIDE DEF m, view
<1>5. /\ v \in Memory /\ v.owns = FALSE /\ v.root = m.root /\ v.parent = src
      /\ v.size = m.size /\ v.access = m.access /\ v.unsized = m.unsized
      /\ v.kind = "pointer"
      /\ (m.root \in Obj /\ ~m.unsized) => v.off = m.off
  BY <1>1, <1>2, <1>4, ObjectAssumption DEF ViewLike, Memory
<1> HIDE DEF v
<1>6. Bounded(v)
  BY <1>2, <1>3, <1>5 DEF Bounded
<1>7. ViewFrom(src, v)
  BY <1>5, <1>6 DEF ViewFrom, m
<1> QED
  BY <1>2, <1>5, <1>7, ViewMade

-----------------------------------------------------------------------------
(* Changing, freeing, forgetting, collecting *)

\* One field of an object is changed, its memory kept or freed
LEMMA Changed ==
  ASSUME MemoryIInv, NEW o \in memHeld, NEW m \in Memory,
         heap' = [heap EXCEPT ![o] = m], UNCHANGED <<memHeld, room>>,
         store' \in [Obj -> {"none", "live", "freed", "left"}],
         \A x \in Obj \ {o} : store'[x] = store[x],
         heap[o].owns, Kept(o), StorageOf(o)'
  PROVE  MemoryIInv'
<1>1. Marked \in SUBSET Obj /\ memHeld \subseteq Marked /\ o \in Obj
  BY HeldMarked DEF MemoryIInv, Typed
<1>2. (\A x \in Obj \ {o} : heap'[x] = heap[x]) /\ heap'[o] = m
  BY <1>1 DEF MemoryIInv, Typed
<1>3. Typed'
  <2>1. heap' \in [Obj -> Memory \cup {NoMemory}]
    BY DEF MemoryIInv, Typed
  <2>2. \A x \in memHeld' : Exists(x)'
    BY <1>2 DEF MemoryIInv, Typed, Exists, Memory
  <2> QED
    BY <2>1, <2>2 DEF MemoryIInv, Typed
<1>4. \A x \in Obj : StorageOf(x)'
  BY <1>2 DEF MemoryIInv, StorageOf, Exists
<1>5. \A x \in Marked : Kept(x)
  BY <1>1, <1>2 DEF Kept
<1>6. Marked' \subseteq Marked /\ \A x \in Marked : Sound(x)'
  <2>1. memHeld' \subseteq Marked \cup {} /\ {} \in SUBSET Obj
    BY <1>1
  <2> QED
    BY <1>3, <1>5, <2>1, MarkedStep
<1> QED
  BY <1>3, <1>4, <1>6 DEF MemoryIInv

LEMMA FreezeStep ==
  ASSUME MemoryIInv, NEW o \in memHeld, Freeze(o) \/ \E auto \in BOOLEAN : SetAutorelease(o, auto)
  PROVE  MemoryIInv'
<1>1. heap[o] \in Memory /\ o \in Obj /\ StorageOf(o) /\ Exists(o)
  BY MarkTypes DEF MemoryIInv, Typed
<1>2. heap[o].owns /\ heap[o].root # Null
  BY <1>1, ObjectAssumption DEF Freeze, SetAutorelease, CanChange, StorageOf
<1>3. ASSUME NEW m \in Memory, heap' = [heap EXCEPT ![o] = m], UNCHANGED <<memHeld, room, store>>,
             m.kind = heap[o].kind, m.root = heap[o].root, m.parent = heap[o].parent,
             m.unsized = heap[o].unsized, m.off = heap[o].off, m.size = heap[o].size,
             m.owns = heap[o].owns
      PROVE  MemoryIInv'
  <2>1. heap'[o] = m
    BY <1>1, <1>3 DEF MemoryIInv, Typed
  <2>2. Kept(o) /\ StorageOf(o)'
    BY <1>1, <1>2, <1>3, <2>1 DEF Kept, StorageOf, Exists
  <2>3. /\ store' \in [Obj -> {"none", "live", "freed", "left"}]
        /\ \A x \in Obj \ {o} : store'[x] = store[x]
    BY <1>3 DEF MemoryIInv, Typed
  <2> QED
    BY <1>2, <1>3, <2>2, <2>3, Changed
<1>4. CASE Freeze(o)
  <2> DEFINE m == [heap[o] EXCEPT !.access = {"RD"}]
  <2>1. /\ m \in Memory /\ m.kind = heap[o].kind /\ m.root = heap[o].root
        /\ m.parent = heap[o].parent /\ m.unsized = heap[o].unsized
        /\ m.off = heap[o].off /\ m.size = heap[o].size /\ m.owns = heap[o].owns
    BY <1>1 DEF Memory
  <2>2. heap' = [heap EXCEPT ![o] = m] /\ UNCHANGED <<memHeld, room, store>>
    BY <1>4 DEF Freeze
  <2> HIDE DEF m
  <2> QED
    BY <1>3, <2>1, <2>2
<1>5. ASSUME NEW auto \in BOOLEAN, SetAutorelease(o, auto)
      PROVE  MemoryIInv'
  <2> DEFINE m == [heap[o] EXCEPT !.autorelease = auto]
  <2>1. /\ m \in Memory /\ m.kind = heap[o].kind /\ m.root = heap[o].root
        /\ m.parent = heap[o].parent /\ m.unsized = heap[o].unsized
        /\ m.off = heap[o].off /\ m.size = heap[o].size /\ m.owns = heap[o].owns
    BY <1>1 DEF Memory
  <2>2. heap' = [heap EXCEPT ![o] = m] /\ UNCHANGED <<memHeld, room, store>>
    BY <1>5 DEF SetAutorelease
  <2> HIDE DEF m
  <2> QED
    BY <1>3, <2>1, <2>2
<1> QED
  BY <1>4, <1>5

LEMMA FreeStep ==
  ASSUME MemoryIInv, NEW o \in memHeld, FreePointer(o) \/ FreeMemoryPointer(o) \/ EndBlock(o)
  PROVE  MemoryIInv'
<1> DEFINE m == [heap[o] EXCEPT !.owns = FALSE]
<1>1. heap[o] \in Memory /\ o \in Obj /\ StorageOf(o) /\ Exists(o)
  BY MarkTypes DEF MemoryIInv, Typed
<1>2. heap[o].owns /\ Freed(o)
  BY DEF FreePointer, FreeMemoryPointer, EndBlock, CanChange
<1>3. heap[o].root = o /\ o # Null
  BY <1>1, <1>2, ObjectAssumption DEF StorageOf
<1>4. /\ m \in Memory /\ m.kind = heap[o].kind /\ m.root = heap[o].root
      /\ m.parent = heap[o].parent /\ m.unsized = heap[o].unsized
      /\ m.off = heap[o].off /\ m.size = heap[o].size /\ m.owns = FALSE
  BY <1>1 DEF Memory
<1>5. heap' = [heap EXCEPT ![o] = m] /\ UNCHANGED <<memHeld, room>>
  BY <1>2 DEF Freed
<1> HIDE DEF m
<1>6. heap'[o] = m /\ store'[o] = "freed"
  BY <1>1, <1>2, <1>5 DEF Freed, MemoryIInv, Typed
<1>7. /\ store' \in [Obj -> {"none", "live", "freed", "left"}]
      /\ \A x \in Obj \ {o} : store'[x] = store[x]
  BY <1>1, <1>2 DEF Freed, MemoryIInv, Typed
<1>8. Kept(o) /\ StorageOf(o)'
  BY <1>1, <1>3, <1>4, <1>5, <1>6 DEF Kept, StorageOf, Exists
<1> QED
  BY <1>2, <1>4, <1>5, <1>7, <1>8, Changed

LEMMA ForgetStep ==
  ASSUME MemoryIInv, NEW o \in memHeld, Forget(o)
  PROVE  MemoryIInv'
<1>1. Marked \in SUBSET Obj /\ memHeld \subseteq Marked
  BY HeldMarked
<1>2. Typed' /\ \A x \in Obj : StorageOf(x)'
  BY DEF Forget, MemoryIInv, Typed, StorageOf, Exists
<1>3. \A x \in Marked : Kept(x)
  BY DEF Forget, Kept
<1>4. memHeld' \subseteq Marked \cup {} /\ {} \in SUBSET Obj
  BY <1>1 DEF Forget
<1>5. Marked' \subseteq Marked /\ \A x \in Marked : Sound(x)'
  BY <1>2, <1>3, <1>4, MarkedStep
<1> QED
  BY <1>2, <1>5 DEF MemoryIInv

\* Only what is not marked is swept: nothing the program can reach changes
LEMMA SweptStep ==
  ASSUME MemoryIInv, NEW o \in Obj, NEW left \in BOOLEAN, Swept(o, left)
  PROVE  MemoryIInv'
<1>1. Marked \in SUBSET Obj /\ memHeld \subseteq Marked /\ o \notin Marked
  BY HeldMarked DEF Swept
<1>2. /\ \A x \in Obj \ {o} : heap'[x] = heap[x] /\ room'[x] = room[x] /\ store'[x] = store[x]
      /\ heap'[o] = NoMemory /\ store'[o] \in {"none", "left"} /\ memHeld' = memHeld
  BY DEF Swept, MemoryIInv, Typed
<1>3. Typed'
  <2>1. heap' \in [Obj -> Memory \cup {NoMemory}]
    BY DEF Swept, MemoryIInv, Typed
  <2>2. \A x \in memHeld' : Exists(x)'
    BY <1>1, <1>2 DEF MemoryIInv, Typed, Exists
  <2>3. room' \in [Obj -> Int]
    <3>1. 0 \in Int
      BY SMT
    <3> QED
      BY <3>1 DEF Swept, MemoryIInv, Typed
  <2>4. store' \in [Obj -> {"none", "live", "freed", "left"}]
    BY DEF Swept, MemoryIInv, Typed
  <2> QED
    BY <1>2, <2>1, <2>2, <2>3, <2>4 DEF MemoryIInv, Typed
<1>4. \A x \in Obj : StorageOf(x)'
  <2>1. ASSUME NEW x \in Obj \ {o}
        PROVE  StorageOf(x)'
    BY <1>2 DEF MemoryIInv, StorageOf, Exists
  <2>2. StorageOf(o)'
    BY <1>2 DEF StorageOf, Exists, NoMemory
  <2> QED
    BY <2>1, <2>2
<1>5. \A x \in Marked : Kept(x)
  BY <1>1, <1>2 DEF Kept
<1>6. memHeld' \subseteq Marked \cup {} /\ {} \in SUBSET Obj
  BY <1>1, <1>2
<1>7. Marked' \subseteq Marked /\ \A x \in Marked : Sound(x)'
  BY <1>3, <1>5, <1>6, MarkedStep
<1> QED
  BY <1>3, <1>4, <1>7 DEF MemoryIInv

LEMMA SweepStep ==
  ASSUME MemoryIInv, NEW o \in Obj, SweepPointer(o) \/ SweepMemoryPointer(o) \/ SweepBuffer(o)
  PROVE  MemoryIInv'
<1> DEFINE left == heap[o].owns /\ ~heap[o].autorelease
<1>1. left \in BOOLEAN
  OBVIOUS
<1>2. Swept(o, left) \/ Swept(o, FALSE)
  BY DEF SweepPointer, SweepMemoryPointer, SweepBuffer
<1> HIDE DEF left
<1> QED
  BY <1>1, <1>2, SweptStep

-----------------------------------------------------------------------------
LEMMA MemoryStep ==
  MemoryIInv /\ [MemoryNext]_memVars => MemoryIInv'
<1> SUFFICES ASSUME MemoryIInv, [MemoryNext]_memVars
             PROVE  MemoryIInv'
  OBVIOUS
<1>0. memHeld \in SUBSET Obj /\ Offsets \subseteq Long
  BY ObjectAssumption DEF MemoryIInv, Typed
<1>1. ASSUME NEW o \in Obj,
             NewPointer(o) \/ SweepPointer(o) \/ SweepMemoryPointer(o) \/ SweepBuffer(o)
      PROVE  MemoryIInv'
  BY <1>1, NewPointerStep, SweepStep
<1>2. ASSUME NEW o \in Obj, NEW t \in TypeSizes, NEW n \in Counts,
             NewMemoryPointer(o, t, n) \/ NewBuffer(o, t, n)
      PROVE  MemoryIInv'
  BY <1>2, NewMemoryPointerStep, NewBufferStep
<1>3. ASSUME NEW o \in Obj, NEW src \in memHeld, NEW off \in Offsets, NEW size \in Offsets,
             PointerSlice(o, src, off, size) \/ BufferSlice(o, src, off, size)
      PROVE  MemoryIInv'
  BY <1>0, <1>3, PointerSliceStep, BufferSliceStep
<1>4. ASSUME NEW o \in Obj, NEW src \in memHeld, NEW off \in Offsets,
             PointerPlus(o, src, off) \/ BufferPlus(o, src, off) \/ Aref(o, src, off)
      PROVE  MemoryIInv'
  BY <1>0, <1>4, PlusStep, ArefStep
<1>5. ASSUME NEW o \in Obj, NEW src \in memHeld,
             \/ PointerOrder(o, src) \/ BufferOrder(o, src) \/ PointerFrom(o, src)
             \/ DupPointer(o, src) \/ DupBuffer(o, src)
      PROVE  MemoryIInv'
  <2>1. CASE PointerOrder(o, src)
    BY <2>1, SumsAreLong, PointerSliceStep DEF PointerOrder
  <2>2. CASE BufferOrder(o, src)
    BY <2>2, SumsAreLong, BufferSliceStep DEF BufferOrder
  <2> QED
    BY <1>5, <2>1, <2>2, PointerFromStep, CopiedStep
<1>6. ASSUME NEW o \in memHeld,
             \/ Freeze(o) \/ FreePointer(o) \/ FreeMemoryPointer(o) \/ EndBlock(o)
             \/ Forget(o) \/ \E auto \in BOOLEAN : SetAutorelease(o, auto)
      PROVE  MemoryIInv'
  BY <1>6, FreezeStep, FreeStep, ForgetStep
<1>7. CASE UNCHANGED memVars
  <2>1. Typed' /\ \A x \in Obj : StorageOf(x)'
    BY <1>7 DEF memVars, MemoryIInv, Typed, StorageOf, Exists
  <2>2. \A x \in Marked : Kept(x)
    BY <1>7 DEF memVars, Kept
  <2>3. memHeld' \subseteq Marked \cup {} /\ {} \in SUBSET Obj
    BY <1>7, HeldMarked DEF memVars
  <2>4. Marked' \subseteq Marked /\ \A x \in Marked : Sound(x)'
    BY <2>1, <2>2, <2>3, MarkedStep
  <2> QED
    BY <2>1, <2>4 DEF MemoryIInv
<1>8. CASE MemoryNext
  BY <1>1, <1>2, <1>3, <1>4, <1>5, <1>6, <1>8 DEF MemoryNext
<1> QED
  BY <1>7, <1>8

LEMMA MemoryInvariant == MemorySpec => []MemoryIInv
BY InitSound, MemoryStep, PTL DEF MemorySpec

\* The type invariant, for every set of objects, counts and offsets: sizes stay
\* longs whatever is multiplied, added and sliced.
THEOREM MemoryTyped == MemorySpec => []MemoryTypeOK
<1>1. MemoryIInv => MemoryTypeOK
  BY DEF MemoryIInv, Typed, MemoryTypeOK
<1> QED
  BY <1>1, MemoryInvariant, PTL

\* Storage is freed once and never lost, by whichever of free, the end of a block
\* and the collector comes first (xfree in Pointer.c, MemoryPointer.c, Buffer.c).
THEOREM OwnersHoldStorage == MemorySpec => []StorageOwned
<1>1. MemoryIInv => StorageOwned
  BY DEF MemoryIInv, StorageOf, StorageOwned
<1> QED
  BY <1>1, MemoryInvariant, PTL

\* Through any number of views the storage under a reachable object is not
\* collected (rbParent), in whatever order the collector sweeps.
THEOREM ViewsKeepStorage == MemorySpec => []ViewsBacked
<1>1. ASSUME MemoryIInv, NEW o \in Marked, heap[o].root \in Obj
      PROVE  store[heap[o].root] \in {"live", "freed"} /\ Exists(heap[o].root)
  <2> DEFINE r == heap[o].root
  <2>1. MarkMap \in [Obj -> SUBSET Obj] /\ memHeld \in SUBSET Obj
    BY <1>1, MarkTypes DEF MemoryIInv, Typed
  <2>2. Marked \in SUBSET Obj /\ Closed(MarkMap, Marked)
    BY <2>1, ClosureFacts, MarkedIsClosure
  <2>3. r \in Marked /\ heap[r].root = r
    BY <1>1, <2>2 DEF MemoryIInv, Sound, Rooted, Leads
  <2> QED
    BY <1>1, <2>2, <2>3 DEF MemoryIInv, Sound, StorageOf
<1>2. MemoryIInv => ViewsBacked
  BY <1>1 DEF ViewsBacked
<1> QED
  BY <1>2, MemoryInvariant, PTL

\* For every width of long and chain of slices and sums, what an accessor that checks
\* its bounds touches of an object of known size is inside the storage (checkBounds
\* with slice, memptr_malloc and buffer_initialize), and so is what a copy of a struct
\* touches, NULL aside.
THEOREM AccessesStayInside == MemorySpec => []AccessesInBounds
<1>1. ASSUME MemoryIInv, NEW o \in Marked, ~heap[o].unsized, heap[o].root # Null,
             NEW b \in Readable[heap[o].size] \cup Writable[heap[o].size] \cup Copyable[heap[o].size]
      PROVE  heap[o].off + b \in 0..(room[heap[o].root] - 1)
  <2> DEFINE m == heap[o]
  <2>1. Bounded(m) /\ m \in Memory
    BY <1>1, HeldMarked, MarkTypes DEF MemoryIInv, Sound
  <2>3. m.root \in Obj
    BY <1>1, <2>1 DEF Memory
  <2>4. m.off >= 0 /\ m.size >= 0 /\ m.off + m.size <= room[m.root]
    BY <1>1, <2>1, <2>3 DEF Bounded
  <2>5. m.size \in Long /\ m.off \in Int /\ room[m.root] \in Int
    BY <1>1, <2>1, <2>3 DEF Memory, MemoryIInv, Typed
  <2>6. m.size \in Sizes
    BY <2>4, <2>5, LongFacts, SMT DEF Sizes, Long
  <2>7. b \in Within(m.size)
    <3>1. /\ Readable[m.size] \subseteq Within(m.size) /\ Writable[m.size] \subseteq Within(m.size)
          /\ Copyable[m.size] \subseteq Within(m.size)
      BY <2>5, <2>6, ReadsInside, WritesInside, CopiesInside DEF Readable, Writable, Copyable
    <3> QED
      BY <1>1, <3>1
  <2>8. b \in Int /\ 0 <= b /\ b <= m.size - 1
    BY <2>5, <2>7, SMT DEF Within, Long
  <2>9. m.off + b \in 0..(room[m.root] - 1)
    <3>1. ASSUME NEW off \in Int, NEW size \in Int, NEW r \in Int, NEW c \in Int,
                 off >= 0, off + size <= r, 0 <= c, c <= size - 1
          PROVE  off + c \in 0..(r - 1)
      BY <3>1, SMT
    <3>2. m.size \in Int
      BY <2>5, SMT DEF Long
    <3> QED
      BY <2>4, <2>5, <2>8, <3>1, <3>2
  <2> QED
    BY <2>9
<1>2. ASSUME MemoryIInv, NEW o \in Marked, heap[o].root = Null
      PROVE  heap[o].access = {}
  BY <1>2 DEF MemoryIInv, Sound, Bounded
<1>3. MemoryIInv => AccessesInBounds
  BY <1>1, <1>2 DEF AccessesInBounds
<1> QED
  BY <1>3, MemoryInvariant, PTL
=============================================================================
