---------------------------- MODULE MemoryAccess ----------------------------
(***************************************************************************)
(* The bytes an access through FFI::AbstractMemory touches                 *)
(* (AbstractMemory.c, AbstractMemory.h, lib/ffi/pointer.rb), also through  *)
(* the fields and arrays of a struct (StructLayout.c, Struct.c).           *)
(*                                                                         *)
(* Every accessor computes an offset and a length in C's long, checks them *)
(* against the size the object records, and then touches memory in terms   *)
(* of the unwrapped count; __copy_from__ alone checks nothing.  An operator*)
(* here yields the set of offsets an accessor touches, the empty set when  *)
(* it raises.  The compilers' code for the sums of checkBounds is the      *)
(* machine's wrapping addition.                                            *)
(***************************************************************************)
EXTENDS Integers, FiniteSets

CONSTANTS
  LongMax,    \* LONG_MAX
  IntMax,     \* INT_MAX
  ValueSize,  \* sizeof(VALUE): bounds the length of Ruby arrays
  PtrSize,    \* sizeof(void *)
  TypeSizes   \* sizes of the numeric types; a long double takes two VALUEs

ASSUME LongAssumption == LongMax \in Nat \ {0}
ASSUME ValueAssumption == ValueSize \in Nat \ {0} /\ 2 * ValueSize <= LongMax
ASSUME SizesAssumption ==
  /\ PtrSize \in 1..ValueSize
  /\ TypeSizes \subseteq 1..(2 * ValueSize)
ASSUME IntAssumption == IntMax \in (2 * ValueSize)..LongMax

Long == (-LongMax - 1)..LongMax
Word == 2 * LongMax + 2            \* 2^w

\* The machine's result of a sum or difference of two longs
Wrap(x) == IF x > LongMax THEN x - Word
           ELSE IF x < -LongMax - 1 THEN x + Word ELSE x

\* An unsigned long, and its value when it is used as a long
Unsigned(x) == x % Word
AsLong(x)   == Wrap(Unsigned(x))

Ints         == (-IntMax - 1)..IntMax
UnsignedInts == 0..(2 * IntMax + 1)
AsInt(x)     == ((x + IntMax + 1) % (2 * IntMax + 2)) - IntMax - 1

-----------------------------------------------------------------------------
\* Mutation of InBounds: the sum is not checked
InBoundsUnsummed(size, off, len) ==
  /\ off >= 0 /\ len >= 0
  /\ Wrap(size - Wrap(off + len)) >= 0

InBounds(size, off, len) ==
  /\ off >= 0 /\ len >= 0
  /\ Wrap(off + len) >= 0
  /\ Wrap(size - Wrap(off + len)) >= 0

\* What the check is for
Inside(size, off, len) == off >= 0 /\ len >= 0 /\ off + len <= size

Span(off, len) == off..(off + len - 1)

\* rb_ary_new2 raises for a negative length and for one of too many bytes;
\* no array is longer
ArrayLengths == 0..(LongMax \div ValueSize)

-----------------------------------------------------------------------------
(* The accessors.  s: size of the memory, f: its flags, RD and WR *)

\* get_<type>, put_<type>, read_<type>, write_<type>
Scalar(s, t, off) == IF InBounds(s, off, t) THEN Span(off, t) ELSE {}

\* get, put: of the type with that name, through the same operation
ByType(s, t, off) == IF t \in TypeSizes THEN Scalar(s, t, off) ELSE {}

\* get_array_of_<type>, put_array_of_<type>: the check sees the wrapped product
Array(s, t, off, count) ==
  IF count \in ArrayLengths /\ InBounds(s, off, AsLong(count * t))
  THEN Span(off, count * t) ELSE {}

\* get_string: without a length, up to the end of the memory
GetString(s, off, len)   == IF InBounds(s, off, len) THEN Span(off, len) ELSE {}
GetStringToEnd(s, off)   == GetString(s, off, Wrap(s - off))
GetBytes(s, off, len)    == GetString(s, off, len)

\* get_array_of_string: without a count it stops before the last slot
GetStrings(s, off, count) == Array(s, PtrSize, off, count)
GetStringsToNull(s, off)  ==
  IF InBounds(s, off, PtrSize)
  THEN UNION {Span(at, PtrSize) :
                at \in {a \in off..(s - PtrSize - 1) : (a - off) % PtrSize = 0}}
  ELSE {}

\* put_string: the string and its terminator
PutString(s, off, strlen) ==
  IF InBounds(s, off, strlen + 1) THEN Span(off, strlen + 1) ELSE {}

\* put_bytes: part of a string, from an index on
PutBytes(s, off, strlen, idx, len) ==
  IF idx >= 0 /\ Wrap(idx + len) <= strlen THEN GetBytes(s, off, len) ELSE {}
PutBytesToEnd(s, off, strlen, idx) == PutBytes(s, off, strlen, idx, strlen - idx)

\* Pointer#read_array_of_type: through a chain of pointers, each a step further
\* than the one before; write_array_of_type: from offset to offset
ReadArrayOfType(s, t, n) ==
  LET Step(j) == InBounds(s - (j - 1) * t, t, s - j * t)
  IN  UNION {{j * t + b : b \in Scalar(s - j * t, t, 0)} :
               j \in {k \in 0..(n - 1) : \A i \in 1..k : Step(i)}}
WriteArrayOfType(s, t, n) ==
  UNION {Scalar(s, t, i * t) : i \in {j \in 0..(n - 1) : j < s /\ j * t <= LongMax}}

\* read_array_of_string, read_bytes, write_bytes
ReadStrings(s, n)             == GetStrings(s, 0, n)
ReadBytes(s, n)               == GetBytes(s, 0, n)
WriteBytes(s, strlen, idx, n) == PutBytes(s, 0, strlen, idx, n)

\* clear
Clear(s) == Span(0, s)

\* __copy_from__: of the memory copied from and of the one copied to.  Neither
\* access nor bounds are checked.
CopyFrom(len) == Span(0, len)

-----------------------------------------------------------------------------
(* Through a struct's field, at an unsigned int offset *)

\* get and put of a number, a pointer or a function
FieldAt(s, t, off) == Scalar(s, t, AsLong(off))

\* An array inside a struct.  Its length is what the layout says; zero stands for
\* an array of unknown length at the end.
InlineArray ==
  [off : UnsignedInts, size : 1..IntMax, length : 0..IntMax, chars : BOOLEAN]

IndexOK(a, i) == i >= 0 /\ (i < a.length \/ a.length <= 0)

\* Offsets of an element are computed with int.  The product may only leave int
\* when the length is unknown: compilers let it wrap or keep all of its bits.
ElementOffsets(a, i) ==
  LET sum == AsInt(a.off) + i * a.size
  IN  IF IndexOK(a, i) THEN {AsInt(sum), AsLong(sum)} ELSE {}

\* [] and []= of a number; of a struct, its bytes in the slice or the copy
Element(s, a, i) == UNION {Scalar(s, a.size, off) : off \in ElementOffsets(a, i)}

\* each, to_a
Elements(s, a) == UNION {Element(s, a, i) : i \in 0..(a.length - 1)}

\* to_s of an array of char
CharsToS(s, a) ==
  IF a.chars /\ a.off <= LongMax THEN GetString(s, a.off, a.length) ELSE {}

\* A string put into an array of char: with its terminator when that fits
PutChars(s, a, strlen) ==
  IF a.chars /\ a.off <= LongMax
  THEN CASE strlen < a.length -> PutString(s, a.off, strlen)
         [] strlen = a.length -> PutBytesToEnd(s, a.off, strlen, 0)
         [] OTHER             -> {}
  ELSE {}

\* InnerStruct#put: copied to a slice at the field, which checks the bounds of s (no
\* struct has the size LONG_MAX, that of an unbounded slice), but not its access
PutStruct(s, off, size) ==
  IF off <= LongMax /\ InBounds(s, off, size) THEN {off + b : b \in CopyFrom(size)} ELSE {}

-----------------------------------------------------------------------------
\* All that the accessors that check can read (or write) of a memory of a given size.
\* Lengths of strings are bounded by LongMax - 1, the terminator's byte aside.
Both(s) ==
  (UNION {Scalar(s, t, off) \cup ByType(s, t, off) : t \in TypeSizes, off \in Long})
    \cup (UNION {Array(s, t, off, n) : t \in TypeSizes, off \in Long, n \in Long})
    \cup (UNION {FieldAt(s, t, off) : t \in TypeSizes \cup {PtrSize}, off \in UnsignedInts})
    \cup (UNION {Element(s, a, i) : a \in InlineArray, i \in Ints})

Reads(s) ==
  Both(s) \cup
  (UNION {GetBytes(s, off, n) : off \in Long, n \in Long}) \cup
  (UNION {GetStringToEnd(s, off) \cup GetStringsToNull(s, off) : off \in Long}) \cup
  (UNION {GetStrings(s, off, n) : off \in Long, n \in Long}) \cup
  (UNION {ReadStrings(s, n) \cup ReadBytes(s, n) : n \in Long}) \cup
  (UNION {Elements(s, a) \cup CharsToS(s, a) : a \in InlineArray}) \cup
  (UNION {ReadArrayOfType(s, t, n) : t \in TypeSizes, n \in 1..LongMax})

Writes(s) ==
  Both(s) \cup Clear(s) \cup
  (UNION {PutString(s, off, n) : off \in Long, n \in 0..(LongMax - 1)}) \cup
  (UNION {PutBytes(s, off, LongMax - 1, i, n) : off \in Long, i \in Long, n \in Long}) \cup
  (UNION {PutBytesToEnd(s, off, n, i) : off \in Long, n \in 0..(LongMax - 1), i \in Long}) \cup
  (UNION {WriteBytes(s, LongMax - 1, i, n) : i \in Long, n \in Long}) \cup
  (UNION {PutChars(s, a, n) : a \in InlineArray, n \in 0..(LongMax - 1)}) \cup
  (UNION {WriteArrayOfType(s, t, n) : t \in TypeSizes, n \in 1..LongMax})

\* All that copies of structs can touch of it, as the one copied to, or copied from
\* when it is large enough for the struct's layout: nobody checks that it is.
Copies(s) ==
  LET structSizes == (0..IntMax) \ {LongMax}
  IN  (UNION {PutStruct(s, off, n) : off \in UnsignedInts, n \in structSizes}) \cup
      (UNION {CopyFrom(n) : n \in {k \in structSizes : k <= s}})

\* Computed once for each size
Copyable == [s \in Long |-> Copies(s)]
Readable == [s \in Long |-> Reads(s)]
Writable == [s \in Long |-> Writes(s)]
=============================================================================
