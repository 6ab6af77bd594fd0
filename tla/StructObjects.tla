---------------------------- MODULE StructObjects ----------------------------
(***************************************************************************)
(* FFI::Struct objects, the memory under them, and the references they     *)
(* keep (Struct.c, StructLayout.c, lib/ffi/struct_layout.rb).              *)
(*                                                                         *)
(* Native memory holds addresses, which the garbage collector does not     *)
(* see.  So a struct keeps, for each field that holds a pointer or a       *)
(* function, the Ruby value last assigned through that struct.  Several    *)
(* structs may lie over one memory: a byte swapped one, an inner struct,   *)
(* one made of a pointer; each keeps its own references.                   *)
(*                                                                         *)
(* A memory stands for the pointer object and what its views keep alive    *)
(* (MemoryObjects); its size fits the layout.                               *)
(***************************************************************************)
EXTENDS Functions

CONSTANTS
  Str,       \* struct objects
  Mem,       \* memories
  Val,       \* Ruby objects whose addresses are assigned: pointers, functions
  Field,     \* reference fields of the layout
  Putter,    \* threads
  NoRefs,    \* rbReferences is NULL
  Nil

ASSUME NilAssumption ==
  /\ Nil \notin Str \cup Mem \cup Val
  /\ Str \cap Val = {}
  /\ NoRefs \notin [Field -> Val \cup {Nil}]

VARIABLES
  sMem,      \* s->rbPointer; Nil: there is no such struct
  sRefs,     \* s->rbReferences
  strHeld,   \* structs and values Ruby code refers to
  liveMem,   \* memories that have not been swept
  liveVal,   \* values that have not been swept
  cell,      \* the address in each field of each memory
  writer,    \* history: the struct through which it was assigned last, undisturbed
  putting,   \* for each thread, the assignment it is in the middle of
  direct     \* the layout's fields with a memory operation; Ruby methods put the others

heapVars == <<liveMem, liveVal, cell, writer>>
strVars  == <<sMem, sRefs, strHeld, heapVars, putting, direct>>

EmptyRefs == [f \in Field |-> Nil]

StructInit ==
  /\ sMem = [s \in Str |-> Nil]
  /\ sRefs = [s \in Str |-> NoRefs]
  /\ strHeld = {}
  /\ liveMem = {} /\ liveVal = {}
  /\ cell = [m \in Mem |-> EmptyRefs]
  /\ writer = [m \in Mem |-> EmptyRefs]
  /\ putting = [t \in Putter |-> Nil]
  /\ direct \in SUBSET Field

Busy == {t \in Putter : putting[t] # Nil}

-----------------------------------------------------------------------------
(* Garbage collection *)

MarkedStr == (strHeld \cap Str) \cup {putting[t].s : t \in Busy}
MarkedMem == {sMem[s] : s \in MarkedStr} \cup {putting[t].m : t \in Busy}

\* Mutation of RefsMarked: the references are not marked
RefsMarkedNone(s) == {}

\* struct_mark
RefsMarked(s) == IF sRefs[s] = NoRefs THEN {} ELSE Range(sRefs[s])
MarkedVal ==
  (strHeld \cap Val) \cup (UNION {RefsMarked(s) : s \in MarkedStr}) \cup {putting[t].v : t \in Busy}

SweepStruct(s) ==
  /\ sMem[s] # Nil /\ s \notin MarkedStr
  /\ sMem' = [sMem EXCEPT ![s] = Nil]
  /\ sRefs' = [sRefs EXCEPT ![s] = NoRefs]
  /\ writer' = [m \in Mem |-> [f \in Field |-> IF writer[m][f] = s THEN Nil ELSE writer[m][f]]]
  /\ UNCHANGED <<strHeld, liveMem, liveVal, cell, putting, direct>>

\* memptr_release
SweepMem(m) ==
  /\ m \in liveMem \ MarkedMem
  /\ liveMem' = liveMem \ {m}
  /\ cell' = [cell EXCEPT ![m] = EmptyRefs]
  /\ writer' = [writer EXCEPT ![m] = EmptyRefs]
  /\ UNCHANGED <<sMem, sRefs, strHeld, liveVal, putting, direct>>

SweepVal(v) ==
  /\ v \in liveVal \ MarkedVal
  /\ liveVal' = liveVal \ {v}
  /\ UNCHANGED <<sMem, sRefs, strHeld, liveMem, cell, writer, putting, direct>>

ForgetStr(x) ==
  /\ x \in strHeld /\ strHeld' = strHeld \ {x}
  /\ UNCHANGED <<sMem, sRefs, heapVars, putting, direct>>

\* A MemoryPointer, a Function, ...
NewVal(v) ==
  /\ v \notin liveVal
  /\ liveVal' = liveVal \cup {v} /\ strHeld' = strHeld \cup {v}
  /\ UNCHANGED <<sMem, sRefs, liveMem, cell, writer, putting, direct>>

-----------------------------------------------------------------------------
(* Making structs *)

Bound(s, m, refs) ==
  /\ sMem[s] = Nil
  /\ sMem' = [sMem EXCEPT ![s] = m]
  /\ sRefs' = [sRefs EXCEPT ![s] = refs]
  /\ strHeld' = strHeld \cup {s}

\* struct_initialize without a pointer, struct_malloc
NewStruct(s, m) ==
  /\ Bound(s, m, NoRefs)
  /\ m \notin liveMem /\ liveMem' = liveMem \cup {m}
  /\ UNCHANGED <<liveVal, cell, writer, putting, direct>>

\* struct_initialize with a pointer: an inner struct, an element of an inline
\* array, Struct.new of another struct's pointer
StructOver(s, m) ==
  /\ Bound(s, m, NoRefs)
  /\ m \in MarkedMem
  /\ UNCHANGED <<heapVars, putting, direct>>

\* What the copy wrote is what its source wrote
CopyWriter(m, src, dst) == [f \in Field |-> IF writer[m][f] = src THEN dst ELSE Nil]

\* Mutation of CopiedRefs: the copy starts without references
CopiedRefsNone(src) == NoRefs

\* struct_initialize_copy: the references are copied with the memory.  With no
\* reference stored yet it would copy from NULL: the program has stored one.
CopiedRefs(src) == sRefs[src]
DupStruct(s, src, m) ==
  /\ src \in strHeld /\ sRefs[src] # NoRefs
  /\ Bound(s, m, CopiedRefs(src))
  /\ m \notin liveMem /\ liveMem' = liveMem \cup {m}
  /\ cell' = [cell EXCEPT ![m] = cell[sMem[src]]]
  /\ writer' = [writer EXCEPT ![m] = CopyWriter(sMem[src], src, s)]
  /\ UNCHANGED <<liveVal, putting, direct>>

\* struct_order: a copy that is then given a view of the original's memory
OrderStruct(s, src) ==
  /\ src \in strHeld /\ sRefs[src] # NoRefs
  /\ Bound(s, sMem[src], CopiedRefs(src))
  /\ UNCHANGED <<heapVars, putting, direct>>

\* struct_set_pointer: the references stay
SetPointer(s, m) ==
  /\ s \in strHeld /\ m \in MarkedMem \ {sMem[s]}
  /\ sMem' = [sMem EXCEPT ![s] = m]
  /\ writer' = [writer EXCEPT ![sMem[s]] = CopyWriter(sMem[s], s, Nil)]
  /\ UNCHANGED <<sRefs, strHeld, liveMem, liveVal, cell, putting, direct>>

-----------------------------------------------------------------------------
(* Fields *)

\* Mutation of Stored: what is stored once is kept for good
StoredOnce(s, f, v) ==
  LET refs == IF sRefs[s] = NoRefs THEN EmptyRefs ELSE sRefs[s]
  IN  [sRefs EXCEPT ![s] = [refs EXCEPT ![f] = IF @ = Nil THEN v ELSE @]]

\* store_reference_value
Stored(s, f, v) ==
  LET refs == IF sRefs[s] = NoRefs THEN EmptyRefs ELSE sRefs[s]
  IN  [sRefs EXCEPT ![s] = [refs EXCEPT ![f] = v]]

\* struct_aset: the memory is written, then the reference stored
Put(s, f, v) ==
  /\ f \in direct
  /\ cell' = [cell EXCEPT ![sMem[s]][f] = v]
  /\ writer' = [writer EXCEPT ![sMem[s]][f] = s]
  /\ sRefs' = Stored(s, f, v)
  /\ UNCHANGED <<sMem, strHeld, liveMem, liveVal, putting, direct>>

\* The same when Ruby methods write the memory, between which and the store other
\* threads run
BeginPut(t, s, f, v) ==
  /\ f \notin direct /\ putting[t] = Nil
  /\ putting' = [putting EXCEPT ![t] = [s |-> s, m |-> sMem[s], f |-> f, v |-> v]]
  /\ cell' = [cell EXCEPT ![sMem[s]][f] = v]
  /\ writer' = [writer EXCEPT ![sMem[s]][f] = Nil]
  /\ UNCHANGED <<sMem, sRefs, strHeld, liveMem, liveVal, direct>>

\* Another assignment through the same struct, of which the order of the stores is
\* the reverse of the order of the writes, disturbs this one
EndPut(t) ==
  LET p == putting[t]
      alone == \A u \in Busy \ {t} : putting[u].s # p.s \/ putting[u].f # p.f
  IN  /\ p # Nil
      /\ putting' = [putting EXCEPT ![t] = Nil]
      /\ sRefs' = Stored(p.s, p.f, p.v)
      /\ writer' = [writer EXCEPT ![p.m][p.f] =
                      IF alone /\ cell[p.m][p.f] = p.v /\ sMem[p.s] = p.m THEN p.s ELSE Nil]
      /\ UNCHANGED <<sMem, strHeld, liveMem, liveVal, cell, direct>>

\* The Ruby method raises, or its thread is killed: nothing is stored
AbortPut(t) ==
  /\ putting[t] # Nil
  /\ putting' = [putting EXCEPT ![t] = Nil]
  /\ UNCHANGED <<sMem, sRefs, strHeld, heapVars, direct>>

\* inline_array_aset writes an address and keeps no reference
PutElement(s, f, v) ==
  /\ cell' = [cell EXCEPT ![sMem[s]][f] = v]
  /\ writer' = [writer EXCEPT ![sMem[s]][f] = Nil]
  /\ UNCHANGED <<sMem, sRefs, strHeld, liveMem, liveVal, putting, direct>>

\* InnerStruct#put, inline_array_aset of a struct: the bytes are copied, no
\* references
CopyInto(s, src) ==
  /\ src \in strHeld \cap Str /\ sMem[src] # sMem[s]
  /\ cell' = [cell EXCEPT ![sMem[s]] = cell[sMem[src]]]
  /\ writer' = [writer EXCEPT ![sMem[s]] = EmptyRefs]
  /\ UNCHANGED <<sMem, sRefs, strHeld, liveMem, liveVal, putting, direct>>

\* Struct#clear
ClearStruct(s) ==
  /\ cell' = [cell EXCEPT ![sMem[s]] = EmptyRefs]
  /\ writer' = [writer EXCEPT ![sMem[s]] = EmptyRefs]
  /\ UNCHANGED <<sMem, sRefs, strHeld, liveMem, liveVal, putting, direct>>

StructNext ==
  \/ \E s \in Str, m \in Mem : NewStruct(s, m) \/ StructOver(s, m) \/ SetPointer(s, m)
  \/ \E s \in Str, src \in Str : OrderStruct(s, src) \/ \E m \in Mem : DupStruct(s, src, m)
  \/ \E s \in strHeld \cap Str :
       \/ ClearStruct(s) \/ \E src \in Str : CopyInto(s, src)
       \/ \E f \in Field, v \in (strHeld \cap Val) \cup {Nil} :
            Put(s, f, v) \/ PutElement(s, f, v) \/ \E t \in Putter : BeginPut(t, s, f, v)
  \/ \E t \in Putter : EndPut(t) \/ AbortPut(t)
  \/ \E v \in Val : NewVal(v) \/ SweepVal(v)
  \/ \E x \in Str \cup Val : ForgetStr(x)
  \/ \E s \in Str : SweepStruct(s)
  \/ \E m \in Mem : SweepMem(m)

StructSpec == StructInit /\ [][StructNext]_strVars

-----------------------------------------------------------------------------
\* Type invariant
StructTypeOK ==
  /\ sMem \in [Str -> Mem \cup {Nil}]
  /\ sRefs \in [Str -> [Field -> Val \cup {Nil}] \cup {NoRefs}]
  /\ strHeld \subseteq Str \cup Val /\ liveMem \subseteq Mem /\ liveVal \subseteq Val
  /\ cell \in [Mem -> [Field -> Val \cup {Nil}]]
  /\ writer \in [Mem -> [Field -> Str \cup {Nil}]]
  /\ \A t \in Busy : putting[t] \in [s : Str, m : Mem, f : Field, v : Val \cup {Nil}]
  /\ direct \subseteq Field

\* The memory of a reachable struct is there, and an address in it leads to a live
\* object as long as the struct through which it was assigned last is reachable and
\* lies over that memory: after copies, reordering and new pointers too
\* (store_reference_value, struct_mark, struct_initialize_copy).  Addresses assigned
\* through an inline array or a struct that is gone are kept by nobody.
ReferencesKeepPointees ==
  \A s \in MarkedStr :
    /\ sMem[s] \in liveMem
    /\ \A m \in liveMem, f \in Field :
         writer[m][f] = s => sMem[s] = m /\ cell[m][f] \in liveVal \cup {Nil}
=============================================================================
