---------------------------- MODULE MemoryObjects ----------------------------
(***************************************************************************)
(* FFI::Pointer, FFI::MemoryPointer and FFI::Buffer objects, the storage   *)
(* they own and the views made of them (Pointer.c, MemoryPointer.c,        *)
(* Buffer.c).                                                              *)
(*                                                                         *)
(* An object records an address, a size and flags.  A MemoryPointer, a     *)
(* Buffer and a copied Pointer own the storage behind their address; a     *)
(* slice, a sum, a byte swapped view and a Pointer made of another one     *)
(* only point into it and mark the object they were made of, their parent. *)
(* The garbage collector sweeps unreachable objects in any order, a parent *)
(* before its view too.                                                    *)
(*                                                                         *)
(* An address is a storage and an offset.  Byte order and contents are     *)
(* left out: no operation here depends on them.                            *)
(***************************************************************************)
EXTENDS MemoryAccess, Functions

CONSTANTS
  Obj,       \* objects; the id of an owner also names its storage
  Counts,    \* counts given to MemoryPointer.new and Buffer.new
  Offsets,   \* offsets and lengths given to slice and +
  Pad,       \* bytes allocated for alignment: 7
  EmbedMax,  \* BUFFER_EMBED_MAXLEN
  Storages,  \* bound: storages at the same time
  Null,      \* the storage of the NULL pointer
  NoObj

ASSUME ObjectAssumption ==
  /\ NoObj \notin Obj /\ Null \notin Obj
  /\ Counts \subseteq Long /\ Offsets \subseteq Long
  /\ Pad \in 1..LongMax /\ EmbedMax \in Nat
  /\ 1 \in TypeSizes

VARIABLES
  heap,     \* the objects that are not swept
  memHeld,  \* objects Ruby code refers to
  room,     \* bytes behind the aligned address of each storage
  store     \* "none", "live", "freed" by the program, or "left" to native code

memVars == <<heap, memHeld, room, store>>

NoMemory == [kind |-> "none"]

\* p->memory and what a Pointer or Buffer adds to it.  owns: p->storage is set
\* (p->allocated says the same); unsized: history, its size
\* is negative, it was asked to be unbounded, or it was made of such an object
Memory == [kind : {"pointer", "memory", "buffer", "part"}, root : Obj \cup {Null},
           off : Int, size : Long, tsize : TypeSizes, access : SUBSET {"RD", "WR"}, parent : Obj \cup {NoObj},
           owns : BOOLEAN, autorelease : BOOLEAN, unsized : BOOLEAN]

MemoryInit ==
  /\ heap = [o \in Obj |-> NoMemory]
  /\ memHeld = {}
  /\ room = [o \in Obj |-> 0]
  /\ store = [o \in Obj |-> "none"]

Exists(o) == heap[o].kind # "none"

\* Mutation of Marks: slices do not mark
MarksNothing(o) == {}

\* ptr_mark, sliced_buffer_mark; MemoryPointer and allocated Buffer mark nothing
Marks(o) ==
  IF Exists(o) /\ heap[o].kind \in {"pointer", "part"} THEN {heap[o].parent} \ {NoObj} ELSE {}

\* What the garbage collector marks: the least set that holds what Ruby code
\* refers to and is closed under Marks
Marked ==
  {o \in Obj : \A S \in SUBSET Obj :
     (memHeld \subseteq S /\ \A x \in S : Marks(x) \subseteq S) => o \in S}

-----------------------------------------------------------------------------
(* Making objects *)

\* A free id; storage left to native code keeps its address for ever
Fresh(o) == ~Exists(o) /\ store[o] # "left"

Made(o, m) ==
  /\ Fresh(o)
  /\ m.root = o => Cardinality({x \in Obj : store[x] # "none"}) < Storages
  /\ heap' = [heap EXCEPT ![o] = m]
  /\ memHeld' = memHeld \cup {o}

\* rbffi_Pointer_NewInstance, ptr_initialize with an address.  A pointer to memory
\* ffi did not allocate differs from NULL by its flags; no property speaks of it.
PointerTo(root) ==
  [kind |-> "pointer", root |-> root, off |-> 0, size |-> LongMax, tsize |-> 1,
   access |-> IF root = Null THEN {} ELSE {"RD", "WR"}, parent |-> NoObj,
   owns |-> FALSE, autorelease |-> FALSE, unsized |-> FALSE]

NewPointer(o) == Made(o, PointerTo(Null)) /\ UNCHANGED <<room, store>>

\* Mutation of Claim: nothing is added for alignment
ClaimUnpadded(o, size) ==
  /\ Unsigned(size) <= LongMax
  /\ room' = [room EXCEPT ![o] = Unsigned(size) - Pad]
  /\ store' = [store EXCEPT ![o] = "live"]

\* xmalloc(size + 7), aligned; xmalloc raises for what is negative as a long
Claim(o, size) ==
  LET bytes == Unsigned(Unsigned(size) + Pad)
  IN  /\ bytes <= LongMax
      /\ room' = [room EXCEPT ![o] = bytes - Pad]
      /\ store' = [store EXCEPT ![o] = "live"]

Owner(o, kind, size, tsize) ==
  [PointerTo(o) EXCEPT !.kind = kind, !.size = size, !.tsize = tsize,
                       !.owns = TRUE, !.unsized = size < 0,
                       !.autorelease = kind # "buffer"]

\* memptr_initialize, memptr_malloc
NewMemoryPointer(o, tsize, count) ==
  LET size == AsLong(tsize * count)
  IN  Made(o, Owner(o, "memory", size, tsize)) /\ Claim(o, size)

\* buffer_initialize
NewBuffer(o, tsize, count) ==
  LET size == AsLong(tsize * count)
      buffer == Owner(o, "buffer", size, tsize)
  IN  \/ size > EmbedMax /\ Made(o, buffer) /\ Claim(o, size)
      \/ /\ size <= EmbedMax
         /\ Made(o, [buffer EXCEPT !.owns = FALSE])
         /\ room' = [room EXCEPT ![o] = EmbedMax]
         /\ store' = [store EXCEPT ![o] = "live"]

-----------------------------------------------------------------------------
(* Views *)

\* A part of src.  As a mutation of ViewOf: the view forgets what it was made of
PartOf(src, off, size) ==
  LET m == heap[src]
  IN  [m EXCEPT !.kind = IF m.kind \in {"buffer", "part"} THEN "part" ELSE "pointer",
                !.off = IF m.root \in Obj /\ ~m.unsized THEN m.off + off ELSE 0, !.size = size,
                !.parent = NoObj, !.owns = FALSE, !.autorelease = FALSE]

ViewOf(src, off, size) == [PartOf(src, off, size) EXCEPT !.parent = src]

IsPointer(o) == heap[o].kind \in {"pointer", "memory"}
Viewed(o, m) == Made(o, m) /\ UNCHANGED <<room, store>>

\* slice of Pointer.c: a length of LONG_MAX asks for an unbounded pointer, of which
\* the first byte is checked
PointerSlice(o, src, off, size) ==
  LET unbounded == size = LongMax
      view == ViewOf(src, off, size)
  IN  /\ IsPointer(src)
      /\ InBounds(heap[src].size, off, IF unbounded THEN 1 ELSE size)
      /\ Viewed(o, [view EXCEPT !.unsized = @ \/ (unbounded /\ heap[src].size # LongMax)])

\* slice of Buffer.c
BufferSlice(o, src, off, size) ==
  /\ ~IsPointer(src)
  /\ InBounds(heap[src].size, off, size)
  /\ Viewed(o, ViewOf(src, off, size))

\* ptr_plus, buffer_plus, and memory_aref, which adds an unsigned product
PointerPlus(o, src, off) ==
  LET size == heap[src].size
  IN  PointerSlice(o, src, off, IF size = LongMax THEN LongMax ELSE Wrap(size - off))
BufferPlus(o, src, off) == BufferSlice(o, src, off, Wrap(heap[src].size - off))
Aref(o, src, idx) ==
  LET off == Unsigned(Unsigned(idx) * heap[src].tsize)
  IN  off <= LongMax /\ (PointerPlus(o, src, off) \/ BufferPlus(o, src, off))

\* Asked for the order the machine does not have
PointerOrder(o, src) == PointerSlice(o, src, 0, heap[src].size)
BufferOrder(o, src)  == BufferSlice(o, src, 0, heap[src].size)

\* ptr_initialize with a pointer and no type
PointerFrom(o, src) ==
  /\ IsPointer(src)
  /\ Viewed(o, [ViewOf(src, 0, heap[src].size) EXCEPT !.tsize = 1])

\* The copy's flags are tested, not src's.  memcpy from a view of NULL, from freed
\* memory or of a negative size is undefined: the process ends, or goes on with the
\* copy that was made.
Copied(o, src, kind) ==
  LET m == heap[src]
  IN  /\ Made(o, Owner(o, kind, m.size, m.tsize))
      /\ Claim(o, m.size)

\* ptr_initialize_copy, buffer_initialize_copy: the copy owns its storage
DupPointer(o, src) ==
  IsPointer(src) /\ heap[src].size # LongMax /\ Copied(o, src, heap[src].kind)
DupBuffer(o, src) == ~IsPointer(src) /\ Copied(o, src, "buffer")

-----------------------------------------------------------------------------
(* Freezing, freeing, forgetting *)

CanChange(o) == IsPointer(o) /\ heap[o].owns /\ "WR" \in heap[o].access

\* memory_freeze of an owner, told by its flags from then on.  A view, which has
\* nothing to free, only loses accesses.
Freeze(o) ==
  /\ CanChange(o)
  /\ heap' = [heap EXCEPT ![o].access = {"RD"}]
  /\ UNCHANGED <<memHeld, room, store>>

\* ptr_autorelease
SetAutorelease(o, auto) ==
  /\ CanChange(o)
  /\ heap' = [heap EXCEPT ![o].autorelease = auto]
  /\ UNCHANGED <<memHeld, room, store>>

\* xfree(p->storage); p->storage = NULL.  The address stays.
Freed(o) ==
  /\ heap' = [heap EXCEPT ![o].owns = FALSE]
  /\ store' = [store EXCEPT ![o] = "freed"]
  /\ UNCHANGED <<memHeld, room>>

\* Mutation of FreeMemoryPointer: the storage pointer is not reset
FreeKeepsStorage(o) ==
  /\ heap[o].kind = "memory" /\ CanChange(o)
  /\ store' = [store EXCEPT ![o] = "freed"]
  /\ UNCHANGED <<heap, memHeld, room>>

\* memptr_free, also at the end of MemoryPointer.new's block
FreeMemoryPointer(o) == heap[o].kind = "memory" /\ CanChange(o) /\ Freed(o)

\* ptr_free of a copy; it only warns of a pointer that owns nothing
FreePointer(o) == heap[o].kind = "pointer" /\ CanChange(o) /\ Freed(o)

\* allocated_buffer_free, at the end of Buffer.new's block, whether it raised or not
EndBlock(o) == heap[o].kind = "buffer" /\ heap[o].owns /\ Freed(o)

\* Ruby code forgets a reference
Forget(o) == memHeld' = memHeld \ {o} /\ UNCHANGED <<heap, room, store>>

\* The collector frees an object; left: its storage is left to native code
Swept(o, left) ==
  /\ Exists(o) /\ o \notin Marked
  /\ heap' = [heap EXCEPT ![o] = NoMemory]
  /\ store' = [store EXCEPT ![o] = IF left THEN "left" ELSE "none"]
  /\ room' = [room EXCEPT ![o] = 0]
  /\ UNCHANGED memHeld

\* ptr_release, memptr_release: autorelease = false leaves the storage
SweepPointer(o) ==
  heap[o].kind = "pointer" /\ Swept(o, heap[o].owns /\ ~heap[o].autorelease)
SweepMemoryPointer(o) ==
  heap[o].kind = "memory" /\ Swept(o, heap[o].owns /\ ~heap[o].autorelease)

\* allocated_buffer_release; the storage of a small buffer goes with it
SweepBuffer(o) == heap[o].kind \in {"buffer", "part"} /\ Swept(o, FALSE)

MemoryNext ==
  \/ \E o \in Obj : NewPointer(o) \/ SweepPointer(o) \/ SweepMemoryPointer(o) \/ SweepBuffer(o)
  \/ \E o \in Obj, t \in TypeSizes, n \in Counts : NewMemoryPointer(o, t, n) \/ NewBuffer(o, t, n)
  \/ \E o \in Obj, src \in memHeld :
       \/ \E off \in Offsets, size \in Offsets :
            PointerSlice(o, src, off, size) \/ BufferSlice(o, src, off, size)
       \/ \E off \in Offsets : PointerPlus(o, src, off) \/ BufferPlus(o, src, off) \/ Aref(o, src, off)
       \/ PointerOrder(o, src) \/ BufferOrder(o, src) \/ PointerFrom(o, src)
       \/ DupPointer(o, src) \/ DupBuffer(o, src)
  \/ \E o \in memHeld : \/ Freeze(o) \/ FreePointer(o) \/ FreeMemoryPointer(o) \/ EndBlock(o)
                        \/ Forget(o) \/ \E auto \in BOOLEAN : SetAutorelease(o, auto)

MemorySpec == MemoryInit /\ [][MemoryNext]_memVars

-----------------------------------------------------------------------------
(* Properties *)

\* Type invariant
MemoryTypeOK ==
  /\ \A o \in Obj : heap[o] = NoMemory \/ heap[o] \in Memory
  /\ memHeld \subseteq {o \in Obj : Exists(o)}
  /\ room \in [Obj -> Int]
  /\ store \in [Obj -> {"none", "live", "freed", "left"}]

\* Storage is freed once and never lost: an owner's storage is live, and live
\* storage has an owner or lies inside a small Buffer (xfree in Pointer.c,
\* MemoryPointer.c and Buffer.c, from free, a block's end or the collector).
StorageOwned ==
  \A o \in Obj :
    /\ (Exists(o) /\ heap[o].owns) => store[o] = "live"
    /\ store[o] = "live" =>
         /\ Exists(o) /\ heap[o].root = o
         /\ heap[o].owns \/ (heap[o].kind = "buffer" /\ heap[o].size <= EmbedMax)

\* The collector never frees the storage under an object the program can still
\* reach, through however many views it was made (rbParent).  What the program
\* freed itself it must not use.
ViewsBacked ==
  \A o \in Marked :
    heap[o].root \in Obj => store[heap[o].root] \in {"live", "freed"} /\ Exists(heap[o].root)

\* No accessor that checks leaves the storage of an object the program can reach,
\* whatever chain of slices and sums led to it and whatever wrapped on the way, nor
\* reaches anything through NULL.  The copy of an inner struct, made without a check
\* by __copy_from__ (frozen memory is written too, and NULL), stays in the storage
\* it writes, and in the one it reads if that is as large as the struct's layout,
\* NULL aside: a struct laid over a smaller memory is exempt.  What was made with a
\* negative size (from a negative count, or a product that wraps) or asked to be
\* unbounded is exempt, and its views.
AccessesInBounds ==
  \A o \in Marked :
    LET m == heap[o]
        touched == (IF "RD" \in m.access THEN Readable[m.size] ELSE {}) \cup
                   (IF "WR" \in m.access THEN Writable[m.size] ELSE {})
        Backed(b) == m.off + b \in 0..(room[m.root] - 1)
    IN  ~m.unsized =>
          /\ \A b \in touched : m.root # Null /\ Backed(b)
          /\ \A b \in Copyable[m.size] : m.root # Null => Backed(b)
=============================================================================
