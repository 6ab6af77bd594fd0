----------------------------- MODULE ClosurePool -----------------------------
(***************************************************************************)
(* The closure pool of src/ext/ffi_c/ClosurePool.c: one page allocator of  *)
(* native trampolines, shared by every FFI::Function of one function type  *)
(* (or, for the default pool, by every attached method).                   *)
(*                                                                         *)
(* The pool is reference counted: one reference belongs to the owner that  *)
(* called rbffi_ClosurePool_New, one to each closure that is handed out.   *)
(* The references are dropped in whatever order the garbage collector      *)
(* sweeps the owner and the functions, and the last one frees the pages.   *)
(*                                                                         *)
(* Every operation runs under the GVL and never releases it, so each is    *)
(* one atomic action.  UseFFIAlloc selects the variant the build compiles. *)
(***************************************************************************)
EXTENDS Integers, Sequences, FiniteSets, Functions

CONSTANTS
  Block,        \* the pages (with their Closure arrays) the system can supply
  PerPage,      \* nclosures: how many closures fit one page
  UseFFIAlloc,  \* TRUE for a build with -DUSE_FFI_ALLOC
  Nothing,      \* result of an operation that returns no closure
  Raised        \* result of an allocation that raised RuntimeError

ASSUME PerPageAssumption == PerPage \in Nat \ {0}
ASSUME VariantAssumption == UseFFIAlloc \in BOOLEAN
ASSUME ResultAssumption  == Nothing # Raised

(* ffi_closure_alloc hands out one closure at a time, a page holds nclosures. *)
NClosures == IF UseFFIAlloc THEN 1 ELSE PerPage

Closure == [block : Block, slot : 1 .. NClosures]

VARIABLES
  alive,    \* the ClosurePool struct has not been freed
  owned,    \* the creator still has its reference
  refcnt,   \* pool->refcnt
  blocks,   \* pool->blocks, head first
  list,     \* pool->list, the free list, head first
  mapped,   \* the blocks whose page and Closure array are allocated
  held,     \* the closures handed out and not yet given back
  result    \* what the last operation returned

vars == <<alive, owned, refcnt, blocks, list, mapped, held, result>>

ClosuresOf(b) == {c \in Closure : c.block = b}

(* Mutations of SpareClosures: the list is threaded from its first closure, *)
(* or one closure short.                                                    *)
AllClosures(b) == [i \in 1 .. NClosures |-> [block |-> b, slot |-> i]]
TooFewClosures(b) == [i \in 1 .. NClosures - 2 |-> [block |-> b, slot |-> i + 1]]

(* The closures of a new block, apart from the first one, in their order. *)
SpareClosures(b) == [i \in 1 .. NClosures - 1 |-> [block |-> b, slot |-> i + 1]]

-----------------------------------------------------------------------------

(* rbffi_ClosurePool_New *)
Init ==
  /\ alive = TRUE
  /\ owned = TRUE
  /\ refcnt = 1
  /\ blocks = <<>>
  /\ list = <<>>
  /\ mapped = {}
  /\ held = {}
  /\ result = Nothing

(* Mutation of Cleanup: the blocks' pages are not freed. *)
CleanupKeepsPages ==
  /\ alive' = FALSE
  /\ blocks' = <<>>
  /\ UNCHANGED mapped

(* cleanup_closure_pool: frees what the list of blocks reaches, and the pool. *)
Cleanup ==
  /\ alive' = FALSE
  /\ mapped' = mapped \ Range(blocks)
  /\ blocks' = <<>>

(* --refcnt, and the cleanup when that was the last reference. *)
DropReference ==
  /\ refcnt' = refcnt - 1
  /\ IF refcnt - 1 = 0 THEN Cleanup ELSE UNCHANGED <<alive, mapped, blocks>>

(* Mutation of PoolFree: the pool goes with its owner. *)
PoolFreeAtOnce ==
  /\ alive
  /\ owned
  /\ owned' = FALSE
  /\ refcnt' = refcnt - 1
  /\ Cleanup
  /\ result' = Nothing
  /\ UNCHANGED <<list, held>>

(* rbffi_ClosurePool_Free, by the owner: fntype_free. *)
PoolFree ==
  /\ alive
  /\ owned
  /\ owned' = FALSE
  /\ DropReference
  /\ result' = Nothing
  /\ UNCHANGED <<list, held>>

(* Mutation of AllocFromList: the handle is not counted. *)
AllocFromListUncounted ==
  /\ alive
  /\ owned
  /\ ~UseFFIAlloc
  /\ list # <<>>
  /\ list' = Tail(list)
  /\ held' = held \cup {Head(list)}
  /\ result' = Head(list)
  /\ UNCHANGED <<alive, owned, refcnt, blocks, mapped>>

(* rbffi_Closure_Alloc, free list not empty: its head is the new handle. *)
AllocFromList ==
  /\ alive
  /\ owned
  /\ ~UseFFIAlloc
  /\ list # <<>>
  /\ list' = Tail(list)
  /\ refcnt' = refcnt + 1
  /\ held' = held \cup {Head(list)}
  /\ result' = Head(list)
  /\ UNCHANGED <<alive, owned, blocks, mapped>>

(* Mutation of AllocBlock: every build overwrites pool->blocks. *)
AllocBlockOverwrites(b) ==
  /\ alive
  /\ owned
  /\ UseFFIAlloc \/ list = <<>>
  /\ b \notin mapped
  /\ mapped' = mapped \cup {b}
  /\ blocks' = <<b>>
  /\ list' = SpareClosures(b) \o list
  /\ refcnt' = refcnt + 1
  /\ held' = held \cup {[block |-> b, slot |-> 1]}
  /\ result' = [block |-> b, slot |-> 1]
  /\ UNCHANGED <<alive, owned>>

(* rbffi_Closure_Alloc, free list empty or not read: a fresh block supplies   *)
(* the new handle, and all its closures but the first go onto the free list.  *)
(* The page allocator pushes the block on pool->blocks, the USE_FFI_ALLOC     *)
(* build overwrites pool->blocks with it.                                     *)
AllocBlock(b) ==
  /\ alive
  /\ owned
  /\ UseFFIAlloc \/ list = <<>>
  /\ b \notin mapped
  /\ mapped' = mapped \cup {b}
  /\ blocks' = IF UseFFIAlloc THEN <<b>> ELSE <<b>> \o blocks
  /\ list' = SpareClosures(b) \o list
  /\ refcnt' = refcnt + 1
  /\ held' = held \cup {[block |-> b, slot |-> 1]}
  /\ result' = [block |-> b, slot |-> 1]
  /\ UNCHANGED <<alive, owned>>

(* Mutation of AllocFails: the error path drops a reference it never took. *)
AllocFailsUncounting ==
  /\ alive
  /\ owned
  /\ UseFFIAlloc \/ list = <<>>
  /\ refcnt' = refcnt - 1
  /\ result' = Raised
  /\ UNCHANGED <<alive, owned, blocks, list, mapped, held>>

(* rbffi_Closure_Alloc, label error: calloc, the page, prep or mprotect failed, *)
(* what had been allocated for the new block is freed and RuntimeError raised.  *)
AllocFails ==
  /\ alive
  /\ owned
  /\ UseFFIAlloc \/ list = <<>>
  /\ result' = Raised
  /\ UNCHANGED <<alive, owned, refcnt, blocks, list, mapped, held>>

(* rbffi_Closure_Free: the closure goes to the front of the free list and its *)
(* reference is dropped.                                                      *)
ClosureFree(c) ==
  /\ c \in held
  /\ list' = <<c>> \o list
  /\ held' = held \ {c}
  /\ DropReference
  /\ result' = Nothing
  /\ UNCHANGED owned

Next ==
  \/ PoolFree
  \/ AllocFromList
  \/ \E b \in Block : AllocBlock(b)
  \/ AllocFails
  \/ \E c \in Closure : ClosureFree(c)

Spec == Init /\ [][Next]_vars

-----------------------------------------------------------------------------

(* Type invariant of the pool's fields and of its clients' handles. *)
TypeOK ==
  /\ alive \in BOOLEAN
  /\ owned \in BOOLEAN
  /\ refcnt \in Nat
  /\ blocks \in Seq(Block)
  /\ list \in Seq(Closure)
  /\ mapped \in SUBSET Block
  /\ held \in SUBSET Closure
  /\ result \in Closure \cup {Nothing, Raised}

(* A closure that is handed out lies in memory that is still allocated, and  *)
(* its pool (rbffi_Closure_Free reads closure->pool) has not been freed,     *)
(* whatever the order in which owner and functions are swept.                *)
HandlesBacked ==
  /\ held # {} => alive
  /\ \A c \in held : c.block \in mapped

(* A closure on the free list is not handed out, and is on the list once:    *)
(* rbffi_Closure_Alloc never gives one trampoline to two functions.          *)
FreeListExclusive ==
  /\ Range(list) \cap held = {}
  /\ IsInjective(list)

(* Every closure of a tracked page is either free or handed out: no sequence *)
(* of allocations, failures and releases loses one.                          *)
NoClosureLost ==
  alive => UNION {ClosuresOf(b) : b \in mapped} = Range(list) \cup held

(* The pool is freed exactly when its owner and all closures are gone.       *)
FreedWithLastReference == alive <=> (owned \/ held # {})

(* The comment on pool->blocks (ClosurePool.c:75): "Keeps track of all the   *)
(* allocated memory for this pool".                                          *)
BlocksTrackAllMemory == mapped = Range(blocks)

-----------------------------------------------------------------------------
(* The inductive invariant. *)

(* The references: the owner's and one for each closure that is handed out. *)
RefcntCounts ==
  /\ IsFiniteSet(held)
  /\ refcnt = (IF owned THEN 1 ELSE 0) + Cardinality(held)
  /\ alive <=> refcnt # 0

(* While the pool lives, the closures it knows of lie in mapped pages. *)
KnownClosuresMapped ==
  alive => \A c \in Range(list) \cup held : c.block \in mapped

IInv ==
  /\ TypeOK
  /\ RefcntCounts
  /\ KnownClosuresMapped
  /\ FreeListExclusive

-----------------------------------------------------------------------------
(* The clients' view of the pool: a handle is backed while its page is. *)
Store == INSTANCE ClosureStore WITH
           Handle <- Closure,
           backed <- UNION {ClosuresOf(b) : b \in mapped}

StoreSpec == Store!Spec
=============================================================================
