-------------------------- MODULE ClosurePool_proofs --------------------------
(***************************************************************************)
(* Proofs about ClosurePool, for every set of pages, every number of       *)
(* closures per page and both build variants.                              *)
(***************************************************************************)
EXTENDS ClosurePool, FiniteSetTheorems, SequenceTheorems, TLAPS

-----------------------------------------------------------------------------
(* Lemmas about the free list as a sequence. *)

(* Pushing c on the front of s (rbffi_Closure_Free). *)
LEMMA PushFront ==
  ASSUME NEW S, NEW s \in Seq(S), NEW c \in S
  PROVE  /\ <<c>> \o s \in Seq(S)
         /\ Range(<<c>> \o s) = {c} \cup Range(s)
         /\ IsInjective(s) /\ c \notin Range(s) => IsInjective(<<c>> \o s)
<1> DEFINE t == <<c>> \o s
<1>1. /\ t \in Seq(S)
      /\ DOMAIN t = 1 .. Len(s) + 1
      /\ DOMAIN s = 1 .. Len(s)
      /\ Len(s) \in Nat
  OBVIOUS
<1>2. t[1] = c
  OBVIOUS
<1>3. \A i \in 1 .. Len(s) : t[i + 1] = s[i]
  OBVIOUS
<1>4. \A i \in DOMAIN t : i = 1 \/ (i - 1 \in DOMAIN s /\ t[i] = s[i - 1])
  BY <1>1, <1>3
<1> HIDE DEF t
<1>5. Range(t) = {c} \cup Range(s)
  <2>1. ASSUME NEW x \in Range(t) PROVE x \in {c} \cup Range(s)
    BY <1>1, <1>2, <1>4 DEF Range
  <2>2. ASSUME NEW x \in {c} \cup Range(s) PROVE x \in Range(t)
    <3>1. CASE x = c
      BY <3>1, <1>1, <1>2 DEF Range
    <3>2. CASE x \in Range(s)
      <4>1. PICK i \in DOMAIN s : s[i] = x
        BY <3>2 DEF Range
      <4>2. i + 1 \in DOMAIN t /\ t[i + 1] = x
        BY <4>1, <1>1, <1>3
      <4> QED  BY <4>2 DEF Range
    <3> QED  BY <3>1, <3>2
  <2> QED  BY <2>1, <2>2
<1>6. ASSUME IsInjective(s), c \notin Range(s)
      PROVE  IsInjective(t)
  <2>1. \A i \in DOMAIN s : s[i] # c
    BY <1>6 DEF Range
  <2>2. ASSUME NEW i \in DOMAIN t, NEW j \in DOMAIN t, t[i] = t[j]
        PROVE  i = j
    BY <2>1, <2>2, <1>1, <1>2, <1>4, <1>6 DEF IsInjective
  <2> QED  BY <2>2 DEF IsInjective
<1> QED  BY <1>1, <1>5, <1>6 DEF t

(* Taking the head of s (rbffi_Closure_Alloc). *)
LEMMA PopFront ==
  ASSUME NEW S, NEW s \in Seq(S), s # <<>>
  PROVE  /\ Head(s) \in Range(s)
         /\ Tail(s) \in Seq(S)
         /\ Range(s) = {Head(s)} \cup Range(Tail(s))
         /\ IsInjective(s) => IsInjective(Tail(s)) /\ Head(s) \notin Range(Tail(s))
<1> DEFINE t == Tail(s)
<1>1. /\ t \in Seq(S)
      /\ DOMAIN s = 1 .. Len(s)
      /\ Len(s) \in Nat \ {0}
      /\ DOMAIN t = 1 .. Len(s) - 1
      /\ Head(s) = s[1]
  OBVIOUS
<1>2. \A i \in 1 .. Len(s) - 1 : t[i] = s[i + 1]
  OBVIOUS
<1> HIDE DEF t
<1>3. Head(s) \in Range(s)
  BY <1>1 DEF Range
<1>4. ASSUME NEW x \in Range(t) PROVE x \in Range(s)
  <2>1. PICK i \in DOMAIN t : t[i] = x
    BY DEF Range
  <2>2. i + 1 \in DOMAIN s /\ s[i + 1] = x
    BY <2>1, <1>1, <1>2
  <2> QED  BY <2>2 DEF Range
<1>5. ASSUME NEW x \in Range(s), x # Head(s) PROVE x \in Range(t)
  <2>1. PICK i \in DOMAIN s : s[i] = x
    BY DEF Range
  <2>2. i - 1 \in DOMAIN t /\ t[i - 1] = x
    BY <2>1, <1>1, <1>2, <1>5
  <2> QED  BY <2>2 DEF Range
<1>6. ASSUME IsInjective(s)
      PROVE  IsInjective(t) /\ Head(s) \notin Range(t)
  <2>1. ASSUME NEW i \in DOMAIN t, NEW j \in DOMAIN t, t[i] = t[j]
        PROVE  i = j
    <3>1. i + 1 \in DOMAIN s /\ j + 1 \in DOMAIN s /\ s[i + 1] = s[j + 1]
      BY <2>1, <1>1, <1>2
    <3> QED  BY <3>1, <1>1, <1>6 DEF IsInjective
  <2>2. \A i \in DOMAIN t : t[i] # Head(s)
    BY <1>1, <1>2, <1>6 DEF IsInjective
  <2> QED  BY <2>1, <2>2 DEF IsInjective, Range
<1> QED  BY <1>1, <1>3, <1>4, <1>5, <1>6 DEF t

-----------------------------------------------------------------------------
(* Lemmas about a new block. *)

(* Its closures are its first one and the spare ones, each of them once. *)
LEMMA SpareProperties ==
  ASSUME NEW b \in Block
  PROVE  /\ SpareClosures(b) \in Seq(Closure)
         /\ [block |-> b, slot |-> 1] \in Closure
         /\ Range(SpareClosures(b)) = ClosuresOf(b) \ {[block |-> b, slot |-> 1]}
         /\ IsInjective(SpareClosures(b))
         /\ UseFFIAlloc => SpareClosures(b) = <<>>
<1> DEFINE n == NClosures
           s == SpareClosures(b)
<1>1. n \in Nat \ {0}
  BY PerPageAssumption DEF NClosures
<1>2. /\ s = [i \in 1 .. n - 1 |-> [block |-> b, slot |-> i + 1]]
      /\ Closure = [block : Block, slot : 1 .. n]
      /\ UseFFIAlloc => n = 1
  BY DEF SpareClosures, Closure, NClosures
<1> HIDE DEF n, s
<1>3. s \in Seq(Closure)
  <2>1. n - 1 \in Nat /\ \A i \in 1 .. n - 1 : i + 1 \in 1 .. n
    BY <1>1
  <2>2. s \in [1 .. n - 1 -> Closure]
    BY <2>1, <1>2
  <2> QED  BY <2>1, <2>2, IsASeq
<1>4. [block |-> b, slot |-> 1] \in Closure
  BY <1>1, <1>2
<1>5. Range(s) = ClosuresOf(b) \ {[block |-> b, slot |-> 1]}
  <2>1. ASSUME NEW x \in Range(s)
        PROVE  x \in ClosuresOf(b) \ {[block |-> b, slot |-> 1]}
    <3>1. PICK i \in 1 .. n - 1 : x = [block |-> b, slot |-> i + 1]
      BY <1>2 DEF Range
    <3>2. i + 1 \in 1 .. n /\ i + 1 # 1
      BY <3>1, <1>1
    <3> QED  BY <3>1, <3>2, <1>2 DEF ClosuresOf
  <2>2. ASSUME NEW x \in ClosuresOf(b) \ {[block |-> b, slot |-> 1]}
        PROVE  x \in Range(s)
    <3>1. PICK k \in 1 .. n : x = [block |-> b, slot |-> k]
      BY <2>2, <1>2 DEF ClosuresOf
    <3>2. k # 1
      BY <3>1, <2>2
    <3>3. k - 1 \in 1 .. n - 1 /\ s[k - 1] = x
      BY <3>1, <3>2, <1>1, <1>2
    <3> QED  BY <3>3, <1>2 DEF Range
  <2> QED  BY <2>1, <2>2
<1>6. IsInjective(s)
  BY <1>1, <1>2 DEF IsInjective
<1>7. UseFFIAlloc => s = <<>>
  <2>1. n = 1 => DOMAIN s = {}
    BY <1>2
  <2> QED  BY <2>1, <1>2, <1>3
<1> QED  BY <1>3, <1>4, <1>5, <1>6, <1>7 DEF s

(* Threading the spare closures onto the free list, which is empty unless    *)
(* there are none (rbffi_Closure_Alloc).                                     *)
LEMMA ThreadBlock ==
  ASSUME NEW b \in Block, list \in Seq(Closure), IsInjective(list),
         UseFFIAlloc \/ list = <<>>
  PROVE  /\ SpareClosures(b) \o list \in Seq(Closure)
         /\ Range(SpareClosures(b) \o list) = Range(SpareClosures(b)) \cup Range(list)
         /\ IsInjective(SpareClosures(b) \o list)
<1>1. /\ SpareClosures(b) \in Seq(Closure)
      /\ IsInjective(SpareClosures(b))
      /\ UseFFIAlloc => SpareClosures(b) = <<>>
  BY SpareProperties
<1>2. Range(<<>>) = {}
  BY DEF Range
<1>3. CASE UseFFIAlloc
  <2>1. SpareClosures(b) \o list = list
    BY <1>1, <1>3
  <2> QED  BY <2>1, <1>1, <1>2, <1>3
<1>4. CASE list = <<>>
  <2>1. SpareClosures(b) \o list = SpareClosures(b)
    BY <1>1, <1>4
  <2> QED  BY <2>1, <1>1, <1>2, <1>4
<1> QED  BY <1>3, <1>4

-----------------------------------------------------------------------------
(* The inductive invariant. *)

(* The reference count tells whether anybody is left (FreedWithLastReference). *)
LEMMA CountTellsUse == TypeOK /\ RefcntCounts => FreedWithLastReference
<1> SUFFICES ASSUME TypeOK, RefcntCounts PROVE FreedWithLastReference
  OBVIOUS
<1>1. Cardinality(held) \in Nat /\ (Cardinality(held) = 0 <=> held = {})
  BY FS_CardinalityType, FS_EmptySet DEF RefcntCounts
<1> QED  BY <1>1 DEF TypeOK, RefcntCounts, FreedWithLastReference

(* rbffi_ClosurePool_New establishes it. *)
LEMMA InitIInv == Init => IInv
<1> SUFFICES ASSUME Init PROVE IInv
  OBVIOUS
<1>1. Range(list) = {} /\ IsInjective(list)
  BY DEF Init, Range, IsInjective
<1>2. TypeOK
  BY DEF Init, TypeOK
<1>3. RefcntCounts
  BY FS_EmptySet DEF Init, RefcntCounts
<1> QED  BY <1>1, <1>2, <1>3 DEF Init, IInv, KnownClosuresMapped, FreeListExclusive

(* Dropping a reference keeps the count, the types and the mapped pages.     *)
LEMMA DropReferenceStep ==
  ASSUME IInv, alive, DropReference,
         IsFiniteSet(held'),
         (IF owned' THEN 1 ELSE 0) + Cardinality(held')
            = (IF owned THEN 1 ELSE 0) + Cardinality(held) - 1
  PROVE  /\ RefcntCounts'
         /\ refcnt' \in Nat /\ alive' \in BOOLEAN
         /\ blocks' \in Seq(Block) /\ mapped' \in SUBSET Block
         /\ alive' => alive /\ mapped' = mapped
<1>1. refcnt' = refcnt - 1 /\ refcnt \in Nat /\ refcnt # 0
  BY DEF DropReference, IInv, TypeOK, RefcntCounts
<1>2. /\ alive' <=> refcnt' # 0
      /\ alive' \in BOOLEAN /\ blocks' \in Seq(Block) /\ mapped' \in SUBSET Block
      /\ alive' => mapped' = mapped
  <2>1. CASE refcnt - 1 = 0
    <3>1. alive' = FALSE /\ blocks' = <<>> /\ mapped' = mapped \ Range(blocks)
      BY <2>1 DEF DropReference, Cleanup
    <3>2. refcnt' = 0
      BY <1>1, <2>1
    <3>3. ~alive' /\ alive' \in BOOLEAN
      BY <3>1
    <3>4. blocks' \in Seq(Block) /\ mapped' \in SUBSET Block
      BY <3>1 DEF IInv, TypeOK
    <3> QED  BY <3>2, <3>3, <3>4, Zenon
  <2>2. CASE refcnt - 1 # 0
    <3>1. alive' = alive /\ mapped' = mapped /\ blocks' = blocks
      BY <2>2 DEF DropReference
    <3>2. refcnt' # 0
      BY <1>1, <2>2
    <3>3. alive' \in BOOLEAN /\ blocks' \in Seq(Block) /\ mapped' \in SUBSET Block
      BY <3>1 DEF IInv, TypeOK
    <3>4. alive'
      BY <3>1, Zenon
    <3> QED  BY <3>1, <3>2, <3>3, <3>4, Zenon
  <2> QED  BY <2>1, <2>2
<1>3. refcnt' = (IF owned' THEN 1 ELSE 0) + Cardinality(held')
  <2>1. refcnt = (IF owned THEN 1 ELSE 0) + Cardinality(held)
    BY DEF IInv, RefcntCounts
  <2>2. Cardinality(held) \in Nat /\ Cardinality(held') \in Nat
    BY FS_CardinalityType DEF IInv, RefcntCounts
  <2> QED  BY <1>1, <2>1, <2>2
<1> QED  BY <1>1, <1>2, <1>3 DEF RefcntCounts

LEMMA PoolFreeIInv == IInv /\ PoolFree => IInv'
<1> SUFFICES ASSUME IInv, PoolFree PROVE IInv'
  OBVIOUS
<1> USE DEF IInv
<1>1. /\ owned /\ alive /\ owned' = FALSE /\ DropReference
      /\ held' = held /\ list' = list /\ result' = Nothing
  BY DEF PoolFree
<1>2. IsFiniteSet(held) /\ Cardinality(held) \in Nat
  BY FS_CardinalityType DEF RefcntCounts
<1>3. /\ RefcntCounts'
      /\ refcnt' \in Nat /\ alive' \in BOOLEAN
      /\ blocks' \in Seq(Block) /\ mapped' \in SUBSET Block
      /\ alive' => alive /\ mapped' = mapped
  BY <1>1, <1>2, DropReferenceStep
<1>4. TypeOK'
  BY <1>1, <1>3 DEF TypeOK
<1>5. KnownClosuresMapped'
  BY <1>1, <1>3 DEF KnownClosuresMapped
<1>6. FreeListExclusive'
  BY <1>1 DEF FreeListExclusive
<1> QED  BY <1>3, <1>4, <1>5, <1>6

LEMMA AllocFromListIInv == IInv /\ AllocFromList => IInv'
<1> SUFFICES ASSUME IInv, AllocFromList PROVE IInv'
  OBVIOUS
<1> USE DEF IInv
<1> DEFINE c == Head(list)
<1>1. /\ list \in Seq(Closure) /\ list # <<>>
      /\ list' = Tail(list) /\ held' = held \cup {c}
      /\ refcnt' = refcnt + 1 /\ alive /\ result' = c
      /\ UNCHANGED <<alive, owned, blocks, mapped>>
  BY DEF AllocFromList, TypeOK
<1>2. /\ c \in Range(list) /\ c \in Closure
      /\ Tail(list) \in Seq(Closure)
      /\ Range(list) = {c} \cup Range(Tail(list))
      /\ IsInjective(list) => IsInjective(Tail(list)) /\ c \notin Range(Tail(list))
  BY <1>1, PopFront
<1> HIDE DEF c
<1>3. c \notin held
  BY <1>2 DEF FreeListExclusive
<1>4. TypeOK'
  BY <1>1, <1>2 DEF TypeOK
<1>5. RefcntCounts'
  <2>1. /\ IsFiniteSet(held')
        /\ Cardinality(held') = Cardinality(held) + 1
        /\ Cardinality(held) \in Nat
    BY <1>1, <1>3, FS_AddElement, FS_CardinalityType DEF RefcntCounts
  <2> QED  BY <1>1, <2>1 DEF RefcntCounts, TypeOK
<1>6. KnownClosuresMapped'
  BY <1>1, <1>2 DEF KnownClosuresMapped
<1>7. FreeListExclusive'
  BY <1>1, <1>2 DEF FreeListExclusive
<1> QED  BY <1>4, <1>5, <1>6, <1>7

LEMMA AllocBlockIInv == \A b \in Block : IInv /\ AllocBlock(b) => IInv'
<1> SUFFICES ASSUME NEW b \in Block, IInv, AllocBlock(b) PROVE IInv'
  OBVIOUS
<1> USE DEF IInv
<1> DEFINE c == [block |-> b, slot |-> 1]
           s == SpareClosures(b)
<1>1. /\ alive /\ b \notin mapped /\ (UseFFIAlloc \/ list = <<>>)
      /\ mapped' = mapped \cup {b}
      /\ blocks' = IF UseFFIAlloc THEN <<b>> ELSE <<b>> \o blocks
      /\ list' = s \o list /\ held' = held \cup {c}
      /\ refcnt' = refcnt + 1 /\ result' = c
      /\ UNCHANGED <<alive, owned>>
  BY DEF AllocBlock
<1>2. /\ c \in Closure /\ c.block = b
      /\ Range(s) = ClosuresOf(b) \ {c}
      /\ IsInjective(s)
  BY SpareProperties
<1>3. /\ list' \in Seq(Closure)
      /\ Range(list') = Range(s) \cup Range(list)
      /\ IsInjective(list')
  BY <1>1, ThreadBlock DEF TypeOK, FreeListExclusive
<1> HIDE DEF c, s
<1>4. \A d \in Range(s) \cup {c} : d.block = b /\ d \in Closure
  BY <1>2 DEF ClosuresOf
<1>5. \A d \in Range(list) \cup held : d.block \in mapped
  BY <1>1 DEF KnownClosuresMapped
<1>6. TypeOK'
  <2>1. blocks' \in Seq(Block)
    BY <1>1, PushFront DEF TypeOK
  <2> QED  BY <1>1, <1>2, <1>3, <2>1 DEF TypeOK
<1>7. RefcntCounts'
  <2>1. c \notin held
    BY <1>1, <1>2, <1>5
  <2>2. /\ IsFiniteSet(held')
        /\ Cardinality(held') = Cardinality(held) + 1
        /\ Cardinality(held) \in Nat
    BY <1>1, <2>1, FS_AddElement, FS_CardinalityType DEF RefcntCounts
  <2> QED  BY <1>1, <2>2 DEF RefcntCounts, TypeOK
<1>8. KnownClosuresMapped'
  BY <1>1, <1>3, <1>4, <1>5 DEF KnownClosuresMapped
<1>9. FreeListExclusive'
  BY <1>1, <1>2, <1>3, <1>4, <1>5 DEF FreeListExclusive
<1> QED  BY <1>6, <1>7, <1>8, <1>9

LEMMA ClosureFreeIInv == \A c \in Closure : IInv /\ ClosureFree(c) => IInv'
<1> SUFFICES ASSUME NEW c \in Closure, IInv, ClosureFree(c) PROVE IInv'
  OBVIOUS
<1> USE DEF IInv
<1>1. /\ c \in held /\ held' = held \ {c} /\ list' = <<c>> \o list
      /\ DropReference /\ owned' = owned /\ result' = Nothing
  BY DEF ClosureFree
<1>2. alive
  BY <1>1, CountTellsUse DEF FreedWithLastReference
<1>3. /\ IsFiniteSet(held')
      /\ Cardinality(held') = Cardinality(held) - 1
      /\ Cardinality(held) \in Nat
  BY <1>1, FS_RemoveElement, FS_CardinalityType DEF RefcntCounts
<1>4. /\ RefcntCounts'
      /\ refcnt' \in Nat /\ alive' \in BOOLEAN
      /\ blocks' \in Seq(Block) /\ mapped' \in SUBSET Block
      /\ alive' => alive /\ mapped' = mapped
  BY <1>1, <1>2, <1>3, DropReferenceStep
<1>5. /\ list' \in Seq(Closure)
      /\ Range(list') = {c} \cup Range(list)
      /\ c \notin Range(list) => IsInjective(list')
  BY <1>1, PushFront DEF TypeOK, FreeListExclusive
<1>6. TypeOK'
  BY <1>1, <1>4, <1>5 DEF TypeOK
<1>7. KnownClosuresMapped'
  BY <1>1, <1>4, <1>5 DEF KnownClosuresMapped
<1>8. FreeListExclusive'
  BY <1>1, <1>5 DEF FreeListExclusive
<1> QED  BY <1>4, <1>6, <1>7, <1>8

LEMMA StepIInv == IInv /\ [Next]_vars => IInv'
<1> SUFFICES ASSUME IInv, [Next]_vars PROVE IInv'
  OBVIOUS
<1>1. CASE AllocFails
  BY <1>1 DEF AllocFails, IInv, TypeOK, RefcntCounts, KnownClosuresMapped, FreeListExclusive
<1>2. CASE UNCHANGED vars
  BY <1>2 DEF vars, IInv, TypeOK, RefcntCounts, KnownClosuresMapped, FreeListExclusive
<1> QED
  BY <1>1, <1>2, PoolFreeIInv, AllocFromListIInv, AllocBlockIInv, ClosureFreeIInv DEF Next

(* The inductive invariant holds in every behaviour of the pool. *)
THEOREM InductiveInvariant == Spec => []IInv
<1> QED  BY InitIInv, StepIInv, PTL DEF Spec

-----------------------------------------------------------------------------
(* What follows from it. *)

(* The pool's fields keep their types; in particular the reference count is  *)
(* never decremented below zero.                                             *)
THEOREM TypeCorrect == Spec => []TypeOK
<1>1. IInv => TypeOK
  BY DEF IInv
<1> QED  BY <1>1, InductiveInvariant, PTL

(* rbffi_Closure_Alloc never gives a closure to two clients. *)
THEOREM FreeListIsExclusive == Spec => []FreeListExclusive
<1>1. IInv => FreeListExclusive
  BY DEF IInv
<1> QED  BY <1>1, InductiveInvariant, PTL

(* The pool is freed with its last reference, not earlier and not later. *)
THEOREM FreedInTime == Spec => []FreedWithLastReference
<1>1. IInv => FreedWithLastReference
  BY CountTellsUse DEF IInv
<1> QED  BY <1>1, InductiveInvariant, PTL

(* A closure that is handed out is in memory that is allocated, in both      *)
(* builds and in whatever order references are dropped.                      *)
THEOREM HandlesAreBacked == Spec => []HandlesBacked
<1>1. IInv => HandlesBacked
  BY CountTellsUse DEF IInv, FreedWithLastReference, KnownClosuresMapped, HandlesBacked
<1> QED  BY <1>1, InductiveInvariant, PTL

-----------------------------------------------------------------------------
(* No closure is lost. *)

(* The closures of all pages. *)
Closures == UNION {ClosuresOf(b) : b \in mapped}

(* Allocations, failures and releases move closures between the free list    *)
(* and the clients, and keep all of them.                                    *)
LEMMA StepNoClosureLost == IInv /\ NoClosureLost /\ [Next]_vars => NoClosureLost'
<1> SUFFICES ASSUME IInv, NoClosureLost, [Next]_vars, alive'
             PROVE  Closures' = Range(list') \cup held'
  BY DEF NoClosureLost, Closures
<1> USE DEF Closures
<1>1. CASE PoolFree
  <2>1. alive /\ UNCHANGED <<mapped, list, held>>
    BY <1>1 DEF PoolFree, DropReference, Cleanup
  <2> QED  BY <2>1 DEF NoClosureLost
<1>2. CASE AllocFromList
  <2>1. /\ alive /\ list \in Seq(Closure) /\ list # <<>> /\ mapped' = mapped
        /\ list' = Tail(list) /\ held' = held \cup {Head(list)}
    BY <1>2 DEF AllocFromList, IInv, TypeOK
  <2>2. Range(list) = {Head(list)} \cup Range(Tail(list))
    BY <2>1, PopFront
  <2> QED  BY <2>1, <2>2 DEF NoClosureLost
<1>3. ASSUME NEW b \in Block, AllocBlock(b)
      PROVE  Closures' = Range(list') \cup held'
  <2> DEFINE c == [block |-> b, slot |-> 1]
             s == SpareClosures(b)
  <2>1. /\ alive /\ (UseFFIAlloc \/ list = <<>>) /\ mapped' = mapped \cup {b}
        /\ list' = s \o list /\ held' = held \cup {c}
    BY <1>3 DEF AllocBlock
  <2>2. Range(s) = ClosuresOf(b) \ {c} /\ c \in ClosuresOf(b)
    BY SpareProperties DEF ClosuresOf
  <2>3. Range(s \o list) = Range(s) \cup Range(list)
    BY <2>1, ThreadBlock DEF IInv, TypeOK, FreeListExclusive
  <2> HIDE DEF c, s
  <2>4. Closures' = Closures \cup ClosuresOf(b)
    BY <2>1
  <2> QED  BY <2>1, <2>2, <2>3, <2>4 DEF NoClosureLost
<1>4. CASE AllocFails
  BY <1>4 DEF AllocFails, NoClosureLost
<1>5. ASSUME NEW c \in Closure, ClosureFree(c)
      PROVE  Closures' = Range(list') \cup held'
  <2>1. /\ c \in held /\ held' = held \ {c} /\ list' = <<c>> \o list
        /\ mapped' = mapped
    BY <1>5 DEF ClosureFree, DropReference, Cleanup
  <2>2. Range(list') = {c} \cup Range(list)
    BY <2>1, PushFront DEF IInv, TypeOK
  <2>3. alive
    BY <2>1, CountTellsUse DEF IInv, FreedWithLastReference
  <2> QED  BY <2>1, <2>2, <2>3 DEF NoClosureLost
<1>6. CASE UNCHANGED vars
  BY <1>6 DEF vars, NoClosureLost
<1> QED  BY <1>1, <1>2, <1>3, <1>4, <1>5, <1>6 DEF Next

(* As long as the pool lives every closure of its pages is either free or    *)
(* handed out, also when a page holds only one (PerPage = 1).                *)
THEOREM NothingIsLost == Spec => []NoClosureLost
<1>1. Init => NoClosureLost
  <2> SUFFICES ASSUME Init PROVE NoClosureLost
    OBVIOUS
  <2>1. Range(list) = {} /\ held = {} /\ mapped = {}
    BY DEF Init, Range
  <2> QED  BY <2>1 DEF NoClosureLost
<1> QED  BY <1>1, StepNoClosureLost, InductiveInvariant, PTL DEF Spec

-----------------------------------------------------------------------------
(* The page allocator, the build without USE_FFI_ALLOC. *)

(* Pushing a block onto pool->blocks keeps track of it, and the cleanup      *)
(* frees all of them.                                                        *)
LEMMA StepTracked ==
  ASSUME ~UseFFIAlloc
  PROVE  IInv /\ BlocksTrackAllMemory /\ [Next]_vars => BlocksTrackAllMemory'
<1> SUFFICES ASSUME IInv, BlocksTrackAllMemory, [Next]_vars
             PROVE  mapped' = Range(blocks')
  BY DEF BlocksTrackAllMemory
<1> USE DEF BlocksTrackAllMemory
<1>1. ASSUME DropReference PROVE mapped' = Range(blocks')
  <2>1. CASE UNCHANGED <<mapped, blocks>>
    BY <2>1
  <2>2. CASE Cleanup
    <3>1. mapped' = {} /\ blocks' = <<>>
      BY <2>2 DEF Cleanup
    <3> QED  BY <3>1 DEF Range
  <2> QED  BY <1>1, <2>1, <2>2 DEF DropReference
<1>2. ASSUME NEW b \in Block, AllocBlock(b) PROVE mapped' = Range(blocks')
  <2>1. mapped' = mapped \cup {b} /\ blocks' = <<b>> \o blocks
    BY <1>2 DEF AllocBlock
  <2> QED  BY <2>1, PushFront DEF IInv, TypeOK
<1>3. CASE UNCHANGED <<mapped, blocks>>
  BY <1>3
<1> QED  BY <1>1, <1>2, <1>3
         DEF Next, vars, PoolFree, AllocFromList, AllocFails, ClosureFree

(* pool->blocks keeps track of all the memory of the pool. *)
THEOREM AllMemoryTracked == ASSUME ~UseFFIAlloc PROVE Spec => []BlocksTrackAllMemory
<1>1. Init => BlocksTrackAllMemory
  BY DEF Init, Range, BlocksTrackAllMemory
<1>2. IInv /\ BlocksTrackAllMemory /\ [Next]_vars => BlocksTrackAllMemory'
  BY StepTracked
<1> QED  BY <1>1, <1>2, InductiveInvariant, PTL DEF Spec

(* Every step of the pool is a step of its abstract specification. *)
LEMMA StepRefines ==
  ASSUME ~UseFFIAlloc
  PROVE  IInv /\ BlocksTrackAllMemory /\ [Next]_vars
           => [Store!Next]_(Store!vars)
<1> SUFFICES ASSUME IInv, BlocksTrackAllMemory, [Next]_vars
             PROVE  [Store!Next]_<<owned, held, Closures>>
  BY DEF Store!vars, Closures
<1>1. Cardinality(held) \in Nat /\ (Cardinality(held) = 0 <=> held = {})
  BY FS_CardinalityType, FS_EmptySet DEF IInv, RefcntCounts
<1>2. /\ refcnt = (IF owned THEN 1 ELSE 0) + Cardinality(held)
      /\ owned \in BOOLEAN
  BY DEF IInv, TypeOK, RefcntCounts
<1>3. /\ UNCHANGED mapped => Closures' = Closures
      /\ Cleanup => Closures' = {}
  BY DEF Cleanup, BlocksTrackAllMemory, Closures
<1>4. CASE PoolFree
  <2>1. owned /\ owned' = FALSE /\ held' = held /\ DropReference
    BY <1>4 DEF PoolFree
  <2>2. refcnt - 1 = 0 <=> held = {}
    BY <1>1, <1>2, <2>1
  <2>3. Closures' = IF held # {} THEN Closures ELSE {}
    BY <1>3, <2>1, <2>2 DEF DropReference
  <2>4. Store!Abandon
    BY <2>1, <2>3 DEF Store!Abandon, Store!Remaining, Closures
  <2> QED  BY <2>4 DEF Store!Next
<1>5. CASE AllocFromList
  <2> DEFINE c == Head(list)
  <2>1. /\ alive /\ owned /\ owned' = owned /\ list \in Seq(Closure) /\ list # <<>>
        /\ mapped' = mapped /\ held' = held \cup {c}
    BY <1>5 DEF AllocFromList, IInv, TypeOK
  <2>2. c \in Range(list)
    BY <2>1, PopFront
  <2>3. c \in Closure
    BY <2>1
  <2> HIDE DEF c
  <2>4. c \notin held /\ c.block \in mapped
    BY <2>1, <2>2 DEF IInv, FreeListExclusive, KnownClosuresMapped
  <2>5. c \in Closures' /\ Closures \subseteq Closures'
    BY <2>1, <2>3, <2>4 DEF Closures, ClosuresOf
  <2>6. Store!Take(c)
    BY <2>1, <2>4, <2>5 DEF Store!Take, Closures
  <2> QED  BY <2>3, <2>6 DEF Store!Next
<1>6. ASSUME NEW b \in Block, AllocBlock(b)
      PROVE  [Store!Next]_<<owned, held, Closures>>
  <2> DEFINE c == [block |-> b, slot |-> 1]
  <2>1. /\ alive /\ owned /\ owned' = owned /\ b \notin mapped
        /\ mapped' = mapped \cup {b} /\ held' = held \cup {c}
    BY <1>6 DEF AllocBlock
  <2>2. c \in Closure /\ c.block = b
    BY SpareProperties
  <2> HIDE DEF c
  <2>3. c \notin held
    BY <2>1, <2>2 DEF IInv, KnownClosuresMapped
  <2>4. c \in Closures' /\ Closures \subseteq Closures'
    BY <2>1, <2>2 DEF Closures, ClosuresOf
  <2>5. Store!Take(c)
    BY <2>1, <2>3, <2>4 DEF Store!Take, Closures
  <2> QED  BY <2>2, <2>5 DEF Store!Next
<1>7. CASE AllocFails
  BY <1>7 DEF AllocFails, Closures
<1>8. ASSUME NEW c \in Closure, ClosureFree(c)
      PROVE  [Store!Next]_<<owned, held, Closures>>
  <2>1. c \in held /\ held' = held \ {c} /\ owned' = owned /\ DropReference
    BY <1>8 DEF ClosureFree
  <2>2. /\ Cardinality(held') = Cardinality(held) - 1
        /\ Cardinality(held') \in Nat /\ (Cardinality(held') = 0 <=> held' = {})
    BY <2>1, FS_RemoveElement, FS_CardinalityType, FS_EmptySet DEF IInv, RefcntCounts
  <2>3. refcnt - 1 = 0 <=> ~owned /\ held' = {}
    BY <1>1, <1>2, <2>2
  <2>4. Closures' = IF owned \/ held' # {} THEN Closures ELSE {}
    BY <1>3, <2>1, <2>3 DEF DropReference
  <2>5. Store!Give(c)
    BY <2>1, <2>4 DEF Store!Give, Store!Remaining, Closures
  <2> QED  BY <2>5 DEF Store!Next
<1>9. CASE UNCHANGED vars
  BY <1>9 DEF vars, Closures
<1> QED  BY <1>4, <1>5, <1>6, <1>7, <1>8, <1>9 DEF Next

(* The page allocator implements ClosureStore: handles are exclusive and     *)
(* backed, and nothing of the memory is left when nobody is.                 *)
THEOREM PoolImplementsStore == ASSUME ~UseFFIAlloc PROVE Spec => StoreSpec
<1>1. Init => Store!Init
  BY DEF Init, Store!Init
<1>2. IInv /\ BlocksTrackAllMemory /\ [Next]_vars => [Store!Next]_(Store!vars)
  BY StepRefines
<1>3. Spec => []BlocksTrackAllMemory
  BY AllMemoryTracked
<1> QED  BY <1>1, <1>2, <1>3, InductiveInvariant, PTL DEF Spec, StoreSpec, Store!Spec
=============================================================================
