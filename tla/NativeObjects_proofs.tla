-------------------------- MODULE NativeObjects_proofs --------------------------
(***************************************************************************)
(* For any number of threads in free and of views: the releaser of an      *)
(* AutoPointer gives the resource back once, and the finalizer neither     *)
(* forgets it nor takes it from a view.  For any number of structs,        *)
(* memories, values, fields and threads: the addresses a struct has        *)
(* assigned lead to live objects.  Last, what the runs check of these two  *)
(* and of memory objects side by side.                                     *)
(***************************************************************************)
EXTENDS MCNativeObjects, MemoryObjects_proofs, TLAPS

(* Auto pointers. *)

Quiet == \A t \in Freer : freeing[t] = "no"
Clean == "raised" \notin broken /\ "overlapped" \notin broken

\* Once the object has been swept or the process exits nobody can free or view it
FinalizerLast ==
  finalizer \in {"pending", "ran"} =>
    Quiet /\ (Exiting \/ (auto = "swept" /\ ~autoHeld /\ viewHeld = {}))

\* A releaser without a pointer has released
ForgottenReleased ==
  /\ auto \in {"live", "swept"} /\ ~autoPtr => releases > 0
  /\ \A t \in Freer : freeing[t] = "called" => releases > 0

\* As long as no proc raised late and no frees overlapped: one thread at most is in
\* free, and before the proc is done, or while nobody is in free, a pointer that is
\* set stands for a resource not given back
OneRelease ==
  Clean =>
    /\ \A t, u \in Freer : freeing[t] # "no" /\ freeing[u] # "no" => t = u
    /\ \A t \in Freer : freeing[t] = "calling" => releases = 0
    /\ Quiet /\ autoPtr /\ finalizer # "ran" => releases = 0
    /\ releases <= 1

\* The finalizer that ran has released, or had a reason not to
RanReleased == finalizer = "ran" => releases > 0 \/ ~autorelease \/ "dropped" \in broken

\* Nothing happens to a pointer that no AutoPointer was made of
Untouched == auto \in {"raw", "failed"} => ~autoHeld /\ ~autoPtr /\ Quiet /\ releases = 0

IInv == AutoTypeOK /\ FinalizerLast /\ ForgottenReleased /\ OneRelease /\ RanReleased /\ Untouched

LEMMA InitInv == AutoInit => IInv
<1>1. AutoInit => AutoFlags
  BY Zenon DEF AutoInit, AutoFlags
<1>2. AutoInit /\ AutoFlags => IInv
  BY SMT DEF AutoInit, IInv, AutoTypeOK, FinalizerLast, ForgottenReleased, OneRelease, RanReleased,
             Untouched, Quiet, Clean
<1> QED
  BY <1>1, <1>2

\* The flags are Booleans
LEMMA FlagsStep == AutoFlags /\ [AutoNext]_autoVars => AutoFlags'
<1> SUFFICES ASSUME AutoFlags, [AutoNext]_autoVars PROVE AutoFlags'
  OBVIOUS
<1> USE DEF AutoFlags
<1>1. CASE NewAuto
  BY <1>1, Zenon DEF NewAuto, releaserVars
<1>2. CASE ForgetAuto
  BY <1>2, Zenon DEF ForgetAuto, releaserVars
<1>3. CASE SweepAuto
  BY <1>3, Zenon DEF SweepAuto, AutoReachable, releaserVars
<1>4. CASE Exit
  BY <1>4, Zenon DEF Exit, releaserVars
<1>5. CASE Finalize
  BY <1>5, Zenon DEF Finalize, releaserVars, OneMore
<1>6. ASSUME NEW v \in View, MakeView(v) PROVE AutoFlags'
  BY <1>6, Zenon DEF MakeView, releaserVars
<1>7. ASSUME NEW v \in View, ForgetView(v) PROVE AutoFlags'
  BY <1>7, Zenon DEF ForgetView, releaserVars
<1>8. ASSUME NEW b \in BOOLEAN, SetAutoreleaseOf(b) PROVE AutoFlags'
  BY <1>8, Zenon DEF SetAutoreleaseOf
<1>9. ASSUME NEW t \in Freer, BeginFree(t) PROVE AutoFlags'
  BY <1>9, Zenon DEF BeginFree, releaserVars
<1>10. ASSUME NEW t \in Freer, ProcReleases(t) PROVE AutoFlags'
  BY <1>10, Zenon DEF ProcReleases, releaserVars, OneMore
<1>11. ASSUME NEW t \in Freer, EndFree(t) PROVE AutoFlags'
  BY <1>11, Zenon DEF EndFree
<1>12. ASSUME NEW t \in Freer, FreeRaises(t) PROVE AutoFlags'
  BY <1>12, Zenon DEF FreeRaises, releaserVars
<1>13. CASE UNCHANGED autoVars
  BY <1>13, Zenon DEF autoVars, releaserVars
<1> QED
  BY <1>1, <1>2, <1>3, <1>4, <1>5, <1>6, <1>7, <1>8, <1>9, <1>10, <1>11, <1>12, <1>13 DEF AutoNext

LEMMA NextInv == IInv /\ [AutoNext]_autoVars => IInv'
<1> SUFFICES ASSUME IInv, [AutoNext]_autoVars PROVE IInv'
  OBVIOUS
<1>0. AutoFlags'
  BY FlagsStep DEF IInv, AutoTypeOK
<1> USE <1>0 DEF IInv, AutoTypeOK, FinalizerLast, ForgottenReleased, OneRelease, RanReleased, Untouched,
                 Quiet, Clean, Exiting
<1>1. CASE NewAuto
  BY <1>1, SMT DEF NewAuto, releaserVars
<1>2. CASE ForgetAuto
  BY <1>2, SMT DEF ForgetAuto, releaserVars
<1>3. CASE SweepAuto
  BY <1>3, SMT DEF SweepAuto, AutoReachable, releaserVars
<1>4. CASE Exit
  BY <1>4, SMT DEF Exit, releaserVars
<1>5. CASE Finalize
  <2>1. /\ finalizer = "pending" /\ finalizer' = "ran"
        /\ auto \in {"live", "swept"}
        /\ UNCHANGED <<auto, autoHeld, viewHeld, autoPtr, autorelease, freeing>>
    BY <1>5, SMT DEF Finalize, releaserVars
  <2>2. CASE autorelease /\ autoPtr /\ releases' = OneMore /\ broken' = broken
    BY <2>1, <2>2, SMT DEF OneMore
  <2>3. CASE broken' = broken \cup {"dropped"} /\ releases' = releases
    BY <2>1, <2>3, SMT
  <2>4. CASE ~(autorelease /\ autoPtr) /\ releases' = releases /\ broken' = broken
    <3>1. RanReleased'
      BY <2>1, <2>4
    <3> QED
      BY <2>1, <2>4, <3>1, SMT
  <2> QED
    BY <1>5, <2>2, <2>3, <2>4 DEF Finalize
<1>6. ASSUME NEW v \in View, MakeView(v) PROVE IInv'
  BY <1>6, SMT DEF MakeView, releaserVars
<1>7. ASSUME NEW v \in View, ForgetView(v) PROVE IInv'
  BY <1>7, SMT DEF ForgetView, releaserVars
<1>8. ASSUME NEW b \in BOOLEAN, SetAutoreleaseOf(b) PROVE IInv'
  BY <1>8, SMT DEF SetAutoreleaseOf
<1>9. ASSUME NEW t \in Freer, BeginFree(t) PROVE IInv'
  BY <1>9, SMT DEF BeginFree, releaserVars
<1>10. ASSUME NEW t \in Freer, ProcReleases(t) PROVE IInv'
  BY <1>10, SMT DEF ProcReleases, releaserVars, OneMore
<1>11. ASSUME NEW t \in Freer, EndFree(t) PROVE IInv'
  BY <1>11, SMT DEF EndFree
<1>12. ASSUME NEW t \in Freer, FreeRaises(t) PROVE IInv'
  BY <1>12, SMT DEF FreeRaises, releaserVars
<1>13. CASE UNCHANGED autoVars
  BY <1>13, SMT DEF autoVars, releaserVars
<1> QED
  BY <1>1, <1>2, <1>3, <1>4, <1>5, <1>6, <1>7, <1>8, <1>9, <1>10, <1>11, <1>12, <1>13 DEF AutoNext

\* The invariant the others follow from
THEOREM AutoInvariant == AutoSpec => []IInv
BY InitInv, NextInv, PTL DEF AutoSpec

\* free and the finalizer do not both give the resource back, nor do two threads
\* (Releaser#free, Releaser#call), unless a proc raised late or two frees overlapped
THEOREM ReleasesOnce == AutoSpec => []ReleasedOnce
<1>1. IInv => ReleasedOnce
  BY SMT DEF IInv, AutoTypeOK, OneRelease, ReleasedOnce, Clean
<1> QED
  BY AutoInvariant, <1>1, PTL

\* A finalizer that has run has given the resource back or was told not to, and
\* before the process exits it runs when no view is left (ptr_mark, Releaser#call)
THEOREM FinalizerInTime == AutoSpec => []CollectedReleased
<1>1. IInv => CollectedReleased
  BY SMT DEF IInv, FinalizerLast, RanReleased, CollectedReleased
<1> QED
  BY AutoInvariant, <1>1, PTL

\* The fields of the releaser keep their types, and an object has a finalizer
\* exactly from the end of initialize on
THEOREM AutoTypes == AutoSpec => []AutoTypeOK
BY AutoInvariant, PTL DEF IInv

-----------------------------------------------------------------------------
(* Structs. *)

Assignments == [s : Str, m : Mem, f : Field, v : Val \cup {Nil}]

Types ==
  /\ sMem \in [Str -> Mem \cup {Nil}]
  /\ sRefs \in [Str -> [Field -> Val \cup {Nil}] \cup {NoRefs}]
  /\ strHeld \subseteq Str \cup Val /\ liveMem \subseteq Mem /\ liveVal \subseteq Val
  /\ cell \in [Mem -> [Field -> Val \cup {Nil}]]
  /\ writer \in [Mem -> [Field -> Str \cup {Nil}]]
  /\ putting \in [Putter -> Assignments \cup {Nil}]
  /\ direct \subseteq Field

\* What is marked has not been swept
MarkedLive ==
  /\ \A s \in MarkedStr : sMem[s] \in liveMem
  /\ \A t \in Busy : putting[t].m \in liveMem
  /\ strHeld \cap Val \subseteq liveVal
  /\ \A t \in Busy : putting[t].v \in liveVal \cup {Nil}
  /\ \A s \in MarkedStr : sRefs[s] # NoRefs => \A f \in Field : sRefs[s][f] \in liveVal \cup {Nil}

\* A cell whose writer is known holds what the writer keeps
WriterKeeps ==
  \A m \in Mem, f \in Field :
    writer[m][f] # Nil =>
      /\ m \in liveMem
      /\ sMem[writer[m][f]] = m
      /\ sRefs[writer[m][f]] # NoRefs
      /\ cell[m][f] = sRefs[writer[m][f]][f]

\* In the middle of an assignment the struct is not the writer of any such field
NoWriterMeanwhile ==
  \A t \in Busy :
    /\ putting[t].f \notin direct
    /\ \A m \in Mem : writer[m][putting[t].f] # putting[t].s

RInv == Types /\ MarkedLive /\ WriterKeeps /\ NoWriterMeanwhile
-----------------------------------------------------------------------------
\* One field of one memory changed
LEMMA CellPut ==
  ASSUME NEW S, NEW g \in [Mem -> [Field -> S]], NEW m \in Mem, NEW f \in Field,
  NEW v \in S
  PROVE  [g EXCEPT ![m][f] = v] \in [Mem -> [Field -> S]]
<1>1. [g[m] EXCEPT ![f] = v] \in [Field -> S]
  OBVIOUS
<1>2. [g EXCEPT ![m] = [g[m] EXCEPT ![f] = v]] \in [Mem -> [Field -> S]]
  BY <1>1
<1> QED
  BY <1>2

\* All the fields of one memory changed
LEMMA RowPut ==
  ASSUME NEW S, NEW g \in [Mem -> [Field -> S]], NEW m \in Mem, NEW r \in [Field -> S]
  PROVE  [g EXCEPT ![m] = r] \in [Mem -> [Field -> S]]
OBVIOUS

\* store_reference_value changes the reference of one field of one struct
LEMMA StoredIs ==
  ASSUME Types, NEW s \in Str, NEW f \in Field, NEW v \in Val \cup {Nil},
         NEW r, r = Stored(s, f, v)
  PROVE  /\ r \in [Str -> [Field -> Val \cup {Nil}] \cup {NoRefs}]
         /\ r[s] # NoRefs /\ r[s][f] = v
         /\ \A g \in Field \ {f} : r[s][g] = IF sRefs[s] = NoRefs THEN Nil ELSE sRefs[s][g]
         /\ \A q \in Str \ {s} : r[q] = sRefs[q]
<1> DEFINE refs == IF sRefs[s] = NoRefs THEN EmptyRefs ELSE sRefs[s]
           row == [refs EXCEPT ![f] = v]
<1>1. refs \in [Field -> Val \cup {Nil}]
  BY DEF Types, EmptyRefs
<1>2. /\ row \in [Field -> Val \cup {Nil}]
      /\ row[f] = v
      /\ \A g \in Field \ {f} : row[g] = refs[g]
  BY <1>1
<1>3. r = [sRefs EXCEPT ![s] = row]
  BY DEF Stored
<1>4. \A g \in Field : refs[g] = IF sRefs[s] = NoRefs THEN Nil ELSE sRefs[s][g]
  BY DEF EmptyRefs
<1>5. row # NoRefs
  BY <1>2, NilAssumption
<1> HIDE DEF refs, row
<1> QED
  BY <1>2, <1>3, <1>4, <1>5 DEF Types

\* The memory of a struct Ruby code refers to
LEMMA HeldHasMemory ==
  ASSUME Types, MarkedLive, NEW s \in strHeld \cap Str
  PROVE  sMem[s] \in Mem
BY DEF Types, MarkedLive, MarkedStr
-----------------------------------------------------------------------------
LEMMA StructInitInv == StructInit => RInv
BY SMT DEF StructInit, RInv, Types, MarkedLive, WriterKeeps, NoWriterMeanwhile,
     MarkedStr, Busy, EmptyRefs

LEMMA StructNextInv == RInv /\ [StructNext]_strVars => RInv'
<1> SUFFICES ASSUME RInv, [StructNext]_strVars PROVE RInv'
  OBVIOUS
<1> USE NilAssumption DEF RInv, Assignments
<1>1. ASSUME NEW s \in Str, NEW m \in Mem, NewStruct(s, m)
      PROVE  RInv'
  <2>1. Types'
    BY <1>1, SMT DEF Types, NewStruct, Bound
  <2>2. MarkedLive'
    BY <1>1, <2>1, SMT DEF Types, MarkedLive, MarkedStr, Busy, NewStruct, Bound
  <2>3. WriterKeeps'
    BY <1>1, <2>1, SMT DEF Types, MarkedLive, WriterKeeps, NoWriterMeanwhile,
         MarkedStr, Busy, NewStruct, Bound
  <2>4. NoWriterMeanwhile'
    BY <1>1, <2>1, SMT DEF Types, MarkedLive, WriterKeeps, NoWriterMeanwhile,
         MarkedStr, Busy, NewStruct, Bound
  <2> QED
    BY <2>1, <2>2, <2>3, <2>4
<1>2. ASSUME NEW s \in Str, NEW m \in Mem, StructOver(s, m)
      PROVE  RInv'
  <2>1. Types'
    BY <1>2, SMT DEF Types, StructOver, Bound, heapVars, MarkedMem
  <2>2. MarkedLive'
    BY <1>2, <2>1, SMT DEF Types, MarkedLive, MarkedStr, Busy, StructOver, Bound,
         heapVars, MarkedMem
  <2>3. WriterKeeps'
    BY <1>2, <2>1, SMT DEF Types, MarkedLive, WriterKeeps, NoWriterMeanwhile,
         MarkedStr, Busy, StructOver, Bound, heapVars, MarkedMem
  <2>4. NoWriterMeanwhile'
    BY <1>2, <2>1, SMT DEF Types, MarkedLive, WriterKeeps, NoWriterMeanwhile,
         MarkedStr, Busy, StructOver, Bound, heapVars, MarkedMem
  <2> QED
    BY <2>1, <2>2, <2>3, <2>4
<1>3. ASSUME NEW s \in Str, NEW m \in Mem, SetPointer(s, m)
      PROVE  RInv'
  <2>1. Types'
    <3>1. CopyWriter(sMem[s], s, Nil) \in [Field -> Str \cup {Nil}]
      BY DEF Types, CopyWriter
    <3>2. sMem[s] \in Mem
      BY <1>3, HeldHasMemory DEF SetPointer
    <3>3. m \in Mem
      BY <1>3
    <3>4. writer' \in [Mem -> [Field -> Str \cup {Nil}]]
      BY <1>3, <3>1, <3>2, RowPut DEF Types, SetPointer
    <3> QED
      BY <1>3, <3>1, <3>2, <3>3, <3>4 DEF Types, SetPointer
  <2>2. MarkedLive'
    BY <1>3, <2>1, SMT DEF Types, MarkedLive, MarkedStr, Busy, SetPointer, CopyWriter,
         MarkedMem
  <2>3. WriterKeeps'
    BY <1>3, <2>1, SMT DEF Types, MarkedLive, WriterKeeps, NoWriterMeanwhile,
         MarkedStr, Busy, SetPointer, CopyWriter, MarkedMem
  <2>4. NoWriterMeanwhile'
    BY <1>3, <2>1, SMT DEF Types, MarkedLive, WriterKeeps, NoWriterMeanwhile,
         MarkedStr, Busy, SetPointer, CopyWriter, MarkedMem
  <2> QED
    BY <2>1, <2>2, <2>3, <2>4
<1>4. ASSUME NEW s \in Str, NEW src \in Str, OrderStruct(s, src)
      PROVE  RInv'
  <2>1. Types'
    BY <1>4, SMT DEF Types, OrderStruct, Bound, CopiedRefs, heapVars
  <2>2. MarkedLive'
    BY <1>4, <2>1, SMT DEF Types, MarkedLive, MarkedStr, Busy, OrderStruct, Bound,
         CopiedRefs, heapVars
  <2>3. WriterKeeps'
    BY <1>4, <2>1, SMT DEF Types, MarkedLive, WriterKeeps, NoWriterMeanwhile,
         MarkedStr, Busy, OrderStruct, Bound, CopiedRefs, heapVars
  <2>4. NoWriterMeanwhile'
    BY <1>4, <2>1, SMT DEF Types, MarkedLive, WriterKeeps, NoWriterMeanwhile,
         MarkedStr, Busy, OrderStruct, Bound, CopiedRefs, heapVars
  <2> QED
    BY <2>1, <2>2, <2>3, <2>4
<1>5. ASSUME NEW s \in Str, NEW src \in Str, NEW m \in Mem, DupStruct(s, src, m)
      PROVE  RInv'
  <2>1. Types'
    <3>1. sMem[src] \in Mem
      BY <1>5, HeldHasMemory DEF DupStruct
    <3>2. CopyWriter(sMem[src], src, s) \in [Field -> Str \cup {Nil}]
      BY DEF Types, CopyWriter
    <3>3. cell' \in [Mem -> [Field -> Val \cup {Nil}]]
      BY <1>5, <3>1, RowPut DEF Types, DupStruct
    <3>4. writer' \in [Mem -> [Field -> Str \cup {Nil}]]
      BY <1>5, <3>2, RowPut DEF Types, DupStruct
    <3> QED
      BY <1>5, <3>1, <3>2, <3>3, <3>4 DEF Types, DupStruct, Bound, CopiedRefs
  <2>2. MarkedLive'
    BY <1>5, <2>1, SMT DEF Types, MarkedLive, MarkedStr, Busy, DupStruct, Bound,
         CopiedRefs, CopyWriter
  <2>3. WriterKeeps'
    BY <1>5, <2>1, SMT DEF Types, MarkedLive, WriterKeeps, NoWriterMeanwhile,
         MarkedStr, Busy, DupStruct, Bound, CopiedRefs, CopyWriter
  <2>4. NoWriterMeanwhile'
    BY <1>5, <2>1, SMT DEF Types, MarkedLive, WriterKeeps, NoWriterMeanwhile,
         MarkedStr, Busy, DupStruct, Bound, CopiedRefs, CopyWriter
  <2> QED
    BY <2>1, <2>2, <2>3, <2>4
<1>6. ASSUME NEW s \in strHeld \cap Str, ClearStruct(s)
      PROVE  RInv'
  <2>1. Types'
    <3>1. sMem[s] \in Mem
      BY HeldHasMemory
    <3>2. EmptyRefs \in [Field -> Val \cup {Nil}] /\ EmptyRefs \in [Field -> Str \cup {Nil}]
      BY DEF EmptyRefs
    <3>3. cell' \in [Mem -> [Field -> Val \cup {Nil}]]
      BY <1>6, <3>1, <3>2, RowPut DEF Types, ClearStruct
    <3>4. writer' \in [Mem -> [Field -> Str \cup {Nil}]]
      BY <1>6, <3>1, <3>2, RowPut DEF Types, ClearStruct
    <3> QED
      BY <1>6, <3>1, <3>2, <3>3, <3>4 DEF Types, ClearStruct
  <2>2. MarkedLive'
    BY <1>6, <2>1, SMT DEF Types, MarkedLive, MarkedStr, Busy, ClearStruct, EmptyRefs
  <2>3. WriterKeeps'
    BY <1>6, <2>1, SMT DEF Types, MarkedLive, WriterKeeps, NoWriterMeanwhile,
         MarkedStr, Busy, ClearStruct, EmptyRefs
  <2>4. NoWriterMeanwhile'
    BY <1>6, <2>1, SMT DEF Types, MarkedLive, WriterKeeps, NoWriterMeanwhile,
         MarkedStr, Busy, ClearStruct, EmptyRefs
  <2> QED
    BY <2>1, <2>2, <2>3, <2>4
<1>7. ASSUME NEW s \in strHeld \cap Str, NEW src \in Str, CopyInto(s, src)
      PROVE  RInv'
  <2>1. Types'
    <3>1. sMem[s] \in Mem /\ sMem[src] \in Mem
      BY <1>7, HeldHasMemory DEF CopyInto
    <3>2. EmptyRefs \in [Field -> Str \cup {Nil}]
      BY DEF EmptyRefs
    <3>3. cell' \in [Mem -> [Field -> Val \cup {Nil}]]
      BY <1>7, <3>1, RowPut DEF Types, CopyInto
    <3>4. writer' \in [Mem -> [Field -> Str \cup {Nil}]]
      BY <1>7, <3>1, <3>2, RowPut DEF Types, CopyInto
    <3> QED
      BY <1>7, <3>1, <3>2, <3>3, <3>4 DEF Types, CopyInto
  <2>2. MarkedLive'
    BY <1>7, <2>1, SMT DEF Types, MarkedLive, MarkedStr, Busy, CopyInto, EmptyRefs
  <2>3. WriterKeeps'
    BY <1>7, <2>1, SMT DEF Types, MarkedLive, WriterKeeps, NoWriterMeanwhile,
         MarkedStr, Busy, CopyInto, EmptyRefs
  <2>4. NoWriterMeanwhile'
    BY <1>7, <2>1, SMT DEF Types, MarkedLive, WriterKeeps, NoWriterMeanwhile,
         MarkedStr, Busy, CopyInto, EmptyRefs
  <2> QED
    BY <2>1, <2>2, <2>3, <2>4
<1>8. ASSUME NEW s \in strHeld \cap Str, NEW f \in Field,
             NEW v \in (strHeld \cap Val) \cup {Nil}, Put(s, f, v)
      PROVE  RInv'
  <2>1. Types'
    <3>1. sMem[s] \in Mem
      BY HeldHasMemory
    <3>2. cell' \in [Mem -> [Field -> Val \cup {Nil}]]
      BY <1>8, <3>1, CellPut DEF Types, Put
    <3>3. writer' \in [Mem -> [Field -> Str \cup {Nil}]]
      BY <1>8, <3>1, CellPut DEF Types, Put
    <3>4. sRefs' \in [Str -> [Field -> Val \cup {Nil}] \cup {NoRefs}]
      BY <1>8, StoredIs DEF Put
    <3> QED
      BY <1>8, <3>1, <3>2, <3>3, <3>4 DEF Types, Put
  <2> DEFINE old(g) == IF sRefs[s] = NoRefs THEN Nil ELSE sRefs[s][g]
  <2>2. /\ sRefs'[s] # NoRefs /\ sRefs'[s][f] = v
        /\ \A g \in Field \ {f} : sRefs'[s][g] = old(g)
        /\ \A q \in Str \ {s} : sRefs'[q] = sRefs[q]
    BY <1>8, StoredIs DEF Put
  <2>3. sMem[s] \in Mem
    BY HeldHasMemory
  <2>4. /\ cell'[sMem[s]][f] = v /\ writer'[sMem[s]][f] = s
        /\ \A m \in Mem, g \in Field : m # sMem[s] \/ g # f =>
             cell'[m][g] = cell[m][g] /\ writer'[m][g] = writer[m][g]
    BY <1>8, <2>3, SMT DEF Put, Types
  <2>5. UNCHANGED <<sMem, strHeld, liveMem, liveVal, putting, direct>>
    BY <1>8 DEF Put
  <2>6. MarkedLive'
    <3>1. MarkedStr' = MarkedStr /\ Busy' = Busy
      BY <2>5 DEF MarkedStr, Busy
    <3>2. v \in liveVal \cup {Nil}
      BY DEF MarkedLive
    <3>3. ASSUME NEW q \in MarkedStr, sRefs'[q] # NoRefs, NEW g \in Field
          PROVE  sRefs'[q][g] \in liveVal \cup {Nil}
      <4>1. q \in Str
        BY DEF MarkedStr, Busy, Types
      <4>2. CASE q # s
        BY <3>3, <4>1, <4>2, <2>2 DEF MarkedLive
      <4>3. CASE q = s /\ g = f
        BY <3>2, <4>3, <2>2
      <4>4. CASE q = s /\ g # f
        BY <3>3, <4>4, <2>2, SMT DEF MarkedLive
      <4> QED
        BY <4>2, <4>3, <4>4
    <3> QED
      BY <3>1, <3>3, <2>5 DEF MarkedLive
  <2>7. WriterKeeps'
    <3> SUFFICES ASSUME NEW m \in Mem, NEW g \in Field, writer'[m][g] # Nil
                 PROVE  /\ m \in liveMem
                        /\ sMem[writer'[m][g]] = m
                        /\ sRefs'[writer'[m][g]] # NoRefs
                        /\ cell'[m][g] = sRefs'[writer'[m][g]][g]
      BY <2>5 DEF WriterKeeps
    <3>1. CASE m = sMem[s] /\ g = f
      BY <3>1, <2>2, <2>4, SMT DEF MarkedLive, MarkedStr
    <3>2. CASE m # sMem[s] \/ g # f
      BY <3>2, <2>2, <2>4, SMT DEF Types, WriterKeeps
    <3> QED
      BY <3>1, <3>2
  <2>8. NoWriterMeanwhile'
    BY <1>8, <2>1, SMT DEF Types, MarkedLive, WriterKeeps, NoWriterMeanwhile,
         MarkedStr, Busy, Put, Stored, EmptyRefs
  <2> QED
    BY <2>1, <2>6, <2>7, <2>8
<1>9. ASSUME NEW s \in strHeld \cap Str, NEW f \in Field,
             NEW v \in (strHeld \cap Val) \cup {Nil}, PutElement(s, f, v)
      PROVE  RInv'
  <2>1. Types'
    <3>1. sMem[s] \in Mem
      BY HeldHasMemory
    <3>2. cell' \in [Mem -> [Field -> Val \cup {Nil}]]
      BY <1>9, <3>1, CellPut DEF Types, PutElement
    <3>3. writer' \in [Mem -> [Field -> Str \cup {Nil}]]
      BY <1>9, <3>1, CellPut DEF Types, PutElement
    <3> QED
      BY <1>9, <3>1, <3>2, <3>3 DEF Types, PutElement
  <2>2. MarkedLive'
    BY <1>9, <2>1, SMT DEF Types, MarkedLive, MarkedStr, Busy, PutElement
  <2>3. WriterKeeps'
    BY <1>9, <2>1, SMT DEF Types, MarkedLive, WriterKeeps, NoWriterMeanwhile,
         MarkedStr, Busy, PutElement
  <2>4. NoWriterMeanwhile'
    BY <1>9, <2>1, SMT DEF Types, MarkedLive, WriterKeeps, NoWriterMeanwhile,
         MarkedStr, Busy, PutElement
  <2> QED
    BY <2>1, <2>2, <2>3, <2>4
<1>10. ASSUME NEW t \in Putter, NEW s \in strHeld \cap Str, NEW f \in Field,
              NEW v \in (strHeld \cap Val) \cup {Nil}, BeginPut(t, s, f, v)
      PROVE  RInv'
  <2>1. Types'
    <3>1. sMem[s] \in Mem
      BY HeldHasMemory
    <3>2. cell' \in [Mem -> [Field -> Val \cup {Nil}]]
      BY <1>10, <3>1, CellPut DEF Types, BeginPut
    <3>3. writer' \in [Mem -> [Field -> Str \cup {Nil}]]
      BY <1>10, <3>1, CellPut DEF Types, BeginPut
    <3>4. putting' \in [Putter -> Assignments \cup {Nil}]
      BY <1>10, <3>1 DEF Types, BeginPut
    <3> QED
      BY <1>10, <3>1, <3>2, <3>3, <3>4 DEF Types, BeginPut
  <2>2. MarkedLive'
    BY <1>10, <2>1, SMT DEF Types, MarkedLive, MarkedStr, Busy, BeginPut
  <2>3. WriterKeeps'
    BY <1>10, <2>1, SMT DEF Types, MarkedLive, WriterKeeps, NoWriterMeanwhile,
         MarkedStr, Busy, BeginPut
  <2>4. NoWriterMeanwhile'
    BY <1>10, <2>1, SMT DEF Types, MarkedLive, WriterKeeps, NoWriterMeanwhile,
         MarkedStr, Busy, BeginPut
  <2> QED
    BY <2>1, <2>2, <2>3, <2>4
<1>11. ASSUME NEW t \in Putter, EndPut(t)
      PROVE  RInv'
  <2>1. Types'
    BY <1>11, SMT DEF Types, EndPut, Stored, EmptyRefs
  <2>2. MarkedLive'
    BY <1>11, <2>1, SMT DEF Types, MarkedLive, MarkedStr, Busy, EndPut, Stored,
         EmptyRefs
  <2> DEFINE p == putting[t]
             old(g) == IF sRefs[p.s] = NoRefs THEN Nil ELSE sRefs[p.s][g]
  <2>3. t \in Busy /\ p \in Assignments
    BY <1>11 DEF EndPut, Busy, Types
  <2>4. /\ sRefs'[p.s] # NoRefs /\ sRefs'[p.s][p.f] = p.v
        /\ \A g \in Field \ {p.f} : sRefs'[p.s][g] = old(g)
        /\ \A q \in Str \ {p.s} : sRefs'[q] = sRefs[q]
    BY <1>11, <2>3, StoredIs DEF EndPut
  <2>5. /\ writer'[p.m][p.f] # Nil =>
             writer'[p.m][p.f] = p.s /\ cell[p.m][p.f] = p.v /\ sMem[p.s] = p.m
        /\ \A m \in Mem, g \in Field :
             m # p.m \/ g # p.f => writer'[m][g] = writer[m][g]
    BY <1>11, <2>3, SMT DEF EndPut, Types
  <2>6. UNCHANGED <<sMem, strHeld, liveMem, liveVal, cell, direct>>
    BY <1>11 DEF EndPut
  <2>7. WriterKeeps'
    <3> SUFFICES ASSUME NEW m \in Mem, NEW g \in Field, writer'[m][g] # Nil
                 PROVE  /\ m \in liveMem
                        /\ sMem[writer'[m][g]] = m
                        /\ sRefs'[writer'[m][g]] # NoRefs
                        /\ cell[m][g] = sRefs'[writer'[m][g]][g]
      BY <2>6 DEF WriterKeeps
    <3>1. CASE m = p.m /\ g = p.f
      BY <3>1, <2>3, <2>4, <2>5, SMT DEF MarkedLive
    <3>2. CASE m # p.m \/ g # p.f
      <4>1. writer'[m][g] = writer[m][g] /\ writer[m][g] \in Str
        BY <3>2, <2>5 DEF Types
      <4>2. CASE writer[m][g] # p.s
        BY <4>1, <4>2, <2>4 DEF WriterKeeps
      <4>3. CASE writer[m][g] = p.s
        <5>1. g # p.f
          BY <2>3, <4>3 DEF NoWriterMeanwhile
        <5>2. sRefs[p.s] # NoRefs /\ cell[m][g] = sRefs[p.s][g]
          BY <4>1, <4>3 DEF WriterKeeps
        <5>3. sRefs'[p.s][g] = sRefs[p.s][g]
          BY <5>1, <5>2, <2>4
        <5> QED
          BY <4>1, <4>3, <5>2, <5>3, <2>4 DEF WriterKeeps
      <4> QED
        BY <4>2, <4>3
    <3> QED
      BY <3>1, <3>2
  <2>8. NoWriterMeanwhile'
    BY <1>11, <2>1, SMT DEF Types, MarkedLive, WriterKeeps, NoWriterMeanwhile,
         MarkedStr, Busy, EndPut, Stored, EmptyRefs
  <2> QED
    BY <2>1, <2>2, <2>7, <2>8
<1>12. ASSUME NEW t \in Putter, AbortPut(t)
      PROVE  RInv'
  <2>1. Types'
    BY <1>12, SMT DEF Types, AbortPut, heapVars
  <2>2. MarkedLive'
    BY <1>12, <2>1, SMT DEF Types, MarkedLive, MarkedStr, Busy, AbortPut, heapVars
  <2>3. WriterKeeps'
    BY <1>12, <2>1, SMT DEF Types, MarkedLive, WriterKeeps, NoWriterMeanwhile,
         MarkedStr, Busy, AbortPut, heapVars
  <2>4. NoWriterMeanwhile'
    BY <1>12, <2>1, SMT DEF Types, MarkedLive, WriterKeeps, NoWriterMeanwhile,
         MarkedStr, Busy, AbortPut, heapVars
  <2> QED
    BY <2>1, <2>2, <2>3, <2>4
<1>13. ASSUME NEW v \in Val, NewVal(v)
      PROVE  RInv'
  <2>1. Types'
    BY <1>13, SMT DEF Types, NewVal
  <2>2. MarkedLive'
    BY <1>13, <2>1, SMT DEF Types, MarkedLive, MarkedStr, Busy, NewVal
  <2>3. WriterKeeps'
    BY <1>13, <2>1, SMT DEF Types, MarkedLive, WriterKeeps, NoWriterMeanwhile,
         MarkedStr, Busy, NewVal
  <2>4. NoWriterMeanwhile'
    BY <1>13, <2>1, SMT DEF Types, MarkedLive, WriterKeeps, NoWriterMeanwhile,
         MarkedStr, Busy, NewVal
  <2> QED
    BY <2>1, <2>2, <2>3, <2>4
<1>14. ASSUME NEW v \in Val, SweepVal(v)
      PROVE  RInv'
  <2>1. Types'
    BY <1>14, SMT DEF Types, SweepVal, MarkedVal, RefsMarked, Range
  <2>2. MarkedLive'
    BY <1>14, <2>1, SMT DEF Types, MarkedLive, MarkedStr, Busy, SweepVal, MarkedVal,
         RefsMarked, Range
  <2>3. WriterKeeps'
    BY <1>14, <2>1, SMT DEF Types, MarkedLive, WriterKeeps, NoWriterMeanwhile,
         MarkedStr, Busy, SweepVal, MarkedVal, RefsMarked, Range
  <2>4. NoWriterMeanwhile'
    BY <1>14, <2>1, SMT DEF Types, MarkedLive, WriterKeeps, NoWriterMeanwhile,
         MarkedStr, Busy, SweepVal, MarkedVal, RefsMarked, Range
  <2> QED
    BY <2>1, <2>2, <2>3, <2>4
<1>15. ASSUME NEW x \in Str \cup Val, ForgetStr(x)
      PROVE  RInv'
  <2>1. Types'
    BY <1>15, SMT DEF Types, ForgetStr, heapVars
  <2>2. MarkedLive'
    BY <1>15, <2>1, SMT DEF Types, MarkedLive, MarkedStr, Busy, ForgetStr, heapVars
  <2>3. WriterKeeps'
    BY <1>15, <2>1, SMT DEF Types, MarkedLive, WriterKeeps, NoWriterMeanwhile,
         MarkedStr, Busy, ForgetStr, heapVars
  <2>4. NoWriterMeanwhile'
    BY <1>15, <2>1, SMT DEF Types, MarkedLive, WriterKeeps, NoWriterMeanwhile,
         MarkedStr, Busy, ForgetStr, heapVars
  <2> QED
    BY <2>1, <2>2, <2>3, <2>4
<1>16. ASSUME NEW s \in Str, SweepStruct(s)
      PROVE  RInv'
  <2>1. Types'
    BY <1>16, SMT DEF Types, SweepStruct
  <2>2. MarkedLive'
    BY <1>16, <2>1, SMT DEF Types, MarkedLive, MarkedStr, Busy, SweepStruct
  <2>3. WriterKeeps'
    BY <1>16, <2>1, SMT DEF Types, MarkedLive, WriterKeeps, NoWriterMeanwhile,
         MarkedStr, Busy, SweepStruct
  <2>4. NoWriterMeanwhile'
    BY <1>16, <2>1, SMT DEF Types, MarkedLive, WriterKeeps, NoWriterMeanwhile,
         MarkedStr, Busy, SweepStruct
  <2> QED
    BY <2>1, <2>2, <2>3, <2>4
<1>17. ASSUME NEW m \in Mem, SweepMem(m)
      PROVE  RInv'
  <2>1. Types'
    BY <1>17, SMT DEF Types, SweepMem, MarkedMem, EmptyRefs
  <2>2. MarkedLive'
    BY <1>17, <2>1, SMT DEF Types, MarkedLive, MarkedStr, Busy, SweepMem, MarkedMem,
         EmptyRefs
  <2>3. WriterKeeps'
    BY <1>17, <2>1, SMT DEF Types, MarkedLive, WriterKeeps, NoWriterMeanwhile,
         MarkedStr, Busy, SweepMem, MarkedMem, EmptyRefs
  <2>4. NoWriterMeanwhile'
    BY <1>17, <2>1, SMT DEF Types, MarkedLive, WriterKeeps, NoWriterMeanwhile,
         MarkedStr, Busy, SweepMem, MarkedMem, EmptyRefs
  <2> QED
    BY <2>1, <2>2, <2>3, <2>4
<1>18. CASE UNCHANGED strVars
  BY <1>18, SMT DEF strVars, heapVars, Types, MarkedLive, WriterKeeps,
       NoWriterMeanwhile, MarkedStr, Busy
<1> QED
  BY <1>1, <1>2, <1>3, <1>4, <1>5, <1>6, <1>7, <1>8, <1>9, <1>10, <1>11, <1>12, <1>13,
       <1>14, <1>15, <1>16, <1>17, <1>18 DEF StructNext

\* An address in memory leads to a live object as long as the struct through which
\* it was assigned last is reachable and lies over that memory (store_reference_value,
\* struct_mark, struct_initialize_copy)
THEOREM AssignedStaysLive == StructSpec => []ReferencesKeepPointees
<1>1. RInv => ReferencesKeepPointees
  BY NilAssumption, SMT DEF RInv, Types, MarkedLive, WriterKeeps,
       ReferencesKeepPointees, MarkedStr, Busy, Assignments
<1> QED
  BY StructInitInv, StructNextInv, <1>1, PTL DEF StructSpec

-----------------------------------------------------------------------------
(* All of them side by side. *)

ObjectsIInv == MemoryIInv /\ IInv /\ RInv

\* The types of memory objects, an AutoPointer and structs
THEOREM NativeObjectsTyped == Spec => []TypeOK
<1>1. Init => ObjectsIInv
  BY InitSound, InitInv, StructInitInv DEF Init, ObjectsIInv
<1>2. ObjectsIInv /\ [Next]_vars => ObjectsIInv'
  <2> SUFFICES ASSUME ObjectsIInv, [Next]_vars PROVE ObjectsIInv'
    OBVIOUS
  <2>1. /\ MemoryNext \/ UNCHANGED memVars
        /\ AutoNext \/ UNCHANGED autoVars
        /\ StructNext \/ UNCHANGED strVars
    BY DEF Next, vars
  <2> QED
    BY <2>1, MemoryStep, NextInv, StructNextInv DEF ObjectsIInv
<1>3. ObjectsIInv => TypeOK
  <2> SUFFICES ASSUME ObjectsIInv PROVE TypeOK
    OBVIOUS
  <2>1. MemoryTypeOK
    BY DEF ObjectsIInv, MemoryIInv, Typed, MemoryTypeOK
  <2>2. AutoTypeOK
    BY DEF ObjectsIInv, IInv
  <2>3. StructTypeOK
    BY DEF ObjectsIInv, RInv, Types, Busy, Assignments, StructTypeOK
  <2> QED
    BY <2>1, <2>2, <2>3 DEF TypeOK
<1> QED
  BY <1>1, <1>2, <1>3, PTL DEF Spec
=============================================================================
