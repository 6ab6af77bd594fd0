----------------------------- MODULE AutoPointer -----------------------------
(***************************************************************************)
(* One FFI::AutoPointer (or FFI::ManagedStruct), its releaser, and the     *)
(* native resource both stand for (lib/ffi/autopointer.rb, managedstruct.rb*)
(* and Pointer.c).                                                         *)
(*                                                                         *)
(* The releaser is shared by free and by the finalizer.  It calls a        *)
(* release proc, which is Ruby code: other threads run meanwhile, it may   *)
(* raise, before or after it gave the resource back, and its thread may be *)
(* killed.  The finalizer runs some time after the object has been swept,  *)
(* or when the process exits.                                              *)
(***************************************************************************)
EXTENDS Naturals

CONSTANTS
  Freer,     \* threads that call free
  View       \* slices, sums and structs made of the pointer

VARIABLES
  auto,        \* "raw" pointer, "live" AutoPointer, "failed" in initialize, "swept"
  autoHeld,    \* Ruby code refers to the AutoPointer
  viewHeld,    \* the views Ruby code refers to
  autoPtr,     \* @ptr of the releaser is set
  autorelease, \* @autorelease
  finalizer,   \* "none", "defined", "pending", "ran"
  freeing,     \* the step of free each thread is in
  releases,    \* history: the proc gave the resource back never, once, or more (2)
  broken       \* history: what went wrong: a proc "raised" or was killed, two
               \* frees "overlapped", the process is at its "exit"

releaserVars == <<autoPtr, autorelease>>
autoVars == <<auto, autoHeld, viewHeld, releaserVars, finalizer, freeing, releases, broken>>

AutoInit ==
  /\ auto = "raw" /\ autoHeld = FALSE /\ viewHeld = {}
  /\ autoPtr = FALSE /\ autorelease = FALSE
  /\ finalizer = "none"
  /\ freeing = [t \in Freer |-> "no"]
  /\ releases = 0 /\ broken = {}

Exiting == "exit" \in broken
OneMore == IF releases = 0 THEN 1 ELSE 2

\* A thread in free has the AutoPointer on its stack; views mark it as their
\* parent, a struct through its pointer.
\* Mutation of AutoReachable: views do not mark the pointer they were made of
AutoReachableUnmarked == autoHeld \/ \E t \in Freer : freeing[t] # "no"
AutoReachable == autoHeld \/ viewHeld # {} \/ \E t \in Freer : freeing[t] # "no"

-----------------------------------------------------------------------------
\* Mutation of NewAuto: the finalizer is defined before the arguments are checked
NewAutoDefinesEarly ==
  /\ auto = "raw"
  /\ \/ /\ auto' = "live" /\ autoHeld' = TRUE
        /\ autoPtr' = TRUE /\ autorelease' = TRUE
     \/ auto' = "failed" /\ UNCHANGED <<autoHeld, releaserVars>>
  /\ finalizer' = "defined"
  /\ UNCHANGED <<viewHeld, freeing, releases, broken>>

\* initialize, also of ManagedStruct and from_native.  It raises for a pointer of
\* the wrong class and without a release proc or method, before the finalizer is
\* defined: the resource is then the caller's.
NewAuto ==
  /\ auto = "raw"
  /\ \/ /\ auto' = "live" /\ autoHeld' = TRUE
        /\ autoPtr' = TRUE /\ autorelease' = TRUE
        /\ finalizer' = "defined"
     \/ /\ auto' = "failed"
        /\ UNCHANGED <<autoHeld, releaserVars, finalizer>>
  /\ UNCHANGED <<viewHeld, freeing, releases, broken>>

\* slice, +, order, Pointer.new, Struct.new
MakeView(v) ==
  /\ auto = "live" /\ (autoHeld \/ viewHeld # {}) /\ ~Exiting
  /\ viewHeld' = viewHeld \cup {v}
  /\ UNCHANGED <<auto, autoHeld, releaserVars, finalizer, freeing, releases, broken>>

\* Ruby code forgets the AutoPointer or a view
ForgetAuto ==
  /\ autoHeld /\ autoHeld' = FALSE
  /\ UNCHANGED <<auto, viewHeld, releaserVars, finalizer, freeing, releases, broken>>
ForgetView(v) ==
  /\ viewHeld' = viewHeld \ {v} /\ v \in viewHeld
  /\ UNCHANGED <<auto, autoHeld, releaserVars, finalizer, freeing, releases, broken>>

\* AutoPointer#autorelease=
SetAutoreleaseOf(b) ==
  /\ autoHeld /\ ~Exiting
  /\ autorelease' = b
  /\ UNCHANGED <<auto, autoHeld, viewHeld, autoPtr, finalizer, freeing, releases, broken>>

\* Releaser#free: nothing to do when @ptr is nil
BeginFree(t) ==
  /\ autoHeld /\ ~Exiting /\ freeing[t] = "no" /\ autoPtr
  /\ freeing' = [freeing EXCEPT ![t] = "calling"]
  /\ broken' = IF \E u \in Freer : freeing[u] # "no" THEN broken \cup {"overlapped"} ELSE broken
  /\ UNCHANGED <<auto, autoHeld, viewHeld, releaserVars, finalizer, releases>>

\* @proc.call gives the resource back
ProcReleases(t) ==
  /\ freeing[t] = "calling"
  /\ freeing' = [freeing EXCEPT ![t] = "called"]
  /\ releases' = OneMore
  /\ UNCHANGED <<auto, autoHeld, viewHeld, releaserVars, finalizer, broken>>

\* Mutation of EndFree: @ptr is not reset
EndFreeKeepsPtr(t) ==
  /\ freeing[t] = "called"
  /\ freeing' = [freeing EXCEPT ![t] = "no"]
  /\ UNCHANGED <<auto, autoHeld, viewHeld, releaserVars, finalizer, releases, broken>>

\* The rest of free
EndFree(t) ==
  /\ freeing[t] = "called"
  /\ freeing' = [freeing EXCEPT ![t] = "no"]
  /\ autorelease' = FALSE /\ autoPtr' = FALSE
  /\ UNCHANGED <<auto, autoHeld, viewHeld, finalizer, releases, broken>>

\* The proc raises, or its thread is killed in it
FreeRaises(t) ==
  /\ freeing[t] # "no"
  /\ freeing' = [freeing EXCEPT ![t] = "no"]
  /\ broken' = IF freeing[t] = "called" THEN broken \cup {"raised"} ELSE broken
  /\ UNCHANGED <<auto, autoHeld, viewHeld, releaserVars, finalizer, releases>>

\* The collector sweeps the object; its finalizer is left for later
SweepAuto ==
  /\ auto = "live" /\ ~AutoReachable /\ ~Exiting
  /\ auto' = "swept" /\ finalizer' = "pending"
  /\ UNCHANGED <<autoHeld, viewHeld, releaserVars, freeing, releases, broken>>

\* At exit the other threads are gone and finalizers run for all objects
Exit ==
  /\ ~Exiting
  /\ \A t \in Freer : freeing[t] = "no"
  /\ broken' = broken \cup {"exit"}
  /\ finalizer' = IF finalizer = "defined" THEN "pending" ELSE finalizer
  /\ UNCHANGED <<auto, autoHeld, viewHeld, releaserVars, freeing, releases>>

\* Mutation of Finalize: the releaser's state is not asked
FinalizeAlways ==
  /\ finalizer = "pending" /\ finalizer' = "ran"
  /\ releases' = OneMore
  /\ UNCHANGED <<auto, autoHeld, viewHeld, releaserVars, freeing, broken>>

\* Releaser#call; what the proc raises here is dropped
Finalize ==
  /\ finalizer = "pending" /\ finalizer' = "ran"
  /\ IF autorelease /\ autoPtr
       THEN \/ releases' = OneMore /\ UNCHANGED broken
            \/ broken' = broken \cup {"dropped"} /\ UNCHANGED releases
       ELSE UNCHANGED <<releases, broken>>
  /\ UNCHANGED <<auto, autoHeld, viewHeld, releaserVars, freeing>>

AutoNext ==
  \/ NewAuto \/ ForgetAuto \/ SweepAuto \/ Exit \/ Finalize
  \/ \E v \in View : MakeView(v) \/ ForgetView(v)
  \/ \E b \in BOOLEAN : SetAutoreleaseOf(b)
  \/ \E t \in Freer : BeginFree(t) \/ ProcReleases(t) \/ EndFree(t) \/ FreeRaises(t)

AutoSpec == AutoInit /\ [][AutoNext]_autoVars

-----------------------------------------------------------------------------
AutoFlags == autoHeld \in BOOLEAN /\ autoPtr \in BOOLEAN /\ autorelease \in BOOLEAN

\* Type invariant
AutoTypeOK ==
  /\ AutoFlags
  /\ auto \in {"raw", "live", "failed", "swept"}
  /\ viewHeld \subseteq View
  /\ finalizer \in {"none", "defined", "pending", "ran"}
  /\ finalizer # "none" <=> auto \in {"live", "swept"}
  /\ freeing \in [Freer -> {"no", "calling", "called"}]
  /\ releases \in 0..2
  /\ broken \subseteq {"raised", "overlapped", "exit", "dropped"}

\* The resource is given back once: by free or by the finalizer, never by both
\* and never by two threads -- as long as no release proc raises after it gave the
\* resource back and no second free begins while the first is in the proc, for
\* which Releaser#free (it resets @ptr last) takes no care.
ReleasedOnce ==
  broken \cap {"raised", "overlapped"} = {} => releases <= 1

\* The finalizer neither forgets the resource nor takes it from a view: once it
\* ran the resource has been given back, unless the program asked to keep it or
\* the proc raised; and before the process exits it runs only when no view of the
\* memory is left.
CollectedReleased ==
  /\ finalizer = "ran" => releases > 0 \/ ~autorelease \/ "dropped" \in broken
  /\ finalizer \in {"pending", "ran"} => Exiting \/ viewHeld = {}
=============================================================================
