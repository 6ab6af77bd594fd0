----------------------------- MODULE CallFrames -----------------------------
(***************************************************************************)
(* Nested calls of one thread, out of Ruby into native code and back.      *)
(*                                                                         *)
(* rbffi_CallFunction keeps an rbffi_frame_t on the C stack for the time   *)
(* of the native call, linked to the thread's previous one (Thread.c).  A  *)
(* callback that arrives on this thread takes the thread's current frame,  *)
(* and leaves in it the exception its proc raised; the call raises what it *)
(* finds in its frame when the native function has returned.               *)
(*                                                                         *)
(* Native code is also entered by others than FFI (Fiddle, a C extension   *)
(* or a program that embeds Ruby): such a call has no frame.  Ruby may     *)
(* leave a callback with throw or break, which unwinds the C stack and     *)
(* frees the frames on it without rbffi_frame_pop.                         *)
(*                                                                         *)
(* The address of a frame may be taken again once its call is gone.  The   *)
(* errno of FFI::LastError is saved after every call.                      *)
(***************************************************************************)
EXTENDS Integers, Sequences, FiniteSets, SequencesExt

CONSTANTS
  Frame,      \* addresses for frames
  Exception,  \* exceptions Ruby code may raise
  Errno,      \* values of errno
  None,
  MaxDepth,   \* bound: activations on the C stack
  MaxThrows   \* bound: non-local exits out of a callback

ASSUME NoneAssumption == None \notin Frame \cup Exception \cup Errno
ASSUME BoundAssumption == MaxDepth \in Nat /\ MaxThrows \in Nat

VARIABLES
  stack,      \* activations of the thread, innermost last
  current,    \* td->frame
  prev,       \* frame->prev
  exc,        \* frame->exc, None for Qnil
  raising,    \* the exception the running Ruby code is propagating, or None
  errno,      \* errno of the C library
  lastError,  \* td_errno
  throws,
  due,        \* history: what the last callback into each call raised
  entered,    \* history: the frames of calls into whose callbacks a throw led
  written     \* history: what FFI::LastError.error= set and no call replaced

vars == <<stack, current, prev, exc, raising, errno, lastError, throws,
          due, entered, written>>

MaybeFrame     == Frame \cup {None}
MaybeException == Exception \cup {None}

Call        == [kind : {"call", "blocking"}, frame : Frame]
ForeignCall == [kind : {"foreign"}, frame : {None}]
Callback    == [kind : {"callback"}, frame : MaybeFrame]  \* cb.frame
Activation  == Call \cup ForeignCall \cup Callback

IsCall(a) == a.kind \in {"call", "blocking"}

Init ==
  /\ stack = <<>>
  /\ current = None
  /\ prev = [f \in Frame |-> None]
  /\ exc = [f \in Frame |-> None]
  /\ raising = None
  /\ errno \in Errno
  /\ lastError \in Errno
  /\ throws = 0
  /\ due = [f \in Frame |-> None]
  /\ entered = {}
  /\ written = None

Top == Last(stack)
Pop == Front(stack)
InNative == stack # <<>> /\ Top.kind # "callback"
InRuby == ~InNative

FramesOnStack == {stack[i].frame : i \in {j \in DOMAIN stack : IsCall(stack[j])}}

(* The frame of the innermost FFI call among the first n activations. *)
InnermostFrame(n) ==
  LET levels == {i \in 1 .. n : IsCall(stack[i])}
  IN  IF levels = {} THEN None
      ELSE stack[CHOOSE i \in levels : \A j \in levels : j <= i].frame

(* The history variable: e is what the last callback into that call raised. *)
Due(n, e) == [f \in Frame |-> IF f = InnermostFrame(n) THEN e ELSE due[f]]

(* frame->exc = e, where frame may be NULL. *)
SetException(f, e) == exc' = [g \in Frame |-> IF g = f THEN e ELSE exc[g]]

-----------------------------------------------------------------------------
(* Ruby calls native code. *)

(* rbffi_CallFunction up to the native function: rbffi_frame_push. *)
Enter(f, kind) ==
  /\ InRuby /\ raising = None
  /\ Len(stack) < MaxDepth
  /\ f \notin FramesOnStack
  /\ stack' = Append(stack, [kind |-> kind, frame |-> f])
  /\ prev' = [prev EXCEPT ![f] = current]
  /\ exc' = [exc EXCEPT ![f] = None]
  /\ current' = f
  /\ due' = [due EXCEPT ![f] = None]
  /\ entered' = entered \ {f}
  /\ UNCHANGED <<raising, errno, lastError, throws, written>>

(* Mutation of Leave: the frame that is popped is the current one. *)
LeavePopsCurrent(ignoreErrno) ==
  /\ stack # <<>> /\ IsCall(Top)
  /\ stack' = Pop
  /\ current' = IF current = None THEN None ELSE prev[current]
  /\ raising' = exc[Top.frame]
  /\ errno' \in Errno
  /\ IF ignoreErrno
       THEN UNCHANGED <<lastError, written>>
       ELSE lastError' = errno' /\ written' = None
  /\ UNCHANGED <<prev, exc, throws, due, entered>>

(* The native function returns: frame_pop, save_errno unless ignoreErrno,    *)
(* and what is in the frame is raised.                                       *)
Leave(ignoreErrno) ==
  /\ stack # <<>> /\ IsCall(Top)
  /\ stack' = Pop
  /\ current' = prev[Top.frame]
  /\ raising' = exc[Top.frame]
  /\ errno' \in Errno
  /\ IF ignoreErrno
       THEN UNCHANGED <<lastError, written>>
       ELSE lastError' = errno' /\ written' = None
  /\ UNCHANGED <<prev, exc, throws, due, entered>>

(* Mutation of InterruptBlocking: the rescue leaves the frame in place. *)
InterruptKeepsFrame(e) ==
  /\ stack # <<>> /\ Top.kind = "blocking"
  /\ exc' = [exc EXCEPT ![Top.frame] = e]
  /\ stack' = Pop
  /\ raising' = e
  /\ errno' \in Errno
  /\ lastError' = errno'
  /\ written' = None
  /\ due' = [due EXCEPT ![Top.frame] = e]
  /\ UNCHANGED <<current, prev, throws, entered>>

(* An interrupt (Thread#raise) that is due when a blocking call is back with *)
(* the GVL: rb_rescue2 hands it to rbffi_save_frame_exception.               *)
InterruptBlocking(e) ==
  /\ stack # <<>> /\ Top.kind = "blocking"
  /\ exc' = [exc EXCEPT ![Top.frame] = e]
  /\ current' = prev[Top.frame]
  /\ stack' = Pop
  /\ raising' = e
  /\ errno' \in Errno
  /\ lastError' = errno'
  /\ written' = None
  /\ due' = [due EXCEPT ![Top.frame] = e]
  /\ UNCHANGED <<prev, throws, entered>>

(* A native call that is not FFI's. *)
EnterForeign ==
  /\ InRuby /\ raising = None
  /\ Len(stack) < MaxDepth
  /\ stack' = Append(stack, [kind |-> "foreign", frame |-> None])
  /\ UNCHANGED <<current, prev, exc, raising, errno, lastError, throws,
                 due, entered, written>>

LeaveForeign ==
  /\ stack # <<>> /\ Top.kind = "foreign"
  /\ stack' = Pop
  /\ UNCHANGED <<current, prev, exc, raising, errno, lastError, throws,
                 due, entered, written>>

-----------------------------------------------------------------------------
(* Native code calls back. *)

(* Mutation of Invoke: the exception of an earlier callback stays. *)
InvokeKeepsException ==
  /\ InNative
  /\ Len(stack) < MaxDepth
  /\ stack' = Append(stack, [kind |-> "callback", frame |-> current])
  /\ due' = Due(Len(stack), None)
  /\ UNCHANGED <<current, prev, exc, raising, errno, lastError, throws, entered, written>>

(* callback_invoke: cb.frame = rbffi_frame_current(), and its exception is reset. *)
Invoke ==
  /\ InNative
  /\ Len(stack) < MaxDepth
  /\ stack' = Append(stack, [kind |-> "callback", frame |-> current])
  /\ SetException(current, None)
  /\ due' = Due(Len(stack), None)
  /\ UNCHANGED <<current, prev, raising, errno, lastError, throws, entered, written>>

(* The proc returns a value. *)
FinishCallback ==
  /\ stack # <<>> /\ Top.kind = "callback" /\ raising = None
  /\ stack' = Pop
  /\ UNCHANGED <<current, prev, exc, raising, errno, lastError, throws,
                 due, entered, written>>

(* Mutation of FailCallback: the exception goes on into the native code. *)
FailCallbackPropagates ==
  /\ stack # <<>> /\ Top.kind = "callback" /\ raising # None
  /\ stack' = Pop
  /\ due' = Due(Len(stack), raising)
  /\ UNCHANGED <<current, prev, exc, raising, errno, lastError, throws, entered, written>>

(* The proc raises: save_callback_exception puts it into cb.frame. *)
FailCallback ==
  /\ stack # <<>> /\ Top.kind = "callback" /\ raising # None
  /\ stack' = Pop
  /\ SetException(Top.frame, raising)
  /\ due' = Due(Len(stack), raising)
  /\ raising' = None
  /\ UNCHANGED <<current, prev, errno, lastError, throws, entered, written>>

-----------------------------------------------------------------------------
(* What Ruby code does by itself. *)

Raise(e) ==
  /\ InRuby /\ raising = None
  /\ raising' = e
  /\ UNCHANGED <<stack, current, prev, exc, errno, lastError, throws,
                 due, entered, written>>

Rescue ==
  /\ InRuby /\ raising # None
  /\ raising' = None
  /\ UNCHANGED <<stack, current, prev, exc, errno, lastError, throws,
                 due, entered, written>>

(* Where Ruby code can catch: in a callback, or below all native calls (0).  *)
RubyLevels == {0} \cup {i \in DOMAIN stack : stack[i].kind = "callback"}

(* throw or break out of a callback to Ruby code further out, at level n.    *)
Throw(n) ==
  /\ InRuby
  /\ throws < MaxThrows
  /\ n < Len(stack)
  /\ stack' = SubSeq(stack, 1, n)
  /\ raising' = None
  /\ throws' = throws + 1
  /\ entered' = entered \cup ({InnermostFrame(n)} \ {None})
  /\ UNCHANGED <<current, prev, exc, errno, lastError, due, written>>

(* FFI::LastError.error = e (set_last_error) *)
SetLastError(e) ==
  /\ InRuby /\ raising = None
  /\ errno' = e
  /\ written' = e
  /\ UNCHANGED <<stack, current, prev, exc, raising, lastError, throws, due, entered>>

-----------------------------------------------------------------------------

Next ==
  \/ \E f \in Frame, kind \in {"call", "blocking"} : Enter(f, kind)
  \/ \E ignoreErrno \in BOOLEAN : Leave(ignoreErrno)
  \/ \E e \in Exception : InterruptBlocking(e) \/ Raise(e)
  \/ EnterForeign \/ LeaveForeign
  \/ Invoke \/ FinishCallback \/ FailCallback
  \/ Rescue
  \/ \E n \in RubyLevels : Throw(n)
  \/ \E e \in Errno : SetLastError(e)

Spec == Init /\ [][Next]_vars

-----------------------------------------------------------------------------

(* Type invariant: the C stack, the frames on it and what the thread keeps;  *)
(* an exception propagates through Ruby code only.                           *)
TypeOK ==
  /\ stack \in Seq(Activation)
  /\ Len(stack) <= MaxDepth
  /\ current \in MaybeFrame
  /\ prev \in [Frame -> MaybeFrame]
  /\ exc \in [Frame -> MaybeException]
  /\ raising \in MaybeException
  /\ InNative => raising = None
  /\ errno \in Errno
  /\ lastError \in Errno
  /\ throws \in 0 .. MaxThrows
  /\ due \in [Frame -> MaybeException]
  /\ entered \in SUBSET Frame
  /\ written \in Errno \cup {None}

(* Without non-local exits the thread's frame is that of its innermost FFI   *)
(* call, whatever foreign calls and callbacks lie between: a callback never  *)
(* writes into the frame of a call that has returned.                        *)
CurrentIsInnermost == throws = 0 => current = InnermostFrame(Len(stack))

(* Without non-local exits a call raises, on its return, exactly what the    *)
(* last callback into it raised: the exception of an inner call never        *)
(* surfaces from an outer one unless Ruby code let it through.               *)
CallsRaiseTheirOwn ==
  throws = 0 => \A f \in FramesOnStack : exc[f] = due[f]

(* A non-local exit leaves td->frame wrong only for the calls in whose       *)
(* callbacks it ended.  Every other native call that is running has its own  *)
(* frame as the current one: rbffi_frame_pop of an outer call repairs it.    *)
DamageIsLocal ==
  stack # <<>> /\ IsCall(Top) /\ Top.frame \notin entered => current = Top.frame

(* FFI::LastError: "Set +errno+ value." and "Get +errno+ value."             *)
(* (LastError.c:145 and 171): what was set is what is read until a call.     *)
ErrorReadsBack == written # None => lastError = written
=============================================================================
