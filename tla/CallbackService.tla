--------------------------- MODULE CallbackService ---------------------------
(***************************************************************************)
(* What a native thread may expect of a callback, whoever executes it: the *)
(* Ruby code is executed at most once for a call, the call returns only    *)
(* after that, and it returns what that execution produced.  The callers   *)
(* may vanish all at once (the child of a fork has none of them).          *)
(***************************************************************************)
CONSTANTS Caller, Outcome, Unset

VARIABLES phase, outcome

vars == <<phase, outcome>>

Init ==
  /\ phase = [t \in Caller |-> "idle"]
  /\ outcome = [t \in Caller |-> Unset]

Call(t) ==
  /\ phase[t] = "idle"
  /\ phase' = [phase EXCEPT ![t] = "called"]
  /\ outcome' = [outcome EXCEPT ![t] = Unset]

Execute(t) ==
  /\ phase[t] = "called"
  /\ phase' = [phase EXCEPT ![t] = "executed"]
  /\ \E o \in Outcome \ {Unset} : outcome' = [outcome EXCEPT ![t] = o]

Return(t) ==
  /\ phase[t] = "executed"
  /\ phase' = [phase EXCEPT ![t] = "idle"]
  /\ UNCHANGED outcome

Vanish ==
  /\ phase' = [t \in Caller |-> "idle"]
  /\ UNCHANGED outcome

Next ==
  \/ \E t \in Caller : Call(t) \/ Execute(t) \/ Return(t)
  \/ Vanish

Spec == Init /\ [][Next]_vars
=============================================================================
