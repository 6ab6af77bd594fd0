---------------------------- MODULE ClosureStore ----------------------------
(***************************************************************************)
(* What a closure pool promises its clients: a handle is given to one      *)
(* client at a time, the memory behind it is valid as long as it is held,  *)
(* and all memory is returned when neither the owner nor a client is left. *)
(***************************************************************************)
CONSTANT Handle

VARIABLES owned, held, backed

vars == <<owned, held, backed>>

Init == owned = TRUE /\ held = {} /\ backed = {}

(* The memory left when the references are o (owner) and h (handles). *)
Remaining(o, h) == IF o \/ h # {} THEN backed ELSE {}

Take(h) ==
  /\ owned
  /\ h \notin held
  /\ held' = held \cup {h}
  /\ h \in backed'
  /\ backed \subseteq backed'
  /\ UNCHANGED owned

Give(h) ==
  /\ h \in held
  /\ held' = held \ {h}
  /\ backed' = Remaining(owned, held')
  /\ UNCHANGED owned

Abandon ==
  /\ owned
  /\ owned' = FALSE
  /\ backed' = Remaining(FALSE, held)
  /\ UNCHANGED held

Next ==
  \/ \E h \in Handle : Take(h) \/ Give(h)
  \/ Abandon

Spec == Init /\ [][Next]_vars
=============================================================================
