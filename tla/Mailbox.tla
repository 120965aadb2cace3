------------------------------- MODULE Mailbox -------------------------------
(***************************************************************************)
(* What a clock-domain crossing promises: a mailbox for one value.  Each   *)
(* value put in is taken out once, whole, before the next is put in; what  *)
(* the sender shows while the box is full is not kept.                     *)
(* ForwardData implements this specification.                              *)
(***************************************************************************)
CONSTANT Values

VARIABLES box,     \* the value last put in
          status,  \* "full" until it has been taken out
          out      \* the value last taken out
vars == <<box, status, out>>

Init == box \in Values /\ out \in Values /\ status = "empty"

Put ==
  /\ status = "empty"
  /\ status' = "full"
  /\ box' \in Values
  /\ UNCHANGED out

Take ==
  /\ status = "full"
  /\ status' = "empty"
  /\ out' = box
  /\ UNCHANGED box

Next == Put \/ Take
Spec == Init /\ [][Next]_vars
=============================================================================
