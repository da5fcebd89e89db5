------------------------------ MODULE Session ------------------------------
(***************************************************************************)
(* What the life of a connection promises to its user and to the peer: it  *)
(* is opened at most once, it ends once, for one reason, which every        *)
(* pending operation returns; the peer may be told a reason, only after     *)
(* the end and only that one; and when everything is over, nothing more     *)
(* happens.                                                                 *)
(***************************************************************************)
CONSTANTS
  Reasons,  \* why a connection may end
  NoReason  \* none of them

VARIABLES
  phase,   \* "connecting", "open", "closing", "over"
  reason,  \* what operations on an ended connection return
  told     \* what the peer has been told

vars == <<phase, reason, told>>

Init == phase = "connecting" /\ reason = NoReason /\ told = NoReason

Open == phase = "connecting" /\ phase' = "open" /\ UNCHANGED <<reason, told>>

\* The end, whoever brings it about: a user's Close, a violation, the peer, a
\* timeout, or the transport.
End ==
  /\ phase \in {"connecting", "open"} /\ phase' = "closing"
  /\ reason' \in Reasons
  /\ UNCHANGED told

Tell ==
  /\ phase = "closing" /\ told = NoReason
  /\ told' = reason
  /\ UNCHANGED <<phase, reason>>

Finish == phase = "closing" /\ phase' = "over" /\ UNCHANGED <<reason, told>>

Next == Open \/ End \/ Tell \/ Finish

Spec == Init /\ [][Next]_vars
=============================================================================
