---------------------------- MODULE CreditWindow ----------------------------
(***************************************************************************)
(* What flow control promises, for one stream or for a connection as a     *)
(* whole: "the most data the peer may send ahead of what the application   *)
(* has read" is a window (Config in src/qmux/qmux.go).  A sender knows a   *)
(* limit and has sent so much; a receiver has granted so much, received so *)
(* much, and its application has consumed so much.  How the two learn of   *)
(* each other's progress is left open.                                     *)
(***************************************************************************)
EXTENDS Integers

CONSTANT Window  \* how far the sender may be ahead of the receiver's application

VARIABLES sent, limit, received, granted, consumed

vars == <<sent, limit, received, granted, consumed>>

Init ==
  /\ sent = 0 /\ received = 0 /\ consumed = 0
  /\ limit \in 0 .. Window
  /\ granted = Window

\* The sender uses some of its credit.
Send ==
  /\ sent' \in sent + 1 .. limit
  /\ UNCHANGED <<limit, received, granted, consumed>>

\* The sender learns of a limit that the receiver has granted.
Learn ==
  /\ limit' \in limit + 1 .. granted
  /\ UNCHANGED <<sent, received, granted, consumed>>

\* The receiver takes in data, or its application consumes some, or both;
\* and the receiver may move the window up to what has been consumed.
Receive ==
  /\ received' \in received .. sent
  /\ consumed' \in consumed .. received'
  /\ granted' \in {granted, consumed' + Window}
  /\ granted' >= granted
  /\ UNCHANGED <<sent, limit>>

Next == Send \/ Learn \/ Receive

Spec == Init /\ [][Next]_vars
-----------------------------------------------------------------------------
\* The promise: no more than a window is ever sent beyond what has been
\* consumed, so a window of memory holds all that can arrive, and the
\* receiver's check of the limit it granted never fails.
WithinWindow ==
  /\ consumed <= received /\ received <= sent
  /\ sent <= granted
  /\ sent <= consumed + Window
=============================================================================
