------------------------- MODULE CreditWindowProofs -------------------------
(***************************************************************************)
(* Flow control keeps its promise: a proof that CreditWindow, which both   *)
(* the streams and the connection implement (ImplementsCreditWindow in     *)
(* Mux), never lets the sender get further than a window ahead.            *)
(***************************************************************************)
EXTENDS CreditWindow, TLAPS

\* The chain of counters that makes the promise inductive: what the sender
\* believes it may send was granted, and what was granted is no more than a
\* window beyond what the application had consumed by then.
Chain ==
  /\ sent \in Nat /\ limit \in Nat /\ received \in Nat
  /\ granted \in Nat /\ consumed \in Nat
  /\ consumed <= received /\ received <= sent /\ sent <= limit
  /\ limit <= granted /\ granted <= consumed + Window

\* A sender that follows the limits it was given, and a receiver that grants
\* a window beyond what has been consumed, never have more than a window of
\* data between them (the doc of the windows of Config in qmux.go).
THEOREM WindowHolds == ASSUME Window \in Nat PROVE Spec => []WithinWindow
<1>1. Init => Chain
  BY DEF Init, Chain
<1>2. Chain /\ [Next]_vars => Chain'
  <2> SUFFICES ASSUME Chain, [Next]_vars PROVE Chain'
    OBVIOUS
  <2>1. CASE Send
    BY <2>1 DEF Send, Chain
  <2>2. CASE Learn
    BY <2>2 DEF Learn, Chain
  <2>3. CASE Receive
    <3>1. /\ received' \in Nat /\ consumed' \in Nat
          /\ consumed <= consumed' /\ consumed' <= received' /\ received' <= sent
      BY <2>3 DEF Receive, Chain
    <3>2. granted' = granted \/ granted' = consumed' + Window
      BY <2>3 DEF Receive
    <3>3. granted <= granted' /\ sent' = sent /\ limit' = limit
      BY <2>3 DEF Receive
    <3> QED
      BY <3>1, <3>2, <3>3 DEF Chain
  <2>4. CASE UNCHANGED vars
    BY <2>4 DEF vars, Chain
  <2> QED
    BY <2>1, <2>2, <2>3, <2>4 DEF Next
<1>3. Chain => WithinWindow
  BY DEF Chain, WithinWindow
<1> QED
  BY <1>1, <1>2, <1>3, PTL DEF Spec
=============================================================================
