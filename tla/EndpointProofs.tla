--------------------------- MODULE EndpointProofs ---------------------------
(***************************************************************************)
(* What an endpoint guarantees whatever the peer sends and whatever the    *)
(* application calls, for any set of streams, any windows and any stream   *)
(* limits.  The inductive invariant is Sound, of ConnProofs: beside the    *)
(* limits themselves it says that a connection whose handshake is not over *)
(* has sent nothing (handleParametersLocked overwrites sendMax, which      *)
(* would otherwise cut it under what was sent), and that whatever waits to *)
(* be sent has woken the write loop.                                       *)
(***************************************************************************)
EXTENDS Endpoint, ConnProofs

IInv == TypeOK /\ Sound(Self, c, flushing)

\* newConn: nothing sent or received, and a window's worth of credit.
LEMMA InitIInv == Init => IInv
<1> SUFFICES ASSUME Init PROVE IInv
  OBVIOUS
<1>1. Self \in Endpoints
  BY EndpointAssumption
<1>2. \A id \in StreamIDs : StreamOK(Self, newStream(Self, id))
  BY <1>1, NewStreamOK
<1>3. /\ MaxIncoming[Self] \in [Dirs -> Nat] /\ ConnWindow[Self] \in Nat
      /\ <<>> \in Seq(StreamIDs) /\ <<>> \in Seq(Frame)
  BY <1>1, ConnAssumption
<1>4. \A dir \in Dirs :
        /\ [next |-> 0, max |-> 0, signal |-> FALSE] \in outgoing
        /\ [next |-> 0, max |-> MaxIncoming[Self][dir], pending |-> FALSE,
            queue |-> <<>>, signal |-> FALSE] \in incoming
  BY <1>3 DEF outgoing, incoming
<1>5. c \in ConnState
  <2>1. \A id \in StreamIDs : newStream(Self, id) \in Stream
    BY <1>2 DEF StreamOK
  <2> QED
    BY <1>3, <1>4, <2>1 DEF Init, newConn, ConnState
<1>6. Sound(Self, c, flushing)
  <2>1. \A id \in StreamIDs : StreamOK(Self, c.streams[id])
    BY <1>2 DEF Init, newConn
  <2>2. /\ c.received = 0 /\ c.recvMax = ConnWindow[Self] /\ c.consumed = 0
        /\ c.sent = 0 /\ c.sendMax = 0
    BY DEF Init, newConn
  <2>3. ~Waiting(c)
    BY Zenon DEF Init, newConn, Waiting
  <2> QED
    BY <1>3, <1>5, <2>1, <2>2, <2>3 DEF Sound
<1> QED
  BY <1>5, <1>6, Zenon DEF Init, IInv, TypeOK

\* want stays a function to numbers: a read waits for at least one byte, a
\* Peek for as many as it was asked for.
LEMMA WaitForType ==
  ASSUME TypeOK, NEW id \in StreamIDs, NEW n \in Nat, WaitFor(id, n)
  PROVE  want' \in [StreamIDs -> Nat]
<1>1. \A a, b \in Nat : Min({a, b}) \in Nat
  BY DEF Min
<1> QED
  BY <1>1 DEF TypeOK, WaitFor

\* Every frame, call and wake-up keeps the invariant, one case per action.
LEMMA NextIInv == IInv /\ [Next]_vars => IInv'
<1> SUFFICES ASSUME IInv, [Next]_vars PROVE IInv'
  OBVIOUS
<1>1. /\ Self \in Endpoints /\ flushing \in BOOLEAN /\ Sound(Self, c, flushing)
      /\ want \in [StreamIDs -> Nat] /\ use \in Uses /\ TypeOK
  BY EndpointAssumption DEF IInv, TypeOK
<1>2. ASSUME Sound(Self, c', flushing'), flushing' \in BOOLEAN,
             want' \in [StreamIDs -> Nat], use' = use
      PROVE  IInv'
  BY <1>1, <1>2 DEF IInv, TypeOK, Sound
<1>3. CASE HandleRecord
  <2>1. PeerFrames[use] \subseteq Frame
    BY <1>1, EndpointAssumption
  <2> QED
    BY <1>1, <1>2, <1>3, <2>1, FrameOK DEF HandleRecord
<1>4. CASE CloseOnError
  <2>1. c.fault \in Errors
    BY <1>1, <1>4 DEF CloseOnError, Sound, ConnState
  <2> QED
    BY <1>1, <1>2, <1>4, <2>1, TerminateOK DEF CloseOnError
<1>5. CASE CloseWithError
  <2>1. "APPLICATION" \in Errors
    BY DEF Errors
  <2> QED
    BY <1>1, <1>2, <1>5, <2>1, TerminateOK DEF CloseWithError, App
<1>6. ASSUME NEW dir \in Dirs, Open(dir) PROVE IInv'
  BY <1>1, <1>2, <1>6, OpenOK, Zenon DEF Open, App
<1>7. ASSUME NEW dir \in Dirs, Accept(dir) PROVE IInv'
  BY <1>1, <1>2, <1>7, AcceptOK DEF Accept, App
<1>8. Readable \subseteq StreamIDs /\ Writable \subseteq StreamIDs /\ Sizes[use] \subseteq Nat
  BY <1>1, EndpointAssumption DEF Readable, Writable, Held
<1>9. ASSUME NEW id \in StreamIDs, CancelRead(id) PROVE IInv'
  BY <1>1, <1>2, <1>9, CancelReadOK DEF CancelRead, App
<1>10. ASSUME NEW id \in StreamIDs, NEW n \in Nat, Read(id, n) PROVE IInv'
  <2>1. want' \in [StreamIDs -> Nat]
    BY <1>1, <1>10, WaitForType DEF Read
  <2> QED
    BY <1>1, <1>2, <1>10, <2>1, TryReadOK DEF Read, App
<1>11. ASSUME NEW id \in StreamIDs, NEW n \in Nat, Peek(id, n) PROVE IInv'
  <2>1. want' \in [StreamIDs -> Nat]
    BY <1>1, <1>11, WaitForType DEF Peek
  <2> QED
    BY <1>1, <1>2, <1>11, <2>1, PeekOK DEF Peek, App
<1>12. ASSUME NEW id \in StreamIDs, AwaitCredit(id) PROVE IInv'
  BY <1>1, <1>2, <1>12, AwaitCreditOK DEF AwaitCredit, App
<1>13. ASSUME NEW id \in StreamIDs, Finish(id) PROVE IInv'
  BY <1>1, <1>2, <1>13, FinishOK DEF Finish, App
<1>14. ASSUME NEW id \in StreamIDs, CancelWrite(id) PROVE IInv'
  BY <1>1, <1>2, <1>14, ResetSendOK DEF CancelWrite, App
<1>15. ASSUME NEW id \in StreamIDs, NEW n \in Nat, Reserve(id, n) PROVE IInv'
  BY <1>1, <1>2, <1>15, ReserveOK DEF Reserve, App
<1>16. CASE WakeWriteLoop
  <2>1. Sound(Self, c', TRUE)
    BY <1>1, <1>16, Zenon DEF WakeWriteLoop, Sound, ConnState
  <2> QED
    BY <1>1, <1>2, <1>16, <2>1 DEF WakeWriteLoop
<1>17. CASE FlushControl
  <2>1. CASE running(c)
    BY <1>1, <1>2, <1>17, <2>1, TakeControlOK, Zenon DEF FlushControl
  <2>2. CASE ~running(c)
    <3>1. Sound(Self, c, FALSE)
      BY <1>1, <2>2 DEF Sound
    <3> QED
      BY <1>1, <1>2, <1>17, <2>2, <3>1, Zenon DEF FlushControl
  <2> QED
    BY <2>1, <2>2
<1>18. CASE ReadFails
  <2>1. ReadErrors[use] \subseteq Errors
    BY <1>1, EndpointAssumption DEF Errors
  <2> QED
    BY <1>1, <1>2, <1>18, <2>1, TerminateOK DEF ReadFails
<1>19. ASSUME NEW id \in StreamIDs, SetReadDeadline(id) \/ SetWriteDeadline(id) PROVE IInv'
  BY <1>1, <1>2, <1>19, DeadlineOK DEF SetReadDeadline, SetWriteDeadline, App
<1>20. CASE UNCHANGED vars
  BY <1>1, <1>2, <1>20 DEF vars
<1> QED
  BY <1>3, <1>4, <1>5, <1>6, <1>7, <1>8, <1>9, <1>10, <1>11, <1>12, <1>13, <1>14,
     <1>15, <1>16, <1>17, <1>18, <1>19, <1>20 DEF Next

\* The inductive invariant holds of every state of the endpoint.
LEMMA Invariance == Spec => []IInv
BY InitIInv, NextIInv, PTL DEF Spec
-----------------------------------------------------------------------------
\* The connection's state keeps its shape, whatever frames arrive and
\* whatever the application calls.
THEOREM TypeCorrect == Spec => []TypeOK
<1>1. IInv => TypeOK
  BY DEF IInv
<1> QED
  BY <1>1, Invariance, PTL

\* The peer cannot overrun a window: for any stream and connection windows,
\* handleStreamLocked and handleResetStreamLocked let through nothing past a
\* limit, and readLocked and consumeLocked never declare a limit more than a
\* window past what the application has consumed.
THEOREM WindowsEnforced == Spec => []FlowControlEnforced
<1>1. IInv => FlowControlEnforced
  BY DEF IInv, Sound, StreamOK, FlowControlEnforced
<1> QED
  BY <1>1, Invariance, PTL

\* The endpoint never sends past the peer's limits: reserve takes no more
\* than sendCreditLocked grants, and no frame lowers a limit below what has
\* been sent, the transport parameters included.
THEOREM PeerLimitsRespected == Spec => []SendWithinLimits
<1>1. IInv => SendWithinLimits
  BY DEF IInv, Sound, StreamOK, SendWithinLimits
<1> QED
  BY <1>1, Invariance, PTL

\* Every operation that leaves something for the write loop wakes it:
\* queueLocked, consumeLocked and completeLocked raise controlWake, and
\* takeControl leaves nothing behind.
THEOREM NothingStranded == Spec => []ControlNotStranded
<1>1. ASSUME IInv, running(c), taken(c) # <<>> PROVE c.controlWake \/ flushing
  <2>1. ASSUME ~Waiting(c) PROVE taken(c) = <<>>
    <3>1. c.control = <<>> /\ ~c.maxDataPending /\ ~c.in["bidi"].pending /\ ~c.in["uni"].pending
      BY <2>1 DEF Waiting, Dirs
    <3>2. <<>> \o <<>> = <<>>
      OBVIOUS
    <3> QED
      BY <3>1, <3>2 DEF taken
  <2> QED
    BY <1>1, <2>1 DEF IInv, Sound
<1>2. IInv => ControlNotStranded
  BY <1>1 DEF ControlNotStranded
<1> QED
  BY <1>2, Invariance, PTL
=============================================================================
