-------------------------------- MODULE Mux --------------------------------
(***************************************************************************)
(* Two endpoints that both run this implementation, over a reliable        *)
(* ordered transport: the goroutines that write records (a Write or Close  *)
(* of each stream, and the write loop with its control queue), the read    *)
(* loop, and an application on each side that opens, accepts, reads,       *)
(* peeks, cancels and closes as it likes.                                  *)
(*                                                                         *)
(* A critical section of Conn.mu is one action.  writeMu is held from the  *)
(* action that decides what to send (reserve, finish, takeControl) to the  *)
(* one that writes the last record; in between, everything that needs only *)
(* Conn.mu may happen.  The lock is used as a Mutex, which WriteLock is    *)
(* shown to implement.  The transport holds at most WireCap records in     *)
(* each direction, so a write may block.                                   *)
(***************************************************************************)
EXTENDS Conn, SequencesExt

CONSTANTS
  WireCap,       \* bound: the records the transport holds
  RecordFrames,  \* how many control frames fit a record
  Uses,          \* the uses that may be made of the connection; for each one:
  Opens,         \* the streams that are opened
  Calls,         \* the methods each endpoint's application calls
  Sizes,         \* the sizes of its reads and writes
  PeekSizes,     \* the sizes of its peeks
  MaxBytes       \* bound: how much it writes to a stream

\* newConn declares the stream window for each kind of stream.
ASSUME MuxAssumption ==
  /\ WireCap \in Nat \ {0} /\ RecordFrames \in Nat \ {0}
  /\ StreamLimit = [e \in Endpoints |-> [k \in Kinds |-> StreamWindow[e]]]
  /\ \A u \in Uses :
       /\ Opens[u] \subseteq StreamIDs
       /\ Calls[u] \in [Endpoints -> SUBSET STRING]
       /\ Sizes[u] \subseteq Nat \ {0} /\ PeekSizes[u] \subseteq Nat \ {0}
       /\ MaxBytes[u] \in Nat

VARIABLES
  use,      \* the use made of the connection
  conn,     \* the connection of each endpoint
  wire,     \* the records on their way to each endpoint
  writeMu,  \* who holds it, and the records the holder has yet to write
  woken,    \* the write loop has taken controlWake, and not flushed yet
  writing,  \* each stream's Write: the bytes left, and where it is
  peeking   \* each stream's Peek: the bytes it waits for, or 0

vars == <<use, conn, wire, writeMu, woken, writing, peeking>>

Unlocked == [owner |-> "nobody", records |-> <<>>]
Idle == [left |-> 0, at |-> "credit"]
Parameters == [type |-> "TRANSPORT_PARAMETERS"]

\* newConn takes writeMu on behalf of sendParameters, so that the parameters
\* are the first record whatever else is called.
Init ==
  /\ use \in Uses
  /\ conn = [e \in Endpoints |-> newConn(e)]
  /\ wire = [e \in Endpoints |-> <<>>]
  /\ writeMu = [e \in Endpoints |->
                  [owner |-> "loop", records |-> << <<Parameters>> >>]]
  /\ woken = [e \in Endpoints |-> FALSE]
  /\ writing = [e \in Endpoints |-> [id \in StreamIDs |-> Idle]]
  /\ peeking = [e \in Endpoints |-> [id \in StreamIDs |-> 0]]

App(e, call) == call \in Calls[use][e] /\ conn[e].ready

Holds(e, id) == opened(e, conn[e], id) /\ conn[e].streams[id].accepted
-----------------------------------------------------------------------------
(* Writing *)

Free(e) == writeMu[e].owner = "nobody"

\* The application calls Write with n bytes.
CallWrite(e, id, n) ==
  /\ App(e, "Write") /\ Holds(e, id) /\ canSend(e, id)
  /\ writing[e][id].left = 0
  /\ conn[e].streams[id].sendOffset + n <= MaxBytes[use]
  /\ writing' = [writing EXCEPT ![e][id].left = n]
  /\ UNCHANGED <<use, conn, wire, writeMu, woken, peeking>>

\* trySend, from waitSendCredit: fail, with an error or because the deadline
\* has passed, whether there is credit or not; go on; or sleep.
TrySend(e, id) ==
  LET c == conn[e]  w == writing[e][id] IN
  /\ w.left > 0
  /\ w.at = "credit" \/ (w.at = "asleep" /\ ~writerAsleep(c, id))
  /\ \/ /\ sendErrLocked(c, id) \/ App(e, "SetWriteDeadline")
        /\ writing' = [writing EXCEPT ![e][id] = Idle] /\ UNCHANGED conn
     \/ /\ ~sendErrLocked(c, id) /\ sendCreditLocked(c, id) > 0
        /\ writing' = [writing EXCEPT ![e][id].at = "chunk"] /\ UNCHANGED conn
     \/ /\ ~sendErrLocked(c, id) /\ sendCreditLocked(c, id) = 0
        /\ writing' = [writing EXCEPT ![e][id].at = "asleep"]
        /\ conn' = [conn EXCEPT ![e] = awaitCredit(c, id)]
  /\ UNCHANGED <<use, wire, writeMu, woken, peeking>>

\* wait gives up: the write deadline has passed.
WriteTimeout(e, id) ==
  /\ App(e, "SetWriteDeadline")
  /\ writing[e][id].at = "asleep"
  /\ writing' = [writing EXCEPT ![e][id] = Idle]
  /\ UNCHANGED <<use, conn, wire, writeMu, woken, peeking>>

\* writeChunk takes writeMu and reserves credit; without an error and with
\* some credit left, it keeps the lock and has one record to write.
WriteChunk(e, id) ==
  LET c == conn[e]
      s == c.streams[id]
      n == reserved(c, id, writing[e][id].left)
      f == [type |-> "STREAM", id |-> id, off |-> s.sendOffset, len |-> n, fin |-> FALSE]
  IN
  /\ Free(e) /\ writing[e][id].at = "chunk"
  /\ IF sendErrLocked(c, id)
     THEN writing' = [writing EXCEPT ![e][id] = Idle] /\ UNCHANGED <<conn, writeMu>>
     ELSE IF n = 0
     THEN writing' = [writing EXCEPT ![e][id].at = "credit"] /\ UNCHANGED <<conn, writeMu>>
     ELSE /\ conn' = [conn EXCEPT ![e] = reserve(c, id, n)]
          /\ writeMu' = [writeMu EXCEPT ![e] = [owner |-> "write", records |-> << <<f>> >>]]
          /\ writing' = [writing EXCEPT ![e][id].at = "record"]
  /\ UNCHANGED <<use, wire, woken, peeking>>

\* closeSend, up to the FIN it has to write.
CloseSend(e, id) ==
  LET c == conn[e]
      f == [type |-> "STREAM", id |-> id, off |-> c.streams[id].sendOffset,
            len |-> 0, fin |-> TRUE]
  IN
  /\ App(e, "CloseWrite") /\ Holds(e, id) /\ canSend(e, id)
  /\ Free(e) /\ ~sendErrLocked(c, id)
  /\ conn' = [conn EXCEPT ![e] = finish(e, c, id)]
  /\ writeMu' = [writeMu EXCEPT ![e] = [owner |-> "close", records |-> << <<f>> >>]]
  /\ UNCHANGED <<use, wire, woken, writing, peeking>>

\* The write loop receives from controlWake ...
WakeWriteLoop(e) ==
  /\ conn[e].controlWake /\ ~woken[e] /\ writeMu[e].owner # "loop"
  /\ conn' = [conn EXCEPT ![e].controlWake = FALSE]
  /\ woken' = [woken EXCEPT ![e] = TRUE]
  /\ UNCHANGED <<use, wire, writeMu, writing, peeking>>

\* The control frames as the records that flushControl makes of them.
Records(frames) ==
  [k \in 1 .. (Len(frames) + RecordFrames - 1) \div RecordFrames |->
     SubSeq(frames, (k - 1) * RecordFrames + 1,
            IF k * RecordFrames < Len(frames) THEN k * RecordFrames ELSE Len(frames))]

\* Faulty variant: flushControl does not take writeMu, and its records go out
\* ahead of the one that a writer has reserved credit for.
FlushControlUnlocked(e) ==
  LET frames == taken(conn[e]) IN
  /\ woken[e]
  /\ conn' = [conn EXCEPT ![e] = takeControl(@)]
  /\ woken' = [woken EXCEPT ![e] = FALSE]
  /\ writeMu' = [writeMu EXCEPT ![e] =
       IF frames = <<>> THEN @
       ELSE IF Free(e) THEN [owner |-> "loop", records |-> Records(frames)]
       ELSE [@ EXCEPT !.owner = "loop", !.records = Records(frames) \o @]]
  /\ UNCHANGED <<use, wire, writing, peeking>>

\* ... and flushControl takes writeMu and the control frames.
FlushControl(e) ==
  LET frames == taken(conn[e]) IN
  /\ woken[e] /\ Free(e)
  /\ conn' = [conn EXCEPT ![e] = takeControl(@)]
  /\ woken' = [woken EXCEPT ![e] = FALSE]
  /\ writeMu' = [writeMu EXCEPT ![e] =
       IF frames = <<>> THEN Unlocked
       ELSE [owner |-> "loop", records |-> Records(frames)]]
  /\ UNCHANGED <<use, wire, writing, peeking>>

\* Faulty variant: writeChunk reports a full chunk whatever it reserved.
WriteRecordFull(e) ==
  LET mu == writeMu[e]
      record == Head(mu.records)
  IN
  /\ ~Free(e) /\ Len(wire[Peer(e)]) < WireCap
  /\ wire' = [wire EXCEPT ![Peer(e)] = Append(@, record)]
  /\ writeMu' = [writeMu EXCEPT ![e] =
       IF Len(mu.records) = 1 THEN Unlocked ELSE [@ EXCEPT !.records = Tail(@)]]
  /\ writing' = IF mu.owner # "write" THEN writing
                ELSE [writing EXCEPT ![e][record[1].id] =
                        [left |-> @.left - MaxChunk, at |-> "credit"]]
  /\ UNCHANGED <<use, conn, woken, peeking>>

\* writeRecordLocked, and Unlock after the holder's last record.  writeChunk
\* then reports how much it wrote.
WriteRecord(e) ==
  LET mu == writeMu[e]
      record == Head(mu.records)
  IN
  /\ ~Free(e) /\ Len(wire[Peer(e)]) < WireCap
  /\ wire' = [wire EXCEPT ![Peer(e)] = Append(@, record)]
  /\ writeMu' = [writeMu EXCEPT ![e] =
       IF Len(mu.records) = 1 THEN Unlocked ELSE [@ EXCEPT !.records = Tail(@)]]
  /\ writing' = IF mu.owner # "write" THEN writing
                ELSE [writing EXCEPT ![e][record[1].id] =
                        [left |-> @.left - record[1].len, at |-> "credit"]]
  /\ UNCHANGED <<use, conn, woken, peeking>>
-----------------------------------------------------------------------------
(* Reading *)

\* handleRecord: the frames in order, up to the first error.
HandleRecord(e) ==
  LET step(c, f) == IF c.fault = None THEN handleFrame(e, c, f) ELSE c IN
  /\ wire[e] # <<>> /\ conn[e].fault = None
  /\ conn' = [conn EXCEPT ![e] = FoldLeft(step, @, Head(wire[e]))]
  /\ wire' = [wire EXCEPT ![e] = Tail(@)]
  /\ UNCHANGED <<use, writeMu, woken, writing, peeking>>

\* A call that changes nothing but the endpoint's connection.
Change(e, c) ==
  conn' = [conn EXCEPT ![e] = c] /\ UNCHANGED <<use, wire, writeMu, woken, writing, peeking>>

Open(e, dir) ==
  /\ App(e, "Open")
  /\ streamID(e, conn[e].out[dir].next, dir, TRUE) \in Opens[use]
  /\ Change(e, tryOpen(e, conn[e], dir))

Accept(e, dir) == App(e, "Accept") /\ Change(e, tryAccept(e, conn[e], dir))

\* The application may read the stream: its reader is neither asleep nor in
\* Peek.
CanRead(e, id) ==
  /\ Holds(e, id) /\ canRecv(e, id)
  /\ ~conn[e].streams[id].readSignal /\ peeking[e][id] = 0

Read(e, id, n) ==
  App(e, "Read") /\ CanRead(e, id) /\ Change(e, tryRead(e, conn[e], id, n))

CallPeek(e, id, n) ==
  /\ App(e, "Peek") /\ CanRead(e, id)
  /\ n <= StreamWindow[e]
  /\ peeking' = [peeking EXCEPT ![e][id] = n]
  /\ UNCHANGED <<use, conn, wire, writeMu, woken, writing>>

\* tryPeek, from peek: return, or sleep.
TryPeek(e, id) ==
  LET c == tryPeek(conn[e], id, peeking[e][id]) IN
  /\ peeking[e][id] > 0 /\ ~conn[e].streams[id].readSignal
  /\ conn' = [conn EXCEPT ![e] = c]
  /\ peeking' = [peeking EXCEPT ![e][id] = IF c.streams[id].readSignal THEN @ ELSE 0]
  /\ UNCHANGED <<use, wire, writeMu, woken, writing>>

CancelRead(e, id) ==
  /\ App(e, "CancelRead") /\ Holds(e, id) /\ canRecv(e, id)
  /\ Change(e, cancelRead(e, conn[e], id))

CancelWrite(e, id) ==
  /\ App(e, "CancelWrite") /\ Holds(e, id) /\ canSend(e, id)
  /\ Change(e, resetSendLocked(e, conn[e], id, "local"))

\* The application moves the deadline; when it passes is left open.
SetWriteDeadline(e, id) ==
  /\ App(e, "SetWriteDeadline") /\ Holds(e, id) /\ canSend(e, id)
  /\ Change(e, setWriteDeadline(conn[e], id))
-----------------------------------------------------------------------------
Next ==
  \E e \in Endpoints :
    \/ WakeWriteLoop(e) \/ FlushControl(e) \/ WriteRecord(e) \/ HandleRecord(e)
    \/ \E dir \in Dirs : Open(e, dir) \/ Accept(e, dir)
    \/ \E id \in StreamIDs :
         \/ TrySend(e, id) \/ WriteTimeout(e, id) \/ WriteChunk(e, id)
         \/ CloseSend(e, id) \/ CancelWrite(e, id) \/ SetWriteDeadline(e, id)
         \/ TryPeek(e, id) \/ CancelRead(e, id)
         \/ \E n \in Sizes[use] : CallWrite(e, id, n) \/ Read(e, id, n)
         \/ \E n \in PeekSizes[use] : CallPeek(e, id, n)

Spec == Init /\ [][Next]_vars

\* The endpoints whose application makes some call.
Callers(call) == {e \in Endpoints : \E u \in Uses : call \in Calls[u][e]}

\* The goroutines of an endpoint keep running: its read loop never waits for
\* the application, so records are handled and the transport drains; a writer
\* gets writeMu again and again, the write loop because control writers are
\* served first (ControlServed in WriteLock), and a stream's writer because
\* streams of the default priority take turns.
FairGoroutines ==
  /\ \A e \in Endpoints :
       /\ WF_vars(HandleRecord(e)) /\ WF_vars(WriteRecord(e))
       /\ SF_vars(WakeWriteLoop(e) \/ FlushControl(e))
  /\ \A e \in Callers("Write") : \A id \in {j \in StreamIDs : canSend(e, j)} :
       SF_vars(TrySend(e, id) \/ WriteChunk(e, id))
  /\ \A e \in Callers("Peek") : \A id \in {j \in StreamIDs : canRecv(e, j)} :
       WF_vars(TryPeek(e, id))

\* The application keeps accepting and reading, where it does so at all.
FairReader ==
  /\ \A e \in Callers("Accept"), dir \in Dirs : WF_vars(Accept(e, dir))
  /\ \A e \in Callers("Read") : \A id \in {j \in StreamIDs : canRecv(e, j)} :
       WF_vars(\E n \in Sizes[use] : Read(e, id, n))

FairSpec == Spec /\ FairGoroutines /\ FairReader
-----------------------------------------------------------------------------
\* The shape of the state.
TypeOK ==
  /\ use \in Uses
  /\ conn \in [Endpoints -> ConnState]
  /\ wire \in [Endpoints -> Seq(Seq(Frame))]
  /\ writeMu \in [Endpoints -> [owner : {"nobody", "loop", "write", "close"},
                                records : Seq(Seq(Frame))]]
  /\ woken \in [Endpoints -> BOOLEAN]
  /\ writing \in [Endpoints -> [StreamIDs ->
       [left : Nat, at : {"credit", "asleep", "chunk", "record"}]]]
  /\ peeking \in [Endpoints -> [StreamIDs -> Nat]]

\* Two endpoints that run this code never accuse each other of a violation:
\* no interleaving of writers, cancels, resets and limit updates makes
\* handleFrameLocked return an error.  In particular a RESET_STREAM never
\* overtakes data its final size counts, because the data's writer holds
\* writeMu from reserve to the write.
NoFault == \A e \in Endpoints : conn[e].fault = None

\* Both ends agree on how a stream ended: when the receiver has seen FIN or a
\* reset, the sender has ended the stream, and all it ever reserved has been
\* counted.  So io.EOF comes after all the data written.
FinalSizeAgreed ==
  \A e \in Endpoints, id \in StreamIDs :
    LET r == conn[e].streams[id]  s == conn[Peer(e)].streams[id] IN
    /\ r.finRecv => s.finSent /\ r.recvOffset = s.sendOffset
    /\ r.recvReset => s.sendErr # None /\ r.recvOffset = s.sendOffset

\* The two ends' counts of streams stay in step: the acceptor knows of no
\* stream that was not opened, and the opener never exceeds what the acceptor
\* allows now, though it acts on a MAX_STREAMS sent some time ago.
StreamLimitsAgree ==
  \A e \in Endpoints, dir \in Dirs :
    LET out == conn[e].out[dir]  in == conn[Peer(e)].in[dir] IN
    /\ in.next <= out.next
    /\ out.next <= out.max
    /\ out.max <= in.max

\* The control queue stays small however slow the transport: it never holds
\* two frames of one type for one stream, since a second MAX_STREAM_DATA is
\* due only after the peer has used the first.
ControlQueueBounded ==
  \A e \in Endpoints :
    LET q == conn[e].control IN
    \A i, j \in DOMAIN q : q[i].type = q[j].type /\ q[i].id = q[j].id => i = j

\* Flow control as its documentation states it, for one stream from e to its
\* peer and for the connection: CreditWindow, with the two ends' counters.
StreamCredit(e, id) ==
  INSTANCE CreditWindow WITH
    Window <- StreamWindow[Peer(e)],
    sent <- conn[e].streams[id].sendOffset,
    limit <- conn[e].streams[id].sendMax,
    received <- conn[Peer(e)].streams[id].recvOffset,
    granted <- conn[Peer(e)].streams[id].recvMax,
    consumed <- conn[Peer(e)].streams[id].readOffset

ConnCredit(e) ==
  INSTANCE CreditWindow WITH
    Window <- ConnWindow[Peer(e)],
    sent <- conn[e].sent,
    limit <- conn[e].sendMax,
    received <- conn[Peer(e)].received,
    granted <- conn[Peer(e)].recvMax,
    consumed <- conn[Peer(e)].consumed

\* Every stream, and the connection as a whole, implements CreditWindow: in
\* no state and by no step does a sender get more than a window ahead of the
\* peer's application, and the limits it acts on are limits that were granted.
\* (This is the conjunction of the instances' Spec, with one box.)
ImplementsCreditWindow ==
  /\ \A e \in Endpoints :
       /\ ConnCredit(e)!Init
       /\ \A id \in {j \in StreamIDs : canSend(e, j)} : StreamCredit(e, id)!Init
  /\ [][\A e \in Endpoints :
          /\ UNCHANGED ConnCredit(e)!vars \/ ConnCredit(e)!Next
          /\ \A id \in {j \in StreamIDs : canSend(e, j)} :
               UNCHANGED StreamCredit(e, id)!vars \/ StreamCredit(e, id)!Next]_conn

\* A Write returns, as long as the peer's application accepts and reads: the
\* limits it waits for are extended, sent, and acted on.  (Again and again the
\* stream is in no Write.)
WritesFinish ==
  \A e \in Callers("Write") : \A id \in {j \in StreamIDs : canSend(e, j)} :
    []<>(writing[e][id].left = 0)

\* Ending streams makes room for new ones: again and again a sender that has
\* ended k of its unidirectional streams, by Close, CancelWrite or the peer's
\* STOP_SENDING, is allowed k streams more than at first, provided the peer's
\* application accepts and reads.  Every one is forgotten and counted by
\* completeLocked, at whichever of tryAccept, tryRead, handleStreamLocked and
\* handleResetStreamLocked comes last, and announced by takeControl.
Ended(e) == {id \in StreamIDs : /\ streamDir(id) = "uni" /\ initiatedLocally(e, id)
                                /\ opened(e, conn[e], id)
                                /\ sendDone(e, conn[e].streams[id], id)}
EndingMakesRoom ==
  \A e \in Callers("Open") :
    []<>(conn[e].out["uni"].max >= MaxIncoming[Peer(e)]["uni"] + Cardinality(Ended(e)))

\* The stream limits this endpoint declares are ones the protocol allows, so
\* that wire.Parse of the peer takes them.
DeclaredLimitsAllowed ==
  \A e \in Endpoints : \A i \in DOMAIN wire[e] : \A j \in DOMAIN wire[e][i] :
    wire[e][i][j].type = "MAX_STREAMS" => wire[e][i][j].max <= MaxStreamCount

\* A Peek of no more than the stream's window is filled while the peer is
\* still writing to the stream.
PeekFills ==
  \A e \in Endpoints, id \in StreamIDs :
    peeking[e][id] > 0 /\ writing[Peer(e)][id].left > 0
      ~> peeking[e][id] = 0 \/ writing[Peer(e)][id].left = 0
=============================================================================
