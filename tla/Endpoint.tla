------------------------------ MODULE Endpoint ------------------------------
(***************************************************************************)
(* One endpoint's connection, with a peer that may send any frame at any   *)
(* time and an application that may call any method at any time.  Every    *)
(* critical section of Conn.mu is one action.  This is the module for what *)
(* the endpoint guarantees on its own, whatever the peer does: limits that *)
(* are enforced, credit that is accounted for, streams that are counted    *)
(* once, goroutines that are woken.                                        *)
(*                                                                         *)
(* A record is taken to hold one frame: handleRecord holds Conn.mu for a   *)
(* whole record, so a longer one is some of the interleavings of its       *)
(* frames as records of their own.                                         *)
(***************************************************************************)
EXTENDS Conn, FiniteSetsExt

CONSTANTS
  Self,        \* the endpoint, "client" or "server"
  Uses,        \* the uses that may be made of the connection; for each one:
  PeerFrames,  \* the frames that the peer sends
  Calls,       \* the methods that the application calls
  Sizes,       \* the sizes of its reads and writes
  ReadErrors   \* what the transport's readRecord may fail with

ASSUME EndpointAssumption ==
  /\ Self \in Endpoints
  /\ \A u \in Uses : PeerFrames[u] \subseteq Frame /\ Sizes[u] \subseteq Nat \ {0}
  /\ \A u \in Uses : ReadErrors[u] \subseteq {"FRAME_ENCODING_ERROR", "TRANSPORT_CLOSED"}

VARIABLES
  use,       \* the use made of this connection
  c,         \* the connection
  flushing,  \* the write loop has taken controlWake, and not flushed yet
  want       \* how much data wakes the goroutines that wait to read a stream

vars == <<use, c, flushing, want>>

Init ==
  /\ use \in Uses
  /\ c = newConn(Self)
  /\ flushing = FALSE
  /\ want = [id \in StreamIDs |-> 0]

\* handleRecord, called by the read loop, which stops at an error.
HandleRecord ==
  /\ running(c) /\ c.fault = None
  /\ \E f \in PeerFrames[use] : c' = handleFrame(Self, c, f)
  /\ UNCHANGED <<use, flushing, want>>

\* The read loop acts on handleRecord's error: closeWithTransportError, or
\* abort when the peer closed the connection.
CloseOnError ==
  /\ running(c) /\ c.fault # None
  /\ c' = terminate(c, c.fault)
  /\ UNCHANGED <<use, flushing, want>>

\* readRecord fails: the read loop aborts when the transport has ended, and
\* closes with the transport's error after a record over the limit.
ReadFails ==
  /\ running(c) /\ c.fault = None
  /\ \E err \in ReadErrors[use] : c' = terminate(c, err)
  /\ UNCHANGED <<use, flushing, want>>

\* The application holds the connection once start has seen the handshake.
\* A call on a closed connection returns closeErr and changes nothing.
App(call) ==
  call \in Calls[use] /\ running(c) /\ c.ready /\ UNCHANGED <<use, flushing>>

CloseWithError == App("Close") /\ c' = terminate(c, "APPLICATION") /\ UNCHANGED want

Open(dir) ==
  /\ App("Open")
  /\ streamID(Self, c.out[dir].next, dir, TRUE) \in StreamIDs
  /\ c' = tryOpen(Self, c, dir)
  /\ UNCHANGED want

Accept(dir) == App("Accept") /\ c' = tryAccept(Self, c, dir) /\ UNCHANGED want

\* The streams the application holds, and may read from or write to.
Held == {id \in StreamIDs : opened(Self, c, id) /\ c.streams[id].accepted}
Readable == {id \in Held : canRecv(Self, id)}
Writable == {id \in Held : canSend(Self, id)}

\* History, for NoLostWakeup: a read that finds fewer than n bytes, and neither
\* an end nor an error, sleeps.  want is the least that the goroutines on
\* readSignal wait for.
WaitFor(id, n) ==
  LET s == c.streams[id]
      sleeps == s.unread < n /\ ~s.finRecv /\ s.recvErr = None
  IN  want' = IF ~sleeps THEN want
              ELSE [want EXCEPT ![id] = IF s.readSignal THEN Min({@, n}) ELSE n]

Read(id, n) == App("Read") /\ c' = tryRead(Self, c, id, n) /\ WaitFor(id, 1)

Peek(id, n) ==
  /\ App("Peek")
  /\ n <= StreamWindow[Self]
  /\ c' = tryPeek(c, id, n)
  /\ WaitFor(id, n)

CancelRead(id) == App("CancelRead") /\ c' = cancelRead(Self, c, id) /\ UNCHANGED want

\* waitSendCredit finds no credit.
AwaitCredit(id) ==
  /\ App("Write")
  /\ ~sendErrLocked(c, id) /\ sendCreditLocked(c, id) = 0
  /\ c' = awaitCredit(c, id)
  /\ UNCHANGED want

\* The reserve of writeChunk.
Reserve(id, n) ==
  App("Write") /\ ~sendErrLocked(c, id) /\ c' = reserve(c, id, n) /\ UNCHANGED want

\* The finish of closeSend.
Finish(id) ==
  App("CloseWrite") /\ ~sendErrLocked(c, id) /\ c' = finish(Self, c, id) /\ UNCHANGED want

CancelWrite(id) ==
  App("CancelWrite") /\ c' = resetSendLocked(Self, c, id, "local") /\ UNCHANGED want

SetReadDeadline(id) ==
  App("SetReadDeadline") /\ c' = setReadDeadline(c, id) /\ UNCHANGED want

SetWriteDeadline(id) ==
  App("SetWriteDeadline") /\ c' = setWriteDeadline(c, id) /\ UNCHANGED want

\* The write loop receives from controlWake, and later takes the frames.
WakeWriteLoop ==
  /\ c.controlWake /\ ~flushing
  /\ c' = [c EXCEPT !.controlWake = FALSE]
  /\ flushing' = TRUE
  /\ UNCHANGED <<use, want>>

FlushControl ==
  /\ flushing
  /\ c' = IF running(c) THEN takeControl(c) ELSE c
  /\ flushing' = FALSE
  /\ UNCHANGED <<use, want>>

Next ==
  \/ HandleRecord
  \/ CloseOnError
  \/ ReadFails
  \/ CloseWithError
  \/ \E dir \in Dirs : Open(dir) \/ Accept(dir)
  \/ \E id \in Readable : \/ CancelRead(id) \/ SetReadDeadline(id)
                          \/ \E n \in Sizes[use] : Read(id, n) \/ Peek(id, n)
  \/ \E id \in Writable : \/ AwaitCredit(id) \/ Finish(id) \/ CancelWrite(id)
                          \/ SetWriteDeadline(id)
                          \/ \E n \in Sizes[use] : Reserve(id, n)
  \/ WakeWriteLoop
  \/ FlushControl

Spec == Init /\ [][Next]_vars
-----------------------------------------------------------------------------
\* The shape of the state.
TypeOK ==
  /\ use \in Uses
  /\ c \in ConnState
  /\ flushing \in BOOLEAN
  /\ want \in [StreamIDs -> Nat]

\* Whatever the peer sends, no stream holds more unread data than its window
\* and no limit is overrun: handleStreamLocked and handleResetStreamLocked
\* check before they count, and readLocked and consumeLocked never let the
\* peer run more than a window ahead of the application.  It also says that
\* the unsigned subtraction recvMax - readOffset does not wrap around.
FlowControlEnforced ==
  /\ \A id \in StreamIDs :
       LET s == c.streams[id] IN
       /\ s.readOffset + s.unread <= s.recvOffset
       /\ s.recvOffset <= s.recvMax
       /\ s.recvMax <= s.readOffset + StreamWindow[Self]
  /\ c.received <= c.recvMax
  /\ c.recvMax <= c.consumed + ConnWindow[Self]

\* The peer never has to stop for good: while it may still send on a stream,
\* the application's reading of all that the peer may send has extended the
\* stream's limit, and the connection's likewise ("extends the limit once
\* half the window is used", readLocked and consumeLocked).
WindowReopened ==
  /\ \A id \in StreamIDs :
       LET s == c.streams[id] IN
       opened(Self, c, id) /\ ~recvDone(Self, s, id) /\ ~s.finRecv /\ ~s.readCancelled
         => s.readOffset < s.recvMax
  /\ c.consumed < c.recvMax

\* No connection credit leaks: what has been received and not consumed is
\* exactly what waits in the read buffers.  A stream that ends in any of its
\* ways (read to the end, reset, cancelled, or some of these in either order)
\* has given back all it was charged for, so the connection cannot run dry.
\* Likewise the connection is charged for exactly what its streams have
\* reserved to send.  (So consumed never exceeds received, and the unsigned
\* recvMax - consumed of consumeLocked does not wrap around.)
CreditAccounted ==
  /\ c.received - c.consumed = MapThenSumSet(LAMBDA id : c.streams[id].unread, StreamIDs)
  /\ c.sent = MapThenSumSet(LAMBDA id : c.streams[id].sendOffset, StreamIDs)

\* This endpoint never sends past the peer's limits, neither on a stream nor
\* on the connection, however its writers and the peer's updates interleave.
SendWithinLimits ==
  /\ \A id \in StreamIDs : c.streams[id].sendOffset <= c.streams[id].sendMax
  /\ c.sent <= c.sendMax

\* No wake-up is lost: while a goroutine sleeps on a signal (in Read or Peek,
\* in Write, in OpenStreamSync, in AcceptStream), what it waits for has not
\* happened, and neither has anything that would make it fail.
NoLostWakeup ==
  /\ \A id \in StreamIDs :
       LET s == c.streams[id] IN
       /\ s.readSignal =>
            running(c) /\ s.unread < want[id] /\ ~s.finRecv /\ s.recvErr = None
       /\ writerAsleep(c, id) =>
            running(c) /\ ~sendErrLocked(c, id) /\ sendCreditLocked(c, id) = 0
  /\ \A dir \in Dirs :
       /\ c.out[dir].signal => running(c) /\ c.out[dir].next >= c.out[dir].max
       /\ c.in[dir].signal => running(c) /\ c.in[dir].queue = <<>>

\* Control frames are never stranded: while a frame or a limit waits to be
\* sent, the write loop has been woken for it or is about to take it.
ControlNotStranded ==
  running(c) /\ taken(c) # <<>> => c.controlWake \/ flushing

\* Streams the peer opened, of one direction kind.
Incoming(dir) ==
  {id \in StreamIDs : ~initiatedLocally(Self, id) /\ streamDir(id) = dir}

\* The peer's stream limit counts what it should: it grows by one for each
\* stream of the peer that both sides are done with, once, and the accept
\* queue holds exactly the streams not yet accepted, each once and in the
\* order of their IDs, which is the order the peer opened them in.  So neither
\* the live streams nor the queue exceed the configured maximum, whatever the
\* peer opens and however late the application accepts.
StreamsCounted ==
  \A dir \in Dirs :
    LET in == c.in[dir]
        live == {id \in Incoming(dir) : opened(Self, c, id) /\ ~c.streams[id].done}
        waiting == {id \in live : ~c.streams[id].accepted}
    IN  /\ in.max = MaxIncoming[Self][dir]
                      + Cardinality({id \in Incoming(dir) : c.streams[id].done})
        /\ Cardinality(live) <= MaxIncoming[Self][dir]
        /\ {in.queue[k] : k \in DOMAIN in.queue} = waiting
        /\ \A j, k \in DOMAIN in.queue : j < k => in.queue[j] < in.queue[k]

\* A stream's history is never rewritten: once the peer has ended the stream,
\* by FIN or by reset, its final size stays, the limits an endpoint has
\* declared or been given never shrink, and a forgotten stream stays as it is.
HistoryKept ==
  [][/\ \A id \in StreamIDs :
          LET s == c.streams[id]  t == c'.streams[id] IN
          opened(Self, c, id) =>
            /\ s.finRecv \/ s.recvReset => t.recvOffset = s.recvOffset
            /\ s.finSent \/ s.sendErr # None => t.sendOffset = s.sendOffset
            /\ t.recvMax >= s.recvMax /\ t.sendMax >= s.sendMax
            /\ s.done => t = s
     /\ c'.recvMax >= c.recvMax /\ c'.sendMax >= c.sendMax
     /\ \A dir \in Dirs : /\ c'.out[dir].max >= c.out[dir].max
                          /\ c'.in[dir].max >= c.in[dir].max]_vars
=============================================================================
