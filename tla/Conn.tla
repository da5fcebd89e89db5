-------------------------------- MODULE Conn --------------------------------
(***************************************************************************)
(* The state of one endpoint's connection and the operations on it that    *)
(* run under Conn.mu (src/qmux/conn.go, src/qmux/stream.go).  The mutex    *)
(* makes each of them atomic, so each is an operator from a connection     *)
(* record c to the record it leaves behind; the first argument e is the    *)
(* endpoint, which tells a client's connection from a server's.  Endpoint  *)
(* and Mux turn them into actions.                                         *)
(*                                                                         *)
(* Stream data is abstracted to byte counts: an offset and a length say    *)
(* which bytes a frame carries, and the read buffer rbuf[roff:] is the     *)
(* number of unread bytes.  A signal is TRUE while its channel exists,     *)
(* that is while some goroutine may be asleep on it; broadcast makes it    *)
(* FALSE.  Datagrams, pings and the idle timeout are not part of this      *)
(* state.                                                                  *)
(***************************************************************************)
EXTENDS Integers, Sequences, FiniteSets

CONSTANTS
  StreamIDs,      \* the streams that may be opened (a bound)
  StreamWindow,   \* Config.InitialStreamReceiveWindow of each endpoint
  StreamLimit,    \* the initial_max_stream_data parameters each declares
  ConnWindow,     \* Config.InitialConnectionReceiveWindow of each endpoint
  MaxIncoming,    \* Config.MaxIncomingStreams and MaxIncomingUniStreams
  MaxChunk,       \* maxStreamData: the most data one record carries
  MaxStreamCount  \* maxStreams of the wire package, 2^60 in the code

Endpoints == {"client", "server"}
Dirs == {"bidi", "uni"}
Kinds == {"bidi_local", "bidi_remote", "uni"}
None == "none"

ASSUME ConnAssumption ==
  /\ StreamIDs \subseteq Nat /\ IsFiniteSet(StreamIDs)
  /\ \A id \in StreamIDs : \A k \in 0 .. id \div 4 : id - 4 * k \in StreamIDs
  /\ StreamWindow \in [Endpoints -> Nat]
  /\ StreamLimit \in [Endpoints -> [Kinds -> Nat]]
  /\ ConnWindow \in [Endpoints -> Nat]
  /\ MaxIncoming \in [Endpoints -> [Dirs -> Nat]]
  /\ MaxChunk \in Nat \ {0}
  /\ MaxStreamCount \in Nat

Peer(e) == IF e = "client" THEN "server" ELSE "client"
-----------------------------------------------------------------------------
(* Stream identifiers *)

streamDir(id) == IF (id \div 2) % 2 = 1 THEN "uni" ELSE "bidi"
initiatedLocally(e, id) == (id % 2 = 1) <=> (e = "server")
index(id) == id \div 4

streamID(e, i, dir, local) ==
  4 * i + (IF dir = "uni" THEN 2 ELSE 0)
        + (IF local <=> (e = "server") THEN 1 ELSE 0)

canRecv(e, id) == streamDir(id) = "bidi" \/ ~initiatedLocally(e, id)
canSend(e, id) == streamDir(id) = "bidi" \/ initiatedLocally(e, id)
-----------------------------------------------------------------------------
(* Frames, and the state they change *)

Frame ==
  [type : {"TRANSPORT_PARAMETERS", "BLOCKED"}]
    \cup [type : {"STREAMS_BLOCKED"}, max : Nat]
    \cup [type : {"STREAM"}, id : StreamIDs, off : Nat, len : Nat, fin : BOOLEAN]
    \cup [type : {"RESET_STREAM"}, id : StreamIDs, final : Nat]
    \cup [type : {"STOP_SENDING"}, id : StreamIDs]
    \cup [type : {"MAX_STREAM_DATA"}, id : StreamIDs, max : Nat]
    \cup [type : {"MAX_DATA"}, max : Nat]
    \cup [type : {"MAX_STREAMS"}, dir : Dirs, max : Nat]
    \cup [type : {"CONNECTION_CLOSE"}]

Errors == {"STREAM_STATE_ERROR", "STREAM_LIMIT_ERROR", "PROTOCOL_VIOLATION",
           "FLOW_CONTROL_ERROR", "FINAL_SIZE_ERROR", "FRAME_ENCODING_ERROR",
           "CLOSED_BY_PEER", "TRANSPORT_CLOSED", "APPLICATION"}

\* stream: the flags and counters of one stream.
Stream ==
  [accepted : BOOLEAN, done : BOOLEAN,
   unread : Nat, recvOffset : Nat, recvMax : Nat, readOffset : Nat,
   finRecv : BOOLEAN, recvReset : BOOLEAN, readCancelled : BOOLEAN,
   recvErr : {None, "local", "remote"}, readSignal : BOOLEAN,
   sendOffset : Nat, sendMax : Nat, finSent : BOOLEAN,
   sendErr : {None, "local", "remote"}, writeSignal : BOOLEAN]

outgoing == [next : Nat, max : Nat, signal : BOOLEAN]
incoming == [next : Nat, max : Nat, pending : BOOLEAN,
             queue : Seq(StreamIDs), signal : BOOLEAN]

\* Conn.  fault is the error that handleRecord has returned and the read loop
\* has not acted on yet; sendSignal is the set of streams whose writer waits
\* for it.  A stream that the map has forgotten is one that is done.
ConnState ==
  [ready : BOOLEAN, closeErr : Errors \cup {None}, fault : Errors \cup {None},
   out : [Dirs -> outgoing], in : [Dirs -> incoming],
   sendMax : Nat, sent : Nat, sendSignal : SUBSET StreamIDs,
   recvMax : Nat, received : Nat, consumed : Nat, maxDataPending : BOOLEAN,
   control : Seq(Frame), controlWake : BOOLEAN,
   streams : [StreamIDs -> Stream]]

\* The parameter of the peer that limits what this endpoint sends on a stream:
\* the peer's word for a stream this endpoint opened is "remote".
sendKind(e, id) ==
  IF streamDir(id) = "uni" THEN "uni"
  ELSE IF initiatedLocally(e, id) THEN "bidi_remote" ELSE "bidi_local"

\* newStreamLocked: what a stream starts from.
newStream(e, id) ==
  [accepted |-> FALSE, done |-> FALSE,
   unread |-> 0, recvOffset |-> 0,
   recvMax |-> IF canRecv(e, id) THEN StreamWindow[e] ELSE 0,
   readOffset |-> 0,
   finRecv |-> FALSE, recvReset |-> FALSE, readCancelled |-> FALSE,
   recvErr |-> None, readSignal |-> FALSE,
   sendOffset |-> 0,
   sendMax |-> IF canSend(e, id) THEN StreamLimit[Peer(e)][sendKind(e, id)] ELSE 0,
   finSent |-> FALSE, sendErr |-> None, writeSignal |-> FALSE]

\* newConn, before either endpoint has heard from the other.
newConn(e) ==
  [ready |-> FALSE, closeErr |-> None, fault |-> None,
   out |-> [dir \in Dirs |-> [next |-> 0, max |-> 0, signal |-> FALSE]],
   in |-> [dir \in Dirs |->
             [next |-> 0, max |-> MaxIncoming[e][dir], pending |-> FALSE,
              queue |-> <<>>, signal |-> FALSE]],
   sendMax |-> 0, sent |-> 0, sendSignal |-> {},
   recvMax |-> ConnWindow[e], received |-> 0, consumed |-> 0,
   maxDataPending |-> FALSE, control |-> <<>>, controlWake |-> FALSE,
   streams |-> [id \in StreamIDs |-> newStream(e, id)]]

\* The stream exists: either side has opened it.
opened(e, c, id) ==
  LET side == IF initiatedLocally(e, id) THEN c.out ELSE c.in
  IN  index(id) < side[streamDir(id)].next

recvDone(e, s, id) ==
  \/ ~canRecv(e, id)
  \/ s.recvReset
  \/ s.finRecv /\ (s.readCancelled \/ s.unread = 0)

sendDone(e, s, id) == ~canSend(e, id) \/ s.finSent \/ s.sendErr # None
-----------------------------------------------------------------------------
(* Helpers the handlers share *)

\* Faulty variant: the write loop is not woken.
queueLockedQuiet(c, f) == [c EXCEPT !.control = Append(@, f)]

queueLocked(c, f) ==
  [c EXCEPT !.control = Append(@, f), !.controlWake = TRUE]

\* handleRecord returns the error and drops the rest of the record.
fail(c, err) == [c EXCEPT !.fault = err]

\* Faulty variants, like the others below for checking that the properties
\* notice them: completeLocked does not wait for the stream to be accepted,
completeLockedEarly(e, c, id) ==
  LET s == c.streams[id]
      in == [c.in[streamDir(id)] EXCEPT !.max = @ + 1, !.pending = TRUE]
      d == [c EXCEPT !.streams[id] = [@ EXCEPT !.done = TRUE, !.unread = 0]]
  IN  IF s.done \/ ~recvDone(e, s, id) \/ ~sendDone(e, s, id)
      THEN c
      ELSE IF initiatedLocally(e, id)
      THEN d
      ELSE [d EXCEPT !.in[streamDir(id)] = in, !.controlWake = TRUE]

\* or does not wake the write loop.
completeLockedQuiet(e, c, id) ==
  LET s == c.streams[id]
      in == [c.in[streamDir(id)] EXCEPT !.max = @ + 1, !.pending = TRUE]
      d == [c EXCEPT !.streams[id] = [@ EXCEPT !.done = TRUE, !.unread = 0]]
  IN  IF s.done \/ ~s.accepted \/ ~recvDone(e, s, id) \/ ~sendDone(e, s, id)
      THEN c
      ELSE IF initiatedLocally(e, id)
      THEN d
      ELSE [d EXCEPT !.in[streamDir(id)] = in]

\* completeLocked: forget a stream whose two directions have ended, and let
\* the peer open another in its place.
completeLocked(e, c, id) ==
  LET s == c.streams[id]
      in == [c.in[streamDir(id)] EXCEPT !.max = @ + 1, !.pending = TRUE]
      d == [c EXCEPT !.streams[id] = [@ EXCEPT !.done = TRUE, !.unread = 0]]
  IN  IF s.done \/ ~s.accepted \/ ~recvDone(e, s, id) \/ ~sendDone(e, s, id)
      THEN c
      ELSE IF initiatedLocally(e, id)
      THEN d
      ELSE [d EXCEPT !.in[streamDir(id)] = in, !.controlWake = TRUE]

\* consumeLocked: data left the receive buffers; extend the connection's
\* limit once half the window is used.
consumeLocked(e, c, n) ==
  LET consumed == c.consumed + n
      extend == c.recvMax - consumed < ConnWindow[e] \div 2
  IN  [c EXCEPT !.consumed = consumed,
                !.recvMax = IF extend THEN consumed + ConnWindow[e] ELSE @,
                !.maxDataPending = @ \/ extend,
                !.controlWake = @ \/ extend]

\* Faulty variants: readLocked extends the limit at every read, or only when
\* the peer has run past it.
readLockedAlways(e, c, id, n) ==
  LET offset == c.streams[id].readOffset + n
      limit == offset + StreamWindow[e]
      d == [consumeLocked(e, c, n) EXCEPT !.streams[id].readOffset = offset]
  IN  queueLocked([d EXCEPT !.streams[id].recvMax = limit],
                  [type |-> "MAX_STREAM_DATA", id |-> id, max |-> limit])
readLockedLate(e, c, id, n) ==
  LET s == c.streams[id]
      offset == s.readOffset + n
      limit == offset + StreamWindow[e]
      d == [consumeLocked(e, c, n) EXCEPT !.streams[id].readOffset = offset]
  IN  IF ~s.finRecv /\ s.recvMax < offset
      THEN queueLocked([d EXCEPT !.streams[id].recvMax = limit],
                       [type |-> "MAX_STREAM_DATA", id |-> id, max |-> limit])
      ELSE d

\* readLocked: the application has read n bytes; extend the stream's limit
\* once half its window is used.
readLocked(e, c, id, n) ==
  LET s == c.streams[id]
      offset == s.readOffset + n
      limit == offset + StreamWindow[e]
      d == [consumeLocked(e, c, n) EXCEPT !.streams[id].readOffset = offset]
  IN  IF ~s.finRecv /\ s.recvMax - offset < StreamWindow[e] \div 2
      THEN queueLocked([d EXCEPT !.streams[id].recvMax = limit],
                       [type |-> "MAX_STREAM_DATA", id |-> id, max |-> limit])
      ELSE d

\* resetSendLocked, for cancelWrite and for the peer's STOP_SENDING.
resetSendLocked(e, c, id, reason) ==
  LET s == c.streams[id]
      d == [c EXCEPT !.streams[id] =
              [@ EXCEPT !.sendErr = reason, !.writeSignal = FALSE]]
  IN  IF sendDone(e, s, id)
      THEN c
      ELSE completeLocked(e,
             queueLocked(d, [type |-> "RESET_STREAM", id |-> id, final |-> s.sendOffset]),
             id)
-----------------------------------------------------------------------------
(* Frames from the peer *)

\* streamLocked: why a frame may not refer to the stream.  recv tells frames
\* about the data the peer sends from those about the data it receives.
streamError(e, c, id, recv) ==
  LET local == initiatedLocally(e, id)
      dir == streamDir(id)
  IN  IF dir = "uni" /\ (local <=> recv)         THEN "STREAM_STATE_ERROR"
      ELSE IF local /\ index(id) >= c.out[dir].next THEN "STREAM_STATE_ERROR"
      ELSE IF ~local /\ index(id) >= c.in[dir].max  THEN "STREAM_LIMIT_ERROR"
      ELSE None

\* Faulty variant: the new streams join the accept queue at its front.
openUpToFront(e, c, id) ==
  LET dir == streamDir(id)
      in == c.in[dir]
      new == [k \in 1 .. index(id) + 1 - in.next |->
                streamID(e, in.next + k - 1, dir, FALSE)]
  IN  IF initiatedLocally(e, id) \/ index(id) < in.next
      THEN c
      ELSE [c EXCEPT
              !.in[dir] = [in EXCEPT !.next = index(id) + 1,
                                     !.queue = new \o in.queue,
                                     !.signal = FALSE],
              !.streams = [j \in StreamIDs |->
                 IF \E k \in DOMAIN new : new[k] = j THEN newStream(e, j) ELSE @[j]]]

\* streamLocked: a frame of a stream the peer has not used yet opens it, with
\* every lower-numbered one.
openUpTo(e, c, id) ==
  LET dir == streamDir(id)
      in == c.in[dir]
      new == [k \in 1 .. index(id) + 1 - in.next |->
                streamID(e, in.next + k - 1, dir, FALSE)]
  IN  IF initiatedLocally(e, id) \/ index(id) < in.next
      THEN c
      ELSE [c EXCEPT
              !.in[dir] = [in EXCEPT !.next = index(id) + 1,
                                     !.queue = in.queue \o new,
                                     !.signal = FALSE],
              !.streams = [j \in StreamIDs |->
                 IF \E k \in DOMAIN new : new[k] = j THEN newStream(e, j) ELSE @[j]]]

\* A frame of stream id is refused, ignored because the connection has
\* forgotten the stream, or handled.
withStream(e, c, id, recv, handle(_)) ==
  LET err == streamError(e, c, id, recv)
      d == openUpTo(e, c, id)
  IN  IF err # None THEN fail(c, err)
      ELSE IF d.streams[id].done THEN d
      ELSE handle(d)

\* Faulty variant: the connection's limit is not checked.
streamDataErrorLax(c, f) ==
  LET s == c.streams[f.id]
  IN  IF f.off # s.recvOffset THEN "PROTOCOL_VIOLATION"
      ELSE IF s.finRecv \/ s.recvReset
      THEN IF f.len > 0 \/ (f.fin /\ ~s.finRecv) THEN "FINAL_SIZE_ERROR" ELSE None
      ELSE IF s.recvOffset + f.len > s.recvMax THEN "FLOW_CONTROL_ERROR"
      ELSE None

\* The checks of handleStreamLocked and receivedLocked.
streamDataError(c, f) ==
  LET s == c.streams[f.id]
  IN  IF f.off # s.recvOffset THEN "PROTOCOL_VIOLATION"
      ELSE IF s.finRecv \/ s.recvReset
      THEN IF f.len > 0 \/ (f.fin /\ ~s.finRecv) THEN "FINAL_SIZE_ERROR" ELSE None
      ELSE IF \/ s.recvOffset + f.len > s.recvMax
              \/ c.received + f.len > c.recvMax THEN "FLOW_CONTROL_ERROR"
      ELSE None

\* handleStreamLocked, once the stream is known.
streamData(e, c, f) ==
  LET s == c.streams[f.id]
      t == [s EXCEPT !.recvOffset = @ + f.len, !.finRecv = f.fin,
                     !.unread = IF s.readCancelled THEN @ ELSE @ + f.len,
                     !.readSignal = FALSE]
      d == [c EXCEPT !.received = @ + f.len, !.streams[f.id] = t]
  IN  IF streamDataError(c, f) # None THEN fail(c, streamDataError(c, f))
      ELSE IF s.finRecv \/ s.recvReset THEN c
      ELSE completeLocked(e, IF s.readCancelled
                             THEN consumeLocked(e, d, f.len) ELSE d, f.id)

\* Faulty variant: a reset after FIN may change the final size.
streamResetErrorLax(c, f) ==
  LET s == c.streams[f.id]
      skipped == f.final - s.recvOffset
  IN  IF skipped < 0 THEN "FINAL_SIZE_ERROR"
      ELSE IF ~s.recvReset /\ (f.final > s.recvMax \/ c.received + skipped > c.recvMax)
      THEN "FLOW_CONTROL_ERROR"
      ELSE None

\* The checks of handleResetStreamLocked and receivedLocked.
streamResetError(c, f) ==
  LET s == c.streams[f.id]
      skipped == f.final - s.recvOffset
  IN  IF skipped < 0 \/ ((s.finRecv \/ s.recvReset) /\ skipped # 0)
      THEN "FINAL_SIZE_ERROR"
      ELSE IF ~s.recvReset /\ (f.final > s.recvMax \/ c.received + skipped > c.recvMax)
      THEN "FLOW_CONTROL_ERROR"
      ELSE None

\* Faulty variant: the data nobody will read is forgotten, not consumed.
streamResetLeaky(e, c, f) ==
  LET s == c.streams[f.id]
      skipped == f.final - s.recvOffset
      t == [s EXCEPT !.recvOffset = f.final, !.recvReset = TRUE, !.unread = 0,
                     !.recvErr = IF @ = None THEN "remote" ELSE @,
                     !.readSignal = FALSE]
      d == consumeLocked(e, [c EXCEPT !.received = @ + skipped], skipped)
  IN  IF streamResetError(c, f) # None THEN fail(c, streamResetError(c, f))
      ELSE IF s.recvReset THEN c
      ELSE completeLocked(e, [d EXCEPT !.streams[f.id] = t], f.id)

\* handleResetStreamLocked, once the stream is known.  The data the peer
\* never sent, and the data nobody will read, count as consumed.
streamReset(e, c, f) ==
  LET s == c.streams[f.id]
      skipped == f.final - s.recvOffset
      t == [s EXCEPT !.recvOffset = f.final, !.recvReset = TRUE, !.unread = 0,
                     !.recvErr = IF @ = None THEN "remote" ELSE @,
                     !.readSignal = FALSE]
      d == consumeLocked(e, [c EXCEPT !.received = @ + skipped], skipped + s.unread)
  IN  IF streamResetError(c, f) # None THEN fail(c, streamResetError(c, f))
      ELSE IF s.recvReset THEN c
      ELSE completeLocked(e, [d EXCEPT !.streams[f.id] = t], f.id)

\* Faulty variant: nobody is told of the new limit.
maxStreamDataQuiet(c, f) ==
  IF f.max > c.streams[f.id].sendMax
  THEN [c EXCEPT !.streams[f.id].sendMax = f.max]
  ELSE c

\* Faulty variant: an update that comes late lowers the limit.
maxStreamDataAny(c, f) ==
  [c EXCEPT !.streams[f.id] = [@ EXCEPT !.sendMax = f.max, !.writeSignal = FALSE]]

\* The case of handleFrameLocked for MAX_STREAM_DATA.
maxStreamData(c, f) ==
  IF f.max > c.streams[f.id].sendMax
  THEN [c EXCEPT !.streams[f.id] = [@ EXCEPT !.sendMax = f.max, !.writeSignal = FALSE]]
  ELSE c

\* handleParametersLocked.
handleParametersLocked(e, c) ==
  [c EXCEPT !.ready = TRUE,
            !.sendMax = ConnWindow[Peer(e)],
            !.sendSignal = {},
            !.out = [dir \in Dirs |-> [@[dir] EXCEPT !.max = MaxIncoming[Peer(e)][dir],
                                                     !.signal = FALSE]]]

\* The switch of handleFrameLocked.
handleByType(e, c, f) ==
  CASE f.type = "TRANSPORT_PARAMETERS" -> handleParametersLocked(e, c)
    [] f.type = "STREAM" ->
         withStream(e, c, f.id, TRUE, LAMBDA d : streamData(e, d, f))
    [] f.type = "RESET_STREAM" ->
         withStream(e, c, f.id, TRUE, LAMBDA d : streamReset(e, d, f))
    [] f.type = "STOP_SENDING" ->
         withStream(e, c, f.id, FALSE, LAMBDA d : resetSendLocked(e, d, f.id, "remote"))
    [] f.type = "MAX_STREAM_DATA" ->
         withStream(e, c, f.id, FALSE, LAMBDA d : maxStreamData(d, f))
    [] f.type = "MAX_DATA" ->
         IF f.max > c.sendMax THEN [c EXCEPT !.sendMax = f.max, !.sendSignal = {}] ELSE c
    [] f.type = "MAX_STREAMS" ->
         IF f.max > c.out[f.dir].max
         THEN [c EXCEPT !.out[f.dir] = [@ EXCEPT !.max = f.max, !.signal = FALSE]]
         ELSE c
    [] f.type = "CONNECTION_CLOSE" -> fail(c, "CLOSED_BY_PEER")
    [] f.type \in {"BLOCKED", "STREAMS_BLOCKED"} -> c

\* One turn of handleRecord's loop: wire.Parse, of which the model keeps the
\* bound on the number of streams, and handleFrameLocked.  The transport
\* parameters are the first frame, and only the first.
handleFrame(e, c, f) ==
  IF f.type \in {"MAX_STREAMS", "STREAMS_BLOCKED"} /\ f.max > MaxStreamCount
  THEN fail(c, "FRAME_ENCODING_ERROR")
  ELSE IF (f.type = "TRANSPORT_PARAMETERS") <=> c.ready
  THEN fail(c, "PROTOCOL_VIOLATION")
  ELSE handleByType(e, c, f)
-----------------------------------------------------------------------------
(* The application, and the write loop *)

running(c) == c.closeErr = None

\* Faulty variant: one stream too many.
tryOpenExtra(e, c, dir) ==
  LET out == c.out[dir]
      id == streamID(e, out.next, dir, TRUE)
  IN  IF out.next > out.max
      THEN [c EXCEPT !.out[dir].signal = TRUE]
      ELSE [c EXCEPT !.out[dir].next = @ + 1,
                     !.streams[id] = [newStream(e, id) EXCEPT !.accepted = TRUE]]

\* tryOpen: open a stream, or wait at the peer's limit.
tryOpen(e, c, dir) ==
  LET out == c.out[dir]
      id == streamID(e, out.next, dir, TRUE)
  IN  IF out.next >= out.max
      THEN [c EXCEPT !.out[dir].signal = TRUE]
      ELSE [c EXCEPT !.out[dir].next = @ + 1,
                     !.streams[id] = [newStream(e, id) EXCEPT !.accepted = TRUE]]

\* tryAccept: take the first stream of the queue, or wait for one.
tryAccept(e, c, dir) ==
  LET in == c.in[dir]
      id == Head(in.queue)
  IN  IF in.queue = <<>>
      THEN [c EXCEPT !.in[dir].signal = TRUE]
      ELSE completeLocked(e, [c EXCEPT !.in[dir].queue = Tail(@),
                                       !.streams[id].accepted = TRUE], id)

\* Faulty variant: the read is not cut to what the buffer holds.
tryReadPast(e, c, id, n) ==
  LET s == c.streams[id]
  IN  IF s.recvErr # None \/ (s.unread = 0 /\ s.finRecv) THEN c
      ELSE IF s.unread = 0 THEN [c EXCEPT !.streams[id].readSignal = TRUE]
      ELSE completeLocked(e, readLocked(e, [c EXCEPT !.streams[id].unread = @ - n], id, n), id)

\* tryRead of n bytes: an error or io.EOF leaves everything as it is.
tryRead(e, c, id, n) ==
  LET s == c.streams[id]
      k == IF n < s.unread THEN n ELSE s.unread
  IN  IF s.recvErr # None \/ (s.unread = 0 /\ s.finRecv) THEN c
      ELSE IF s.unread = 0 THEN [c EXCEPT !.streams[id].readSignal = TRUE]
      ELSE completeLocked(e, readLocked(e, [c EXCEPT !.streams[id].unread = @ - k], id, k), id)

\* tryPeek of n bytes waits for all of them, unless the stream has ended.
tryPeek(c, id, n) ==
  LET s == c.streams[id]
  IN  IF s.recvErr # None \/ s.unread >= n \/ s.finRecv THEN c
      ELSE [c EXCEPT !.streams[id].readSignal = TRUE]

\* Faulty variant: a read that waits is not told,
cancelReadQuiet(e, c, id) ==
  LET s == c.streams[id]
      t == [s EXCEPT !.readCancelled = TRUE, !.recvErr = "local", !.unread = 0]
      d == [consumeLocked(e, c, s.unread) EXCEPT !.streams[id] = t]
  IN  IF s.recvErr # None \/ recvDone(e, s, id) THEN c
      ELSE completeLocked(e, IF s.finRecv THEN d
                             ELSE queueLocked(d, [type |-> "STOP_SENDING", id |-> id]), id)

\* or every call asks the peer to stop.
cancelReadAgain(e, c, id) ==
  LET s == c.streams[id]
      t == [s EXCEPT !.readCancelled = TRUE, !.recvErr = "local", !.unread = 0,
                     !.readSignal = FALSE]
      d == [consumeLocked(e, c, s.unread) EXCEPT !.streams[id] = t]
  IN  IF recvDone(e, s, id) THEN c
      ELSE completeLocked(e, IF s.finRecv THEN d
                             ELSE queueLocked(d, [type |-> "STOP_SENDING", id |-> id]), id)

cancelRead(e, c, id) ==
  LET s == c.streams[id]
      t == [s EXCEPT !.readCancelled = TRUE, !.recvErr = "local", !.unread = 0,
                     !.readSignal = FALSE]
      d == [consumeLocked(e, c, s.unread) EXCEPT !.streams[id] = t]
  IN  IF s.recvErr # None \/ recvDone(e, s, id) THEN c
      ELSE completeLocked(e, IF s.finRecv THEN d
                             ELSE queueLocked(d, [type |-> "STOP_SENDING", id |-> id]), id)

\* setReadDeadline, setWriteDeadline: whoever waits looks at the new deadline.
setReadDeadline(c, id) == [c EXCEPT !.streams[id].readSignal = FALSE]
setWriteDeadline(c, id) == [c EXCEPT !.streams[id].writeSignal = FALSE]

\* Faulty variant: a stream that was reset may still send.
sendErrLockedLax(c, id) == c.streams[id].finSent

\* sendErrLocked, on a connection that is not closed.
sendErrLocked(c, id) == c.streams[id].sendErr # None \/ c.streams[id].finSent

\* Faulty variant: only the stream's limit counts.
sendCreditStream(c, id) ==
  LET s == c.streams[id] IN IF s.sendMax <= s.sendOffset THEN 0 ELSE s.sendMax - s.sendOffset

sendCreditLocked(c, id) ==
  LET s == c.streams[id]
      stream == s.sendMax - s.sendOffset
      conn == c.sendMax - c.sent
  IN  IF stream <= 0 \/ conn <= 0 THEN 0
      ELSE IF stream < conn THEN stream ELSE conn

\* trySend without an error or credit: wait for either limit to grow.
awaitCredit(c, id) ==
  [c EXCEPT !.streams[id].writeSignal = TRUE, !.sendSignal = @ \cup {id}]

\* The writer of the stream is asleep in waitSendCredit: neither of the two
\* channels it waits for has been closed.
writerAsleep(c, id) == c.streams[id].writeSignal /\ id \in c.sendSignal

\* reserve: how much of n bytes it takes credit for, and what it leaves.
reserved(c, id, n) ==
  LET k == sendCreditLocked(c, id)
      m == IF n < MaxChunk THEN n ELSE MaxChunk
  IN  IF k < m THEN k ELSE m
reserve(c, id, n) ==
  [c EXCEPT !.streams[id].sendOffset = @ + reserved(c, id, n),
            !.sent = @ + reserved(c, id, n)]

\* finish: the sending side has ended.  (When it already had, nothing is sent.)
finish(e, c, id) ==
  completeLocked(e, [c EXCEPT !.streams[id] =
                       [@ EXCEPT !.finSent = TRUE, !.writeSignal = FALSE]], id)

\* takeControl: the queue, and the limits kept as flags, in the order sent.
taken(c) ==
  LET maxStreams(dir) == IF c.in[dir].pending
        THEN <<[type |-> "MAX_STREAMS", dir |-> dir, max |-> c.in[dir].max]>>
        ELSE <<>>
  IN  c.control
        \o (IF c.maxDataPending THEN <<[type |-> "MAX_DATA", max |-> c.recvMax]>> ELSE <<>>)
        \o maxStreams("bidi") \o maxStreams("uni")
takeControl(c) ==
  [c EXCEPT !.control = <<>>, !.maxDataPending = FALSE,
            !.in = [dir \in Dirs |-> [@[dir] EXCEPT !.pending = FALSE]]]

\* terminate: everything that waits on the connection wakes up.
terminate(c, err) ==
  [c EXCEPT !.closeErr = err, !.sendSignal = {},
            !.out = [dir \in Dirs |-> [@[dir] EXCEPT !.signal = FALSE]],
            !.in = [dir \in Dirs |-> [@[dir] EXCEPT !.signal = FALSE]],
            !.streams = [id \in StreamIDs |->
               IF @[id].done THEN @[id]
               ELSE [@[id] EXCEPT !.readSignal = FALSE, !.writeSignal = FALSE]]]
=============================================================================
