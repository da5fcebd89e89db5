----------------------------- MODULE ConnProofs -----------------------------
(***************************************************************************)
(* What every operation of Conn preserves, for any streams, windows and    *)
(* limits: the state stays well formed, no limit is overrun, and whatever  *)
(* waits to be sent has the write loop's attention.  One lemma for each    *)
(* operation; EndpointProofs puts them together.                           *)
(***************************************************************************)
EXTENDS Conn, SequenceTheorems, TLAPS

\* A stream within its limits, in both directions.
StreamOK(e, s) ==
  /\ s \in Stream
  /\ s.readOffset + s.unread <= s.recvOffset
  /\ s.recvOffset <= s.recvMax
  /\ s.recvMax <= s.readOffset + StreamWindow[e]
  /\ s.sendOffset <= s.sendMax

\* Something waits for the write loop.
Waiting(d) == d.control # <<>> \/ d.maxDataPending \/ \E dir \in Dirs : d.in[dir].pending

\* A connection within its limits; x says that the write loop is on its way.
Sound(e, d, x) ==
  /\ d \in ConnState
  /\ \A id \in StreamIDs : StreamOK(e, d.streams[id])
  /\ d.received <= d.recvMax
  /\ d.recvMax <= d.consumed + ConnWindow[e]
  /\ d.sent <= d.sendMax
  /\ ~d.ready => d.sent = 0
  /\ running(d) /\ Waiting(d) => d.controlWake \/ x
-----------------------------------------------------------------------------
\* A stream is of one of the two direction kinds.
LEMMA DirType == ASSUME NEW id PROVE streamDir(id) \in Dirs
BY DEF streamDir, Dirs

\* The configured windows are numbers.
LEMMA WindowType ==
  ASSUME NEW e \in Endpoints
  PROVE  StreamWindow[e] \in Nat /\ ConnWindow[e] \in Nat
BY ConnAssumption

\* What readLocked and consumeLocked compare with is at most the window.
LEMMA HalfWindow ==
  ASSUME NEW w \in Nat
  PROVE  w \div 2 \in Nat /\ w \div 2 <= w
OBVIOUS

\* newStreamLocked starts a stream within its limits.
LEMMA NewStreamOK ==
  ASSUME NEW e \in Endpoints, NEW id \in StreamIDs
  PROVE  StreamOK(e, newStream(e, id))
<1>1. StreamLimit[Peer(e)][sendKind(e, id)] \in Nat
  BY ConnAssumption DEF sendKind, Kinds, Peer, Endpoints
<1> QED
  BY <1>1, ConnAssumption DEF StreamOK, newStream, Stream, Endpoints, None

\* Updates of one stream that keep it within its limits.
\* completeLocked drops what nobody read.
LEMMA EndedOK ==
  ASSUME NEW e \in Endpoints, NEW s, StreamOK(e, s)
  PROVE  StreamOK(e, [s EXCEPT !.done = TRUE, !.unread = 0])
<1> DEFINE t == [s EXCEPT !.done = TRUE, !.unread = 0]
<1>1. t \in Stream
  BY Zenon DEF StreamOK, Stream
<1>2. t.readOffset + t.unread <= t.recvOffset
  BY DEF StreamOK, Stream
<1> QED
  BY <1>1, <1>2 DEF StreamOK, Stream

\* handleStreamLocked counts data that fits the limit.
LEMMA ReceivedOK ==
  ASSUME NEW e \in Endpoints, NEW s, StreamOK(e, s), NEW fin \in BOOLEAN,
         NEW n \in Nat, s.recvOffset + n <= s.recvMax
  PROVE  StreamOK(e, [s EXCEPT !.recvOffset = @ + n, !.finRecv = fin,
                               !.unread = IF s.readCancelled THEN @ ELSE @ + n,
                               !.readSignal = FALSE])
<1> DEFINE t == [s EXCEPT !.recvOffset = @ + n, !.finRecv = fin,
                          !.unread = IF s.readCancelled THEN @ ELSE @ + n,
                          !.readSignal = FALSE]
<1>1. s.recvOffset + n \in Nat /\ s.unread + n \in Nat
  BY DEF StreamOK, Stream
<1>2. t \in Stream
  BY <1>1, Zenon DEF StreamOK, Stream
<1>3. t.readOffset + t.unread <= t.recvOffset
  BY DEF StreamOK, Stream
<1> QED
  BY <1>2, <1>3 DEF StreamOK, Stream

\* handleResetStreamLocked moves to a final size that fits the limit.
LEMMA ResetOK ==
  ASSUME NEW e \in Endpoints, NEW s, StreamOK(e, s),
         NEW n \in Nat, s.recvOffset <= n, n <= s.recvMax
  PROVE  StreamOK(e, [s EXCEPT !.recvOffset = n, !.recvReset = TRUE, !.unread = 0,
                               !.recvErr = IF @ = None THEN "remote" ELSE @,
                               !.readSignal = FALSE])
<1> DEFINE t == [s EXCEPT !.recvOffset = n, !.recvReset = TRUE, !.unread = 0,
                          !.recvErr = IF @ = None THEN "remote" ELSE @,
                          !.readSignal = FALSE]
<1>1. t \in Stream
  BY Zenon DEF StreamOK, Stream
<1>2. t.readOffset + t.unread <= t.recvOffset
  BY DEF StreamOK, Stream
<1> QED
  BY <1>1, <1>2 DEF StreamOK, Stream

\* cancelRead discards the buffer.
LEMMA CancelledOK ==
  ASSUME NEW e \in Endpoints, NEW s, StreamOK(e, s)
  PROVE  StreamOK(e, [s EXCEPT !.readCancelled = TRUE, !.recvErr = "local",
                               !.unread = 0, !.readSignal = FALSE])
<1> DEFINE t == [s EXCEPT !.readCancelled = TRUE, !.recvErr = "local",
                          !.unread = 0, !.readSignal = FALSE]
<1>1. t \in Stream
  BY Zenon DEF StreamOK, Stream
<1>2. t.readOffset + t.unread <= t.recvOffset
  BY DEF StreamOK, Stream
<1> QED
  BY <1>1, <1>2 DEF StreamOK, Stream

\* resetSendLocked records why the stream stopped.
LEMMA StoppedOK ==
  ASSUME NEW e \in Endpoints, NEW s, StreamOK(e, s),
         NEW reason \in {None, "local", "remote"}
  PROVE  StreamOK(e, [s EXCEPT !.sendErr = reason, !.writeSignal = FALSE])
BY Zenon DEF StreamOK, Stream

\* tryAccept and tryOpen give the stream to the application.
LEMMA AcceptedOK ==
  ASSUME NEW e \in Endpoints, NEW s, StreamOK(e, s)
  PROVE  StreamOK(e, [s EXCEPT !.accepted = TRUE])
BY Zenon DEF StreamOK, Stream

\* terminate wakes whoever waits on the stream.
LEMMA QuietOK ==
  ASSUME NEW e \in Endpoints, NEW s, StreamOK(e, s)
  PROVE  StreamOK(e, [s EXCEPT !.readSignal = FALSE, !.writeSignal = FALSE])
BY Zenon DEF StreamOK, Stream

\* finish marks the sending side as ended.
LEMMA FinishedOK ==
  ASSUME NEW e \in Endpoints, NEW s, StreamOK(e, s)
  PROVE  StreamOK(e, [s EXCEPT !.finSent = TRUE, !.writeSignal = FALSE])
BY Zenon DEF StreamOK, Stream

\* MAX_STREAM_DATA raises the limit.
LEMMA CreditedOK ==
  ASSUME NEW e \in Endpoints, NEW s, StreamOK(e, s), NEW m \in Nat, m > s.sendMax
  PROVE  StreamOK(e, [s EXCEPT !.sendMax = m, !.writeSignal = FALSE])
<1> DEFINE t == [s EXCEPT !.sendMax = m, !.writeSignal = FALSE]
<1>1. t \in Stream
  BY Zenon DEF StreamOK, Stream
<1>2. t.sendOffset <= t.sendMax
  BY DEF StreamOK, Stream
<1> QED
  BY <1>1, <1>2 DEF StreamOK, Stream
-----------------------------------------------------------------------------
\* Helpers of the connection.
\* Replacing one stream by another within its limits.
LEMMA PutStream ==
  ASSUME NEW e \in Endpoints, NEW x \in BOOLEAN, NEW d, Sound(e, d, x),
         NEW id \in StreamIDs, NEW t, StreamOK(e, t)
  PROVE  Sound(e, [d EXCEPT !.streams[id] = t], x)
BY Zenon DEF Sound, ConnState, StreamOK, Waiting, running

\* Replacing the state of the streams the peer opens, and waking the write loop.
LEMMA PutIncoming ==
  ASSUME NEW e \in Endpoints, NEW x \in BOOLEAN, NEW d, Sound(e, d, x),
         NEW dir \in Dirs, NEW in \in incoming
  PROVE  Sound(e, [d EXCEPT !.in[dir] = in, !.controlWake = TRUE], x)
BY Zenon DEF Sound, ConnState, Waiting, running

\* queueLocked wakes the write loop for what it queues.
LEMMA QueueOK ==
  ASSUME NEW e \in Endpoints, NEW x \in BOOLEAN, NEW d, Sound(e, d, x),
         NEW f \in Frame
  PROVE  Sound(e, queueLocked(d, f), x)
<1>1. Append(d.control, f) \in Seq(Frame)
  BY DEF Sound, ConnState
<1> QED
  BY <1>1, Zenon DEF Sound, ConnState, Waiting, running, queueLocked

\* An error from handleFrameLocked changes no counter.
LEMMA FailOK ==
  ASSUME NEW e \in Endpoints, NEW x \in BOOLEAN, NEW d, Sound(e, d, x),
         NEW err \in Errors
  PROVE  Sound(e, fail(d, err), x)
BY DEF Sound, ConnState, Waiting, running, fail

\* completeLocked raises the stream limit and wakes the write loop.
LEMMA CompleteOK ==
  ASSUME NEW e \in Endpoints, NEW x \in BOOLEAN, NEW d, Sound(e, d, x),
         NEW id \in StreamIDs
  PROVE  Sound(e, completeLocked(e, d, id), x)
<1> DEFINE t == [d.streams[id] EXCEPT !.done = TRUE, !.unread = 0]
           f == [d EXCEPT !.streams[id] = t]
           dir == streamDir(id)
           in == [d.in[dir] EXCEPT !.max = @ + 1, !.pending = TRUE]
           g == [f EXCEPT !.in[dir] = in, !.controlWake = TRUE]
<1>1. StreamOK(e, t)
  BY EndedOK, Zenon DEF Sound
<1>2. Sound(e, f, x)
  BY <1>1, PutStream
<1>3. dir \in Dirs /\ d.in[dir] \in incoming
  BY DirType DEF Sound, ConnState
<1>4. d.in[dir].max + 1 \in Nat
  BY <1>3 DEF incoming
<1>5. in \in incoming
  BY <1>3, <1>4, Zenon DEF incoming
<1>6. Sound(e, g, x)
  BY <1>2, <1>3, <1>5, PutIncoming, Zenon
<1>7. completeLocked(e, d, id) \in {d, f, g}
  BY DEF completeLocked
<1> HIDE DEF f, g
<1> QED
  BY <1>2, <1>6, <1>7

\* consumeLocked extends the limit to a window past what is consumed, and no less than it was.
LEMMA ConsumeOK ==
  ASSUME NEW e \in Endpoints, NEW x \in BOOLEAN, NEW d, Sound(e, d, x),
         NEW n \in Nat
  PROVE  /\ Sound(e, consumeLocked(e, d, n), x)
         /\ consumeLocked(e, d, n).streams = d.streams
<1> DEFINE consumed == d.consumed + n
           extend == d.recvMax - consumed < ConnWindow[e] \div 2
           max == IF extend THEN consumed + ConnWindow[e] ELSE d.recvMax
           c == consumeLocked(e, d, n)
<1>1. d \in ConnState
  BY DEF Sound
<1>2. /\ d.consumed \in Nat /\ d.recvMax \in Nat /\ d.received \in Nat
      /\ ConnWindow[e] \in Nat
  BY <1>1, WindowType DEF ConnState
<1>3. /\ consumed \in Nat /\ max \in Nat /\ extend \in BOOLEAN
      /\ d.recvMax <= max /\ max <= consumed + ConnWindow[e]
  BY <1>2, HalfWindow DEF Sound
<1>4. c = [d EXCEPT !.consumed = consumed, !.recvMax = max,
                    !.maxDataPending = @ \/ extend, !.controlWake = @ \/ extend]
  BY DEF consumeLocked
<1> HIDE DEF consumed, extend, max
<1>5. c \in ConnState
  BY <1>1, <1>3, <1>4, ZenonT(30) DEF ConnState
<1>6. /\ c.recvMax = max /\ c.consumed = consumed /\ c.received = d.received
      /\ c.streams = d.streams /\ c.sent = d.sent /\ c.sendMax = d.sendMax
      /\ c.ready = d.ready /\ c.closeErr = d.closeErr
      /\ c.control = d.control /\ c.in = d.in
      /\ c.maxDataPending = (d.maxDataPending \/ extend)
      /\ c.controlWake = (d.controlWake \/ extend)
  BY <1>1, <1>4 DEF ConnState
<1> HIDE DEF c
<1>7. running(c) /\ Waiting(c) => c.controlWake \/ x
  BY <1>6, Zenon DEF Waiting, running, Sound
<1>8. c.received <= c.recvMax
  BY <1>2, <1>3, <1>6 DEF Sound
<1>9. Sound(e, c, x)
  BY <1>3, <1>5, <1>6, <1>7, <1>8 DEF Sound
<1> QED
  BY <1>6, <1>9 DEF c

\* readLocked: the bytes read were received, and the limit moves with them.
LEMMA ReadOK ==
  ASSUME NEW e \in Endpoints, NEW x \in BOOLEAN, NEW d, Sound(e, d, x),
         NEW id \in StreamIDs, NEW n \in Nat,
         d.streams[id].readOffset + n + d.streams[id].unread <= d.streams[id].recvOffset
  PROVE  Sound(e, readLocked(e, d, id, n), x)
<1> DEFINE s == d.streams[id]
           offset == s.readOffset + n
           limit == offset + StreamWindow[e]
           c == consumeLocked(e, d, n)
           r == [s EXCEPT !.readOffset = offset]
           t == [r EXCEPT !.recvMax = limit]
           f == [type |-> "MAX_STREAM_DATA", id |-> id, max |-> limit]
           extend == s.recvMax - offset < StreamWindow[e] \div 2
<1>1. StreamOK(e, s) /\ StreamWindow[e] \in Nat
  BY WindowType DEF Sound
<1>2. offset \in Nat /\ limit \in Nat
  BY <1>1 DEF StreamOK, Stream
<1>3. StreamOK(e, r)
  <2>1. r \in Stream
    BY <1>1, <1>2 DEF StreamOK, Stream
  <2>2. r.readOffset + r.unread <= r.recvOffset /\ r.recvMax <= r.readOffset + StreamWindow[e]
    BY <1>1 DEF StreamOK, Stream
  <2> QED
    BY <1>1, <2>1, <2>2 DEF StreamOK, Stream
<1>4. ASSUME extend PROVE StreamOK(e, t)
  <2>1. t \in Stream
    BY <1>2, <1>3, Zenon DEF StreamOK, Stream
  <2>2. s.recvMax <= limit
    BY <1>1, <1>2, <1>4, HalfWindow DEF StreamOK, Stream
  <2>3. t.recvOffset <= t.recvMax /\ t.recvMax <= t.readOffset + StreamWindow[e]
    BY <1>1, <1>2, <2>2 DEF StreamOK, Stream
  <2> QED
    BY <1>3, <2>1, <2>3 DEF StreamOK, Stream
<1>5. Sound(e, c, x) /\ c.streams = d.streams
  BY ConsumeOK
<1>6. f \in Frame
  BY <1>2 DEF Frame
<1>7. /\ [c EXCEPT !.streams[id].readOffset = offset] = [c EXCEPT !.streams[id] = r]
      /\ [[c EXCEPT !.streams[id] = r] EXCEPT !.streams[id].recvMax = limit]
           = [c EXCEPT !.streams[id] = t]
  <2> HIDE DEF c, offset, limit
  <2> QED
    BY <1>5, Zenon DEF Sound, ConnState
<1>8. Sound(e, [c EXCEPT !.streams[id] = r], x)
  BY <1>3, <1>5, PutStream
<1>9. ASSUME extend PROVE Sound(e, queueLocked([c EXCEPT !.streams[id] = t], f), x)
  BY <1>4, <1>5, <1>6, <1>9, PutStream, QueueOK, Zenon
<1> QED
  BY <1>7, <1>8, <1>9, Zenon DEF readLocked

\* resetSendLocked queues the RESET_STREAM with the final size.
LEMMA ResetSendOK ==
  ASSUME NEW e \in Endpoints, NEW x \in BOOLEAN, NEW d, Sound(e, d, x),
         NEW id \in StreamIDs, NEW reason \in {None, "local", "remote"}
  PROVE  Sound(e, resetSendLocked(e, d, id, reason), x)
<1> DEFINE t == [d.streams[id] EXCEPT !.sendErr = reason, !.writeSignal = FALSE]
           c == [d EXCEPT !.streams[id] = t]
           f == [type |-> "RESET_STREAM", id |-> id, final |-> d.streams[id].sendOffset]
<1>1. Sound(e, c, x)
  <2>1. StreamOK(e, d.streams[id])
    BY DEF Sound
  <2>2. StreamOK(e, t)
    BY <2>1, StoppedOK, Zenon
  <2> HIDE DEF t
  <2> QED
    BY <2>2, PutStream, Zenon
<1>2. f \in Frame
  BY DEF Sound, StreamOK, Stream, Frame
<1>3. Sound(e, completeLocked(e, queueLocked(c, f), id), x)
  BY <1>1, <1>2, QueueOK, CompleteOK
<1> QED
  BY <1>3 DEF resetSendLocked
-----------------------------------------------------------------------------
\* Identifiers.  The streams a peer opens below id are streams of the model.
LEMMA IDParts ==
  ASSUME NEW id \in Nat
  PROVE  /\ id = 4 * (id \div 4) + (id % 4)
         /\ id \div 4 \in Nat
         /\ id % 4 = (IF (id \div 2) % 2 = 1 THEN 2 ELSE 0) + (id % 2)
         /\ id % 2 \in {0, 1}
OBVIOUS

\* A stream of the peer below one of the model is one of the model.
LEMMA PeerStream ==
  ASSUME NEW e \in Endpoints, NEW id \in StreamIDs, ~initiatedLocally(e, id),
         NEW i \in Nat, i <= index(id)
  PROVE  streamID(e, i, streamDir(id), FALSE) \in StreamIDs
<1> DEFINE k == index(id) - i
<1>1. id \in Nat
  BY ConnAssumption
<1>2. k \in 0 .. id \div 4
  BY <1>1, IDParts DEF index
<1>3. id - 4 * k \in StreamIDs
  BY <1>2, ConnAssumption, Zenon
<1>4. id % 2 = (IF e = "server" THEN 0 ELSE 1)
  BY <1>1, IDParts DEF initiatedLocally
<1>5. streamID(e, i, streamDir(id), FALSE) = 4 * i + (id % 4)
  BY <1>1, <1>4, IDParts DEF streamID, streamDir, Endpoints
<1>6. id - 4 * k = 4 * i + (id % 4)
  BY <1>1, IDParts DEF index
<1> QED
  BY <1>3, <1>5, <1>6, Zenon

\* A function on 1 .. n is a sequence.
LEMMA FunctionIsSeq ==
  ASSUME NEW S, NEW n \in Nat, NEW f \in [1 .. n -> S]
  PROVE  f \in Seq(S)
BY SeqDef

\* The state of the peer's streams once more of them are opened.
LEMMA OpenedIncoming ==
  ASSUME NEW in \in incoming, NEW n \in Nat, NEW q \in Seq(StreamIDs)
  PROVE  [in EXCEPT !.next = n + 1, !.queue = q, !.signal = FALSE] \in incoming
<1>1. n + 1 \in Nat
  OBVIOUS
<1> QED
  BY <1>1, Zenon DEF incoming

\* streamLocked opens streams that start within their limits.
LEMMA OpenUpToOK ==
  ASSUME NEW e \in Endpoints, NEW x \in BOOLEAN, NEW d, Sound(e, d, x),
         NEW id \in StreamIDs
  PROVE  Sound(e, openUpTo(e, d, id), x)
<1> DEFINE dir == streamDir(id)
           old == d.in[dir]
           new == [k \in 1 .. index(id) + 1 - old.next |->
                     streamID(e, old.next + k - 1, dir, FALSE)]
           in == [old EXCEPT !.next = index(id) + 1, !.queue = old.queue \o new,
                             !.signal = FALSE]
           ss == [j \in StreamIDs |->
                    IF \E k \in DOMAIN new : new[k] = j THEN newStream(e, j)
                    ELSE d.streams[j]]
           c == [d EXCEPT !.in[dir] = in, !.streams = ss]
<1>1. openUpTo(e, d, id) = d \/ openUpTo(e, d, id) = c
  BY DEF openUpTo
<1> SUFFICES ASSUME ~initiatedLocally(e, id), ~(index(id) < old.next)
             PROVE  Sound(e, c, x)
  BY <1>1 DEF openUpTo
<1>2. d \in ConnState /\ dir \in Dirs /\ old \in incoming
  BY DirType DEF Sound, ConnState
<1>3. index(id) \in Nat /\ old.next \in Nat /\ index(id) + 1 - old.next \in Nat
  BY <1>2, ConnAssumption, IDParts, SMTT(30) DEF index, incoming
<1>4. new \in Seq(StreamIDs)
  <2>1. ASSUME NEW k \in 1 .. index(id) + 1 - old.next
        PROVE  streamID(e, old.next + k - 1, dir, FALSE) \in StreamIDs
    <3>1. old.next + k - 1 \in Nat /\ old.next + k - 1 <= index(id)
      BY <1>3
    <3> QED
      BY <3>1, PeerStream, Zenon
  <2>2. new \in [1 .. index(id) + 1 - old.next -> StreamIDs]
    BY <2>1, Zenon
  <2> QED
    BY <1>3, <2>2, FunctionIsSeq, Zenon
<1>5. old.queue \o new \in Seq(StreamIDs)
  <2> HIDE DEF new
  <2> QED
    BY <1>2, <1>4, ConcatProperties DEF incoming
<1>6. in \in incoming
  <2> HIDE DEF new
  <2> QED
    BY <1>2, <1>3, <1>5, OpenedIncoming, Zenon
<1>7. \A j \in StreamIDs : StreamOK(e, ss[j])
  BY NewStreamOK, Zenon DEF Sound
<1>8. ss \in [StreamIDs -> Stream]
  BY <1>7, Zenon DEF StreamOK
<1>9. in.pending = old.pending
  BY <1>2 DEF incoming
<1> HIDE DEF in, ss, dir
<1> QED
  BY <1>2, <1>6, <1>7, <1>8, <1>9, Zenon DEF Sound, ConnState, Waiting, running
-----------------------------------------------------------------------------
\* Frames from the peer.
\* receivedLocked counts what fits the connection's limit.
LEMMA ChargedOK ==
  ASSUME NEW e \in Endpoints, NEW x \in BOOLEAN, NEW d, Sound(e, d, x),
         NEW n \in Nat, d.received + n <= d.recvMax
  PROVE  Sound(e, [d EXCEPT !.received = @ + n], x)
<1> DEFINE c == [d EXCEPT !.received = @ + n]
<1>1. d.received + n \in Nat
  BY DEF Sound, ConnState
<1>2. c \in ConnState /\ c.received = d.received + n /\ c.recvMax = d.recvMax
  BY <1>1, Zenon DEF Sound, ConnState
<1> QED
  BY <1>2, Zenon DEF Sound, ConnState, Waiting, running

\* handleStreamLocked.
LEMMA StreamDataOK ==
  ASSUME NEW e \in Endpoints, NEW x \in BOOLEAN, NEW d, Sound(e, d, x),
         NEW f, f.id \in StreamIDs, f.len \in Nat, f.fin \in BOOLEAN
  PROVE  Sound(e, streamData(e, d, f), x)
<1> DEFINE s == d.streams[f.id]
           t == [s EXCEPT !.recvOffset = @ + f.len, !.finRecv = f.fin,
                          !.unread = IF s.readCancelled THEN @ ELSE @ + f.len,
                          !.readSignal = FALSE]
           c == [d EXCEPT !.received = @ + f.len]
           g == [c EXCEPT !.streams[f.id] = t]
           h == IF s.readCancelled THEN consumeLocked(e, g, f.len) ELSE g
<1>1. CASE streamDataError(d, f) # None
  <2>1. streamDataError(d, f) \in Errors
    BY <1>1 DEF streamDataError, Errors
  <2> QED
    BY <1>1, <2>1, FailOK DEF streamData
<1>2. CASE s.finRecv \/ s.recvReset
  BY <1>1, <1>2 DEF streamData
<1>3. CASE streamDataError(d, f) = None /\ ~(s.finRecv \/ s.recvReset)
  <2>1. StreamOK(e, s) /\ d \in ConnState
    BY DEF Sound
  <2>2. s.recvOffset + f.len <= s.recvMax /\ d.received + f.len <= d.recvMax
    <3>1. /\ s.recvOffset \in Nat /\ s.recvMax \in Nat
          /\ d.received \in Nat /\ d.recvMax \in Nat
      BY <2>1 DEF StreamOK, Stream, ConnState
    <3>2. f.off = s.recvOffset
      BY <1>3 DEF streamDataError, None
    <3>3. ~(s.recvOffset + f.len > s.recvMax \/ d.received + f.len > d.recvMax)
      BY <1>3, <3>2, SMTT(30) DEF streamDataError, None
    <3> QED
      BY <3>1, <3>3
  <2>3. StreamOK(e, t) /\ Sound(e, c, x)
    BY <2>1, <2>2, ReceivedOK, ChargedOK, Zenon
  <2>4. Sound(e, g, x)
    BY <2>3, PutStream, Zenon
  <2>5. Sound(e, h, x)
    <3> HIDE DEF g
    <3> QED
      BY <2>4, ConsumeOK
  <2>6. streamData(e, d, f) = completeLocked(e, h, f.id)
    BY <1>3 DEF streamData
  <2> QED
    BY <2>5, <2>6, CompleteOK
<1> QED
  BY <1>1, <1>2, <1>3

\* handleResetStreamLocked.
LEMMA StreamResetOK ==
  ASSUME NEW e \in Endpoints, NEW x \in BOOLEAN, NEW d, Sound(e, d, x),
         NEW f, f.id \in StreamIDs, f.final \in Nat
  PROVE  Sound(e, streamReset(e, d, f), x)
<1> DEFINE s == d.streams[f.id]
           skipped == f.final - s.recvOffset
           t == [s EXCEPT !.recvOffset = f.final, !.recvReset = TRUE, !.unread = 0,
                          !.recvErr = IF @ = None THEN "remote" ELSE @,
                          !.readSignal = FALSE]
           c == [d EXCEPT !.received = @ + skipped]
           g == consumeLocked(e, c, skipped + s.unread)
           h == [g EXCEPT !.streams[f.id] = t]
<1>1. CASE streamResetError(d, f) # None
  <2>1. streamResetError(d, f) \in Errors
    BY <1>1 DEF streamResetError, Errors
  <2> QED
    BY <1>1, <2>1, FailOK DEF streamReset
<1>2. CASE s.recvReset
  BY <1>1, <1>2 DEF streamReset
<1>3. CASE streamResetError(d, f) = None /\ ~s.recvReset
  <2>1. StreamOK(e, s) /\ d \in ConnState
    BY DEF Sound
  <2>2. /\ s.recvOffset \in Nat /\ s.unread \in Nat /\ s.recvMax \in Nat
        /\ d.received \in Nat /\ d.recvMax \in Nat
    BY <2>1 DEF StreamOK, Stream, ConnState
  <2>3. ~(skipped < 0) /\ ~(f.final > s.recvMax) /\ ~(d.received + skipped > d.recvMax)
    BY <1>3 DEF streamResetError, None
  <2>4. /\ skipped \in Nat /\ skipped + s.unread \in Nat
        /\ s.recvOffset <= f.final /\ f.final <= s.recvMax
        /\ d.received + skipped <= d.recvMax
    BY <2>2, <2>3, SMTT(30)
  <2>5. StreamOK(e, t)
    BY <2>1, <2>4, ResetOK, Zenon
  <2>6. Sound(e, g, x)
    BY <2>4, ChargedOK, ConsumeOK, SMTT(30)
  <2>7. Sound(e, h, x)
    <3> HIDE DEF g, t
    <3> QED
      BY <2>5, <2>6, PutStream, Zenon
  <2>8. streamReset(e, d, f) = completeLocked(e, h, f.id)
    BY <1>3 DEF streamReset
  <2> QED
    BY <2>7, <2>8, CompleteOK, Zenon
<1> QED
  BY <1>1, <1>2, <1>3

\* MAX_STREAM_DATA.
LEMMA MaxStreamDataOK ==
  ASSUME NEW e \in Endpoints, NEW x \in BOOLEAN, NEW d, Sound(e, d, x),
         NEW f, f.id \in StreamIDs, f.max \in Nat
  PROVE  Sound(e, maxStreamData(d, f), x)
<1>1. StreamOK(e, d.streams[f.id])
  BY SMTT(30) DEF Sound
<1> QED
  BY <1>1, CreditedOK, PutStream, Zenon DEF maxStreamData

\* handleParametersLocked: nothing was sent before, so no limit is cut.
LEMMA ParametersOK ==
  ASSUME NEW e \in Endpoints, NEW x \in BOOLEAN, NEW d, Sound(e, d, x), ~d.ready
  PROVE  Sound(e, handleParametersLocked(e, d), x)
<1> DEFINE c == handleParametersLocked(e, d)
<1>1. /\ Peer(e) \in Endpoints /\ ConnWindow[Peer(e)] \in Nat
      /\ MaxIncoming[Peer(e)] \in [Dirs -> Nat]
  BY ConnAssumption DEF Peer, Endpoints
<1>2. \A dir \in Dirs : [d.out[dir] EXCEPT !.max = MaxIncoming[Peer(e)][dir],
                                            !.signal = FALSE] \in outgoing
  BY <1>1, Zenon DEF Sound, ConnState, outgoing
<1>3. c \in ConnState
  BY <1>1, <1>2, Zenon DEF Sound, ConnState, handleParametersLocked
<1>4. c.sent <= c.sendMax
  BY <1>1 DEF Sound, ConnState, handleParametersLocked
<1> QED
  BY <1>3, <1>4, Zenon DEF Sound, ConnState, Waiting, running, handleParametersLocked

\* The two limits of the connection that the peer raises.
LEMMA RaisedOK ==
  ASSUME NEW e \in Endpoints, NEW x \in BOOLEAN, NEW d, Sound(e, d, x),
         NEW m \in Nat, m > d.sendMax
  PROVE  Sound(e, [d EXCEPT !.sendMax = m, !.sendSignal = {}], x)
<1> DEFINE c == [d EXCEPT !.sendMax = m, !.sendSignal = {}]
<1>1. c \in ConnState
  BY Zenon DEF Sound, ConnState
<1>2. c.sent <= c.sendMax
  BY DEF Sound, ConnState
<1> QED
  BY <1>1, <1>2 DEF Sound, ConnState, Waiting, running

\* Replacing the state of the streams this endpoint opens.
LEMMA PutOutgoing ==
  ASSUME NEW e \in Endpoints, NEW x \in BOOLEAN, NEW d, Sound(e, d, x),
         NEW dir \in Dirs, NEW out \in outgoing
  PROVE  Sound(e, [d EXCEPT !.out[dir] = out], x)
BY SMTT(30) DEF Sound, ConnState, Waiting, running

\* handleRecord, for any frame.
LEMMA FrameOK ==
  ASSUME NEW e \in Endpoints, NEW x \in BOOLEAN, NEW d, Sound(e, d, x),
         NEW f \in Frame
  PROVE  Sound(e, handleFrame(e, d, f), x)
<1>1. /\ f.type = "STREAM" => f.id \in StreamIDs /\ f.len \in Nat /\ f.fin \in BOOLEAN
      /\ f.type = "RESET_STREAM" => f.id \in StreamIDs /\ f.final \in Nat
      /\ f.type = "STOP_SENDING" => f.id \in StreamIDs
      /\ f.type = "MAX_STREAM_DATA" => f.id \in StreamIDs /\ f.max \in Nat
      /\ f.type = "MAX_DATA" => f.max \in Nat
      /\ f.type = "MAX_STREAMS" => f.dir \in Dirs /\ f.max \in Nat
      /\ f.type \in {"TRANSPORT_PARAMETERS", "BLOCKED", "STREAMS_BLOCKED", "STREAM",
                     "RESET_STREAM", "STOP_SENDING", "MAX_STREAM_DATA", "MAX_DATA",
                     "MAX_STREAMS", "CONNECTION_CLOSE"}
  BY DEF Frame
<1>2. ASSUME NEW err \in Errors PROVE Sound(e, fail(d, err), x)
  BY FailOK
<1>3. ASSUME NEW id \in StreamIDs, NEW recv \in BOOLEAN, streamError(e, d, id, recv) # None
      PROVE  streamError(e, d, id, recv) \in Errors
  BY <1>3 DEF streamError, Errors
<1>4. ASSUME NEW id \in StreamIDs PROVE Sound(e, openUpTo(e, d, id), x)
  BY OpenUpToOK
<1>5. CASE f.type = "TRANSPORT_PARAMETERS" /\ ~d.ready
  BY <1>5, ParametersOK DEF handleFrame, handleByType
<1>6. CASE f.type = "STREAM" /\ d.ready
  <2>1. Sound(e, streamData(e, openUpTo(e, d, f.id), f), x)
    BY <1>1, <1>4, <1>6, StreamDataOK
  <2> QED
    BY <1>1, <1>2, <1>3, <1>4, <1>6, <2>1, Zenon DEF handleFrame, handleByType, withStream
<1>7. CASE f.type = "RESET_STREAM" /\ d.ready
  <2>1. Sound(e, streamReset(e, openUpTo(e, d, f.id), f), x)
    BY <1>1, <1>4, <1>7, StreamResetOK
  <2> QED
    BY <1>1, <1>2, <1>3, <1>4, <1>7, <2>1, Zenon DEF handleFrame, handleByType, withStream
<1>8. CASE f.type = "STOP_SENDING" /\ d.ready
  <2>1. Sound(e, resetSendLocked(e, openUpTo(e, d, f.id), f.id, "remote"), x)
    BY <1>1, <1>4, <1>8, ResetSendOK
  <2> QED
    BY <1>1, <1>2, <1>3, <1>4, <1>8, <2>1, Zenon DEF handleFrame, handleByType, withStream
<1>9. CASE f.type = "MAX_STREAM_DATA" /\ d.ready
  <2>1. Sound(e, maxStreamData(openUpTo(e, d, f.id), f), x)
    BY <1>1, <1>4, <1>9, MaxStreamDataOK
  <2> QED
    BY <1>1, <1>2, <1>3, <1>4, <1>9, <2>1, Zenon DEF handleFrame, handleByType, withStream
<1>10. CASE f.type = "MAX_DATA" /\ d.ready
  BY <1>1, <1>10, RaisedOK, Zenon DEF handleFrame, handleByType
<1>11. CASE f.type = "MAX_STREAMS" /\ d.ready
  <2> DEFINE out == [d.out[f.dir] EXCEPT !.max = f.max, !.signal = FALSE]
  <2>1. out \in outgoing
    <3>1. f.max \in Nat /\ f.dir \in Dirs
      BY <1>1, <1>11
    <3>2. d.out[f.dir] \in outgoing
      BY <3>1 DEF Sound, ConnState
    <3> QED
      BY <3>1, <3>2, Zenon DEF outgoing
  <2>2. Sound(e, [d EXCEPT !.out[f.dir] = out], x)
    BY <1>1, <1>11, <2>1, PutOutgoing
  <2>3. Sound(e, fail(d, "FRAME_ENCODING_ERROR"), x)
    BY <1>2 DEF Errors
  <2>4. CASE f.max > MaxStreamCount
    BY <1>11, <2>3, <2>4 DEF handleFrame
  <2>5. CASE ~(f.max > MaxStreamCount)
    <3>1. handleFrame(e, d, f) = handleByType(e, d, f)
      BY <1>11, <2>5 DEF handleFrame
    <3>2. handleByType(e, d, f) = IF f.max > d.out[f.dir].max
                                  THEN [d EXCEPT !.out[f.dir] = out] ELSE d
      BY <1>11 DEF handleByType
    <3> HIDE DEF out
    <3> QED
      BY <2>2, <3>1, <3>2
  <2> QED
    BY <2>4, <2>5
<1>12. CASE f.type \in {"CONNECTION_CLOSE", "BLOCKED", "STREAMS_BLOCKED"} /\ d.ready
  BY <1>2, <1>12, Zenon DEF handleFrame, handleByType, Errors
<1>13. CASE (f.type = "TRANSPORT_PARAMETERS") <=> d.ready
  <2>1. "PROTOCOL_VIOLATION" \in Errors /\ "FRAME_ENCODING_ERROR" \in Errors
    BY DEF Errors
  <2> QED
    BY <1>2, <1>13, <2>1 DEF handleFrame
<1>14. d.ready \in BOOLEAN
  BY DEF Sound, ConnState
<1> QED
  BY <1>1, <1>5, <1>6, <1>7, <1>8, <1>9, <1>10, <1>11, <1>12, <1>13, <1>14
-----------------------------------------------------------------------------
\* The application, and the write loop.
\* tryOpen.
LEMMA OpenOK ==
  ASSUME NEW e \in Endpoints, NEW x \in BOOLEAN, NEW d, Sound(e, d, x),
         NEW dir \in Dirs, streamID(e, d.out[dir].next, dir, TRUE) \in StreamIDs
  PROVE  Sound(e, tryOpen(e, d, dir), x)
<1> DEFINE out == d.out[dir]
           id == streamID(e, out.next, dir, TRUE)
           t == [newStream(e, id) EXCEPT !.accepted = TRUE]
           o == [out EXCEPT !.next = @ + 1]
           w == [out EXCEPT !.signal = TRUE]
<1>1. d \in ConnState /\ out \in outgoing
  BY DEF Sound, ConnState
<1>2. out.next + 1 \in Nat
  BY <1>1 DEF outgoing
<1>3. o \in outgoing /\ w \in outgoing
  BY <1>1, <1>2, Zenon DEF outgoing
<1>4. StreamOK(e, t)
  <2>1. StreamOK(e, newStream(e, id))
    BY NewStreamOK, Zenon
  <2> QED
    BY <2>1, AcceptedOK, Zenon
<1>5. Sound(e, [d EXCEPT !.out[dir] = w], x)
  BY <1>3, PutOutgoing, Zenon
<1>6. Sound(e, [[d EXCEPT !.out[dir] = o] EXCEPT !.streams[id] = t], x)
  <2>1. Sound(e, [d EXCEPT !.out[dir] = o], x)
    BY <1>3, PutOutgoing
  <2> HIDE DEF t, o, id
  <2> QED
    BY <1>4, <2>1, PutStream, Zenon DEF id
<1> QED
  BY <1>5, <1>6 DEF tryOpen

\* Replacing the state of the peer's streams, the flag apart.
LEMMA KeepPending ==
  ASSUME NEW e \in Endpoints, NEW x \in BOOLEAN, NEW d, Sound(e, d, x),
         NEW dir \in Dirs, NEW in \in incoming, in.pending = d.in[dir].pending
  PROVE  Sound(e, [d EXCEPT !.in[dir] = in], x)
BY SMTT(30) DEF Sound, ConnState, Waiting, running

\* tryAccept.
LEMMA AcceptOK ==
  ASSUME NEW e \in Endpoints, NEW x \in BOOLEAN, NEW d, Sound(e, d, x),
         NEW dir \in Dirs
  PROVE  Sound(e, tryAccept(e, d, dir), x)
<1> DEFINE in == d.in[dir]
           id == Head(in.queue)
           w == [in EXCEPT !.signal = TRUE]
           i == [in EXCEPT !.queue = Tail(@)]
           t == [d.streams[id] EXCEPT !.accepted = TRUE]
           c == [d EXCEPT !.in[dir] = i]
           g == [c EXCEPT !.streams[id] = t]
<1>1. d \in ConnState /\ in \in incoming
  BY DEF Sound, ConnState
<1>2. w \in incoming /\ w.pending = in.pending
  BY <1>1, Zenon DEF incoming
<1>3. CASE in.queue = <<>>
  <2>1. tryAccept(e, d, dir) = [d EXCEPT !.in[dir] = w]
    BY <1>3 DEF tryAccept
  <2> HIDE DEF w
  <2> QED
    BY <1>1, <1>2, <2>1, KeepPending
<1>4. CASE in.queue # <<>>
  <2>1. id \in StreamIDs /\ Tail(in.queue) \in Seq(StreamIDs)
    BY <1>1, <1>4 DEF incoming
  <2>2. i \in incoming /\ i.pending = in.pending
    BY <1>1, <2>1, Zenon DEF incoming
  <2>3. StreamOK(e, t)
    BY <2>1, AcceptedOK, Zenon DEF Sound
  <2>4. Sound(e, c, x)
    BY <2>2, KeepPending, Zenon
  <2>5. Sound(e, g, x)
    <3> HIDE DEF c, t, id
    <3> QED
      BY <2>1, <2>3, <2>4, PutStream
  <2>6. tryAccept(e, d, dir) = completeLocked(e, g, id)
    BY <1>4 DEF tryAccept
  <2> QED
    BY <2>1, <2>5, <2>6, CompleteOK
<1> QED
  BY <1>3, <1>4

\* tryRead takes no more than the buffer holds.
LEMMA TryReadOK ==
  ASSUME NEW e \in Endpoints, NEW x \in BOOLEAN, NEW d, Sound(e, d, x),
         NEW id \in StreamIDs, NEW n \in Nat
  PROVE  Sound(e, tryRead(e, d, id, n), x)
<1> DEFINE s == d.streams[id]
           k == IF n < s.unread THEN n ELSE s.unread
           w == [s EXCEPT !.readSignal = TRUE]
           t == [s EXCEPT !.unread = @ - k]
           c == [d EXCEPT !.streams[id] = t]
<1>1. StreamOK(e, s)
  BY DEF Sound
<1>2. k \in Nat /\ s.unread \in Nat /\ k <= s.unread /\ s.unread - k \in Nat
  BY <1>1 DEF StreamOK, Stream
<1>3. StreamOK(e, w)
  BY <1>1, Zenon DEF StreamOK, Stream
<1>4. t \in Stream
  BY <1>1, <1>2 DEF StreamOK, Stream
<1>5. /\ t.unread = s.unread - k /\ t.readOffset = s.readOffset
      /\ t.recvOffset = s.recvOffset /\ t.recvMax = s.recvMax
      /\ t.sendOffset = s.sendOffset /\ t.sendMax = s.sendMax
  BY <1>1 DEF StreamOK, Stream
<1>6. StreamOK(e, t) /\ t.readOffset + k + t.unread <= t.recvOffset
  <2>1. s.readOffset \in Nat /\ s.recvOffset \in Nat
    BY <1>1 DEF StreamOK, Stream
  <2>2. t.readOffset + t.unread <= t.recvOffset /\ t.readOffset + k + t.unread <= t.recvOffset
    BY <1>1, <1>2, <1>5, <2>1 DEF StreamOK
  <2> HIDE DEF t
  <2> QED
    BY <1>1, <1>4, <1>5, <2>2 DEF StreamOK
<1>7. c.streams[id] = t
  BY DEF Sound, ConnState
<1>8. Sound(e, c, x) /\ Sound(e, [d EXCEPT !.streams[id] = w], x)
  BY <1>3, <1>6, PutStream, Zenon
<1>9. Sound(e, completeLocked(e, readLocked(e, c, id, k), id), x)
  <2> HIDE DEF c, t, k
  <2> QED
    BY <1>2, <1>6, <1>7, <1>8, ReadOK, CompleteOK
<1> QED
  BY <1>8, <1>9 DEF tryRead

\* tryPeek takes nothing.
LEMMA PeekOK ==
  ASSUME NEW e \in Endpoints, NEW x \in BOOLEAN, NEW d, Sound(e, d, x),
         NEW id \in StreamIDs, NEW n \in Nat
  PROVE  Sound(e, tryPeek(d, id, n), x)
<1> DEFINE w == [d.streams[id] EXCEPT !.readSignal = TRUE]
<1>1. StreamOK(e, w)
  BY Zenon DEF Sound, StreamOK, Stream
<1>2. Sound(e, [d EXCEPT !.streams[id] = w], x)
  BY <1>1, PutStream, Zenon
<1> QED
  BY <1>2 DEF tryPeek

\* setReadDeadline and setWriteDeadline.
LEMMA DeadlineOK ==
  ASSUME NEW e \in Endpoints, NEW x \in BOOLEAN, NEW d, Sound(e, d, x),
         NEW id \in StreamIDs
  PROVE  Sound(e, setReadDeadline(d, id), x) /\ Sound(e, setWriteDeadline(d, id), x)
<1> DEFINE r == [d.streams[id] EXCEPT !.readSignal = FALSE]
           w == [d.streams[id] EXCEPT !.writeSignal = FALSE]
<1>1. StreamOK(e, r) /\ StreamOK(e, w)
  BY Zenon DEF Sound, StreamOK, Stream
<1>2. Sound(e, [d EXCEPT !.streams[id] = r], x) /\ Sound(e, [d EXCEPT !.streams[id] = w], x)
  BY <1>1, PutStream, Zenon
<1> QED
  BY <1>2 DEF setReadDeadline, setWriteDeadline

\* cancelRead.
LEMMA CancelReadOK ==
  ASSUME NEW e \in Endpoints, NEW x \in BOOLEAN, NEW d, Sound(e, d, x),
         NEW id \in StreamIDs
  PROVE  Sound(e, cancelRead(e, d, id), x)
<1> DEFINE s == d.streams[id]
           t == [s EXCEPT !.readCancelled = TRUE, !.recvErr = "local", !.unread = 0,
                          !.readSignal = FALSE]
           c == consumeLocked(e, d, s.unread)
           g == [c EXCEPT !.streams[id] = t]
           f == [type |-> "STOP_SENDING", id |-> id]
           h == IF s.finRecv THEN g ELSE queueLocked(g, f)
<1>1. StreamOK(e, s) /\ s.unread \in Nat
  BY DEF Sound, StreamOK, Stream
<1>2. Sound(e, c, x) /\ StreamOK(e, t)
  BY <1>1, ConsumeOK, CancelledOK, Zenon
<1>3. Sound(e, g, x)
  <2> HIDE DEF c, t
  <2> QED
    BY <1>2, PutStream
<1>4. Sound(e, h, x)
  <2>1. f \in Frame
    BY DEF Frame
  <2> HIDE DEF g, f
  <2> QED
    BY <1>3, <2>1, QueueOK
<1>5. Sound(e, completeLocked(e, h, id), x)
  <2> HIDE DEF h
  <2> QED
    BY <1>4, CompleteOK
<1>6. cancelRead(e, d, id) = d \/ cancelRead(e, d, id) = completeLocked(e, h, id)
  BY DEF cancelRead
<1> HIDE DEF h
<1> QED
  BY <1>5, <1>6

\* trySend, without credit.
LEMMA AwaitCreditOK ==
  ASSUME NEW e \in Endpoints, NEW x \in BOOLEAN, NEW d, Sound(e, d, x),
         NEW id \in StreamIDs
  PROVE  Sound(e, awaitCredit(d, id), x)
<1> DEFINE w == [d.streams[id] EXCEPT !.writeSignal = TRUE]
           c == [d EXCEPT !.streams[id] = w]
<1>1. StreamOK(e, w)
  BY Zenon DEF Sound, StreamOK, Stream
<1>2. Sound(e, c, x)
  BY <1>1, PutStream, Zenon
<1>3. ASSUME NEW g, Sound(e, g, x)
      PROVE  Sound(e, [g EXCEPT !.sendSignal = @ \cup {id}], x)
  BY <1>3, Zenon DEF Sound, ConnState, Waiting, running
<1>4. awaitCredit(d, id) = [c EXCEPT !.sendSignal = @ \cup {id}]
  BY DEF awaitCredit
<1> HIDE DEF c
<1> QED
  BY <1>2, <1>3, <1>4

\* What reserve takes fits in both limits.
LEMMA ReservedFits ==
  ASSUME NEW e \in Endpoints, NEW x \in BOOLEAN, NEW d, Sound(e, d, x),
         NEW id \in StreamIDs, NEW n \in Nat
  PROVE  /\ reserved(d, id, n) \in Nat
         /\ d.streams[id].sendOffset + reserved(d, id, n) <= d.streams[id].sendMax
         /\ d.sent + reserved(d, id, n) <= d.sendMax
<1> DEFINE s == d.streams[id]
<1>1. /\ s.sendOffset \in Nat /\ s.sendMax \in Nat /\ s.sendOffset <= s.sendMax
      /\ d.sent \in Nat /\ d.sendMax \in Nat /\ d.sent <= d.sendMax
  BY DEF Sound, StreamOK, Stream, ConnState
<1>2. /\ sendCreditLocked(d, id) \in Nat
      /\ s.sendOffset + sendCreditLocked(d, id) <= s.sendMax
      /\ d.sent + sendCreditLocked(d, id) <= d.sendMax
  BY <1>1 DEF sendCreditLocked
<1>3. reserved(d, id, n) \in Nat /\ reserved(d, id, n) <= sendCreditLocked(d, id)
  BY <1>2, ConnAssumption DEF reserved
<1> QED
  BY <1>1, <1>2, <1>3

\* reserve.
LEMMA ReserveOK ==
  ASSUME NEW e \in Endpoints, NEW x \in BOOLEAN, NEW d, Sound(e, d, x), d.ready,
         NEW id \in StreamIDs, NEW n \in Nat
  PROVE  Sound(e, reserve(d, id, n), x)
<1> DEFINE s == d.streams[id]
           k == reserved(d, id, n)
           t == [s EXCEPT !.sendOffset = @ + k]
           c == [d EXCEPT !.streams[id] = t]
           g == [c EXCEPT !.sent = @ + k]
<1>1. k \in Nat /\ s.sendOffset + k <= s.sendMax /\ d.sent + k <= d.sendMax
  BY ReservedFits
<1>2. /\ StreamOK(e, s) /\ s.sendOffset + k \in Nat /\ d.sent + k \in Nat
  <2>1. StreamOK(e, s) /\ d.sent \in Nat
    BY DEF Sound, ConnState
  <2>2. s.sendOffset \in Nat
    BY <2>1 DEF StreamOK, Stream
  <2> QED
    BY <1>1, <2>1, <2>2
<1> HIDE DEF k
<1>3. t \in Stream /\ t.sendOffset <= t.sendMax
  BY <1>1, <1>2 DEF StreamOK, Stream
<1>4. StreamOK(e, t)
  BY <1>2, <1>3 DEF StreamOK, Stream
<1>5. Sound(e, c, x)
  BY <1>4, PutStream
<1>6. c.ready = d.ready /\ c.sent = d.sent /\ c.sendMax = d.sendMax
  BY Zenon DEF Sound, ConnState
<1>7. Sound(e, g, x)
  <2> HIDE DEF c
  <2>1. g \in ConnState /\ g.sent <= g.sendMax
    BY <1>1, <1>2, <1>5, <1>6, Zenon DEF Sound, ConnState
  <2> QED
    BY <1>5, <1>6, <2>1, Zenon DEF Sound, ConnState, Waiting, running
<1>8. reserve(d, id, n) = g
  BY DEF reserve, k
<1> QED
  BY <1>7, <1>8

\* finish.
LEMMA FinishOK ==
  ASSUME NEW e \in Endpoints, NEW x \in BOOLEAN, NEW d, Sound(e, d, x),
         NEW id \in StreamIDs
  PROVE  Sound(e, finish(e, d, id), x)
<1>1. StreamOK(e, d.streams[id])
  BY SMTT(30) DEF Sound
<1> QED
  BY <1>1, FinishedOK, PutStream, CompleteOK, Zenon DEF finish

\* Once the write loop has taken everything, nothing waits for it.
LEMMA TakeControlOK ==
  ASSUME NEW e \in Endpoints, NEW d, Sound(e, d, TRUE)
  PROVE  Sound(e, takeControl(d), FALSE)
<1>1. \A dir \in Dirs : [d.in[dir] EXCEPT !.pending = FALSE] \in incoming
  BY Zenon DEF Sound, ConnState, incoming
<1>2. \A dir \in Dirs : [d.in[dir] EXCEPT !.pending = FALSE].pending = FALSE
  BY DEF Sound, ConnState, incoming
<1>3. <<>> \in Seq(Frame)
  OBVIOUS
<1>4. takeControl(d) \in ConnState
  BY <1>1, <1>3, Zenon DEF Sound, ConnState, takeControl
<1>5. ~Waiting(takeControl(d))
  BY <1>2, Zenon DEF Sound, ConnState, takeControl, Waiting
<1> QED
  BY <1>4, <1>5, Zenon DEF Sound, ConnState, takeControl

\* terminate: a closed connection sends nothing more.
LEMMA TerminateOK ==
  ASSUME NEW e \in Endpoints, NEW x \in BOOLEAN, NEW d, Sound(e, d, x),
         NEW err \in Errors
  PROVE  Sound(e, terminate(d, err), x)
<1> DEFINE c == terminate(d, err)
           in == [dir \in Dirs |-> [d.in[dir] EXCEPT !.signal = FALSE]]
           out == [dir \in Dirs |-> [d.out[dir] EXCEPT !.signal = FALSE]]
           ss == [id \in StreamIDs |->
                    IF d.streams[id].done THEN d.streams[id]
                    ELSE [d.streams[id] EXCEPT !.readSignal = FALSE, !.writeSignal = FALSE]]
<1>1. ASSUME NEW i \in incoming, NEW o \in outgoing
      PROVE  /\ [i EXCEPT !.signal = FALSE] \in incoming
             /\ [o EXCEPT !.signal = FALSE] \in outgoing
  BY Zenon DEF incoming, outgoing
<1>2. in \in [Dirs -> incoming] /\ out \in [Dirs -> outgoing]
  <2>1. d.in \in [Dirs -> incoming] /\ d.out \in [Dirs -> outgoing]
    BY DEF Sound, ConnState
  <2>2. \A dir \in Dirs : d.in[dir] \in incoming /\ d.out[dir] \in outgoing
    BY <2>1
  <2>3. \A dir \in Dirs : /\ [d.in[dir] EXCEPT !.signal = FALSE] \in incoming
                          /\ [d.out[dir] EXCEPT !.signal = FALSE] \in outgoing
    BY <1>1, <2>2, Zenon
  <2> QED
    BY <2>3, Zenon
<1>3. \A id \in StreamIDs : StreamOK(e, ss[id])
  <2>1. \A id \in StreamIDs : StreamOK(e, d.streams[id])
    BY Zenon DEF Sound
  <2> QED
    BY <2>1, QuietOK, Zenon
<1>4. ss \in [StreamIDs -> Stream]
  <2>1. \A id \in StreamIDs : ss[id] \in Stream
    BY <1>3, Zenon DEF StreamOK
  <2> QED
    BY <2>1, Zenon
<1>5. c = [d EXCEPT !.closeErr = err, !.sendSignal = {}, !.out = out, !.in = in,
                    !.streams = ss]
  BY Zenon DEF terminate
<1> HIDE DEF in, out, ss
<1>6. c \in ConnState
  BY <1>2, <1>4, <1>5, Zenon DEF Sound, ConnState
<1>7. c.streams = ss /\ c.closeErr = err
  BY <1>5 DEF Sound, ConnState
<1>8. ~running(c)
  BY <1>7 DEF running, Errors, None
<1>9. /\ c.received = d.received /\ c.recvMax = d.recvMax /\ c.consumed = d.consumed
      /\ c.sent = d.sent /\ c.sendMax = d.sendMax /\ c.ready = d.ready
  BY <1>5 DEF Sound, ConnState
<1> HIDE DEF c
<1>10. Sound(e, c, x)
  BY <1>3, <1>6, <1>7, <1>8, <1>9, Zenon DEF Sound
<1> QED
  BY <1>10 DEF c
=============================================================================
