----------------------------- MODULE MCEndpoint -----------------------------
(* Small instances of Endpoint, a server.  Streams 0 and 4 are the client's *)
(* bidirectional ones, 2 and 6 its unidirectional ones; 1 and 3 are the     *)
(* server's.                                                                *)
EXTENDS Endpoint

CONSTANTS
  Window, CWindow,          \* the server's windows: stream and connection
  PeerWindow, PeerCWindow,  \* the client's
  BidiLimit, UniLimit       \* the streams that either may open

MCStreamWindow == [e \in Endpoints |-> IF e = Self THEN Window ELSE PeerWindow]
MCStreamLimit ==
  [e \in Endpoints |-> [k \in Kinds |->
     IF e = Self THEN Window
     ELSE IF k = "bidi_remote" THEN PeerWindow + 1 ELSE PeerWindow]]
MCConnWindow == [e \in Endpoints |-> IF e = Self THEN CWindow ELSE PeerCWindow]
MCMaxIncoming ==
  [e \in Endpoints |-> [dir \in Dirs |-> IF dir = "bidi" THEN BidiLimit ELSE UniLimit]]

\* The frames of some types, for some streams, with offsets up to maxOffset
\* and no more than maxLen data; offsets and lengths are the bounds.
Frames(types, ids, maxOffset, maxLen) ==
  {f \in [type : {"TRANSPORT_PARAMETERS", "BLOCKED", "CONNECTION_CLOSE"}]
           \cup [type : {"STREAM"}, id : ids, off : 0 .. maxOffset,
                 len : 0 .. maxLen, fin : BOOLEAN]
           \cup [type : {"RESET_STREAM"}, id : ids, final : 0 .. maxOffset]
           \cup [type : {"STOP_SENDING"}, id : ids]
           \cup [type : {"MAX_STREAM_DATA"}, id : ids, max : {1, maxOffset}]
           \cup [type : {"MAX_DATA"}, max : {1, maxOffset}]
           \cup [type : {"MAX_STREAMS"}, dir : Dirs,
                 max : {0, UniLimit + 1, MaxStreamCount + 1}]
           \cup [type : {"STREAMS_BLOCKED"}, max : {0, MaxStreamCount + 1}] :
     f.type \in types \cup {"TRANSPORT_PARAMETERS"}}

(* The uses.  "receive": one stream that the peer writes to and ends.       *)
(* "share": two that share the connection's window and the accept queue.    *)
(* "bidi": a bidirectional stream whose two directions end in any way and   *)
(* order.  "limit": two of them, and a limit of one.  "send": two streams   *)
(* of the server's own that compete for the peer's credit.  "one": one      *)
(* stream that is only read.                                                *)
MCPeerFrames == [
  receive |-> Frames({"STREAM", "RESET_STREAM", "STOP_SENDING", "CONNECTION_CLOSE"}, {2}, 5, 2),
  share   |-> Frames({"STREAM", "RESET_STREAM"}, {2, 6}, 1, 1),
  bidi    |-> Frames({"STREAM", "RESET_STREAM", "STOP_SENDING", "MAX_STREAM_DATA"}, {0}, 1, 1),
  limit   |-> Frames({"STREAM", "RESET_STREAM"}, {0, 4}, 0, 0),
  send    |-> Frames({"BLOCKED", "STREAMS_BLOCKED", "STOP_SENDING", "MAX_STREAM_DATA", "MAX_DATA",
                      "MAX_STREAMS"}, {1, 3}, 5, 0),
  one     |-> Frames({"STREAM"}, {2}, 1, 1)]

MCCalls == [
  receive |-> {"Accept", "Read", "Peek", "CancelRead", "SetReadDeadline", "Close"},
  share   |-> {"Accept", "Read"},
  bidi    |-> {"Accept", "Read", "CancelRead", "Write", "CloseWrite", "CancelWrite"},
  limit   |-> {"Accept", "Read", "CancelRead", "CloseWrite", "SetReadDeadline"},
  send    |-> {"Open", "Write", "CloseWrite", "CancelWrite", "Close", "SetWriteDeadline"},
  one     |-> {"Accept", "Read"}]

MCSizes == [receive |-> {1, 3}, share |-> {1}, bidi |-> {1}, limit |-> {1},
            send |-> {1, 2}, one |-> {1}]

MCReadErrors == [u \in Uses |-> IF u = "send" THEN
                                {"FRAME_ENCODING_ERROR", "TRANSPORT_CLOSED"} ELSE {}]
=============================================================================
