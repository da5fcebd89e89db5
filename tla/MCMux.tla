------------------------------- MODULE MCMux -------------------------------
(* Small instances of Mux, with the same configuration on both sides.      *)
(* Stream 0 is the client's bidirectional one, 2 and 6 are its             *)
(* unidirectional ones.                                                    *)
EXTENDS Mux

CONSTANTS
  Window, CWindow,  \* the stream window and the connection window
  Limit             \* the streams of each kind that either may open

MCStreamWindow == [e \in Endpoints |-> Window]
MCStreamLimit == [e \in Endpoints |-> [k \in Kinds |-> Window]]
MCConnWindow == [e \in Endpoints |-> CWindow]
MCMaxIncoming == [e \in Endpoints |-> [dir \in Dirs |-> Limit]]

(* The uses.  "stream": the client writes to a stream, with deadlines, and  *)
(* either side cancels.  "share": two streams of the client share the       *)
(* connection's credit, and the server reads and peeks.  "bidi": both sides *)
(* write to a stream, close and cancel.  "limit": streams come and go at    *)
(* the limit.  "live": two writes of more than a window.  "duplex": one of  *)
(* each side, on one stream.  "peek": peeks of a whole window.  "top":      *)
(* streams that are closed.                                                 *)
MCOpens == [stream |-> {2}, share |-> {2, 6}, bidi |-> {0}, limit |-> {2, 6},
            live |-> {2, 6}, duplex |-> {0}, peek |-> {2}, top |-> {2, 6}]
MCSizes == [stream |-> {1, 3}, share |-> {2}, bidi |-> {1}, limit |-> {1},
            live |-> {3}, duplex |-> {3}, peek |-> {1, 4}, top |-> {1}]
MCPeekSizes == [u \in Uses |-> IF u \in {"share", "peek"} THEN {2} ELSE {}]
MCMaxBytes == [stream |-> 5, share |-> 2, bidi |-> 1, limit |-> 1,
               live |-> 3, duplex |-> 3, peek |-> 4, top |-> 1]

MCCalls == [
  stream |-> [client |-> {"Open", "Write", "CloseWrite", "CancelWrite", "SetWriteDeadline"},
              server |-> {"Accept", "Read", "CancelRead"}],
  share  |-> [client |-> {"Open", "Write", "CloseWrite"}, server |-> {"Accept", "Read", "Peek"}],
  bidi   |-> [client |-> {"Open", "Write", "CloseWrite", "CancelWrite", "Read", "CancelRead"},
              server |-> {"Accept", "Write", "CloseWrite", "CancelWrite", "Read", "CancelRead"}],
  limit  |-> [client |-> {"Open", "Write", "CloseWrite", "CancelWrite"},
              server |-> {"Accept", "Read", "CancelRead"}],
  live   |-> [client |-> {"Open", "Write"}, server |-> {"Accept", "Read"}],
  duplex |-> [client |-> {"Open", "Write", "Read"}, server |-> {"Accept", "Write", "Read"}],
  peek   |-> [client |-> {"Open", "Write"}, server |-> {"Accept", "Read", "Peek"}],
  top    |-> [client |-> {"Open", "Write", "CloseWrite"}, server |-> {"Accept", "Read"}]]
=============================================================================
