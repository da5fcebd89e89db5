----------------------------- MODULE Lifecycle -----------------------------
(***************************************************************************)
(* The life of one connection, from newConn to the end of its goroutines:  *)
(* Dial's wait, the four loops, application goroutines that write and that *)
(* close, the transport with its half-close, its write deadline and the    *)
(* forced close, and a peer that may read or not, send anything, shut down *)
(* or vanish.  Streams and flow control are in Conn; here a record is one  *)
(* of a few kinds.                                                         *)
(*                                                                         *)
(* Time is left out: a timer that runs may go off at any moment, so what   *)
(* holds here holds for every length of the timeouts and every delay.      *)
(***************************************************************************)
EXTENDS Naturals

CONSTANTS
  Writers,     \* application goroutines in Write, Close of a stream or SendDatagram
  Closers,     \* application goroutines in CloseWithError
  Transports,  \* what a transport can do: [halfClose, expires], see closeWrite and Expire
  Cases,       \* instances: [can : a transport, fate : what may become of it,
               \* keepAlive : Config.KeepAlivePeriod is set, calls : the
               \* application goroutines there are]
  WireCap      \* bound: the records the transport takes ahead of the peer

Loops == {"writeLoop", "readLoop", "idleLoop", "keepAliveLoop"}
Procs == Loops \cup {"start"} \cup Writers \cup Closers
Links == {"up", "eof", "broken"}
Nobody == "nobody"
None == "none"

\* What a connection ends with.  A closer's error is named after it.
Reasons == Closers \cup
  {"violation", "peer", "transport", "timeout", "cancelled"}

ASSUME LifecycleAssumption ==
  /\ WireCap \in Nat
  /\ Cases \subseteq [can : Transports, fate : Links, keepAlive : BOOLEAN,
                      calls : SUBSET (Writers \cup Closers)]
  /\ Writers \cap Closers = {} /\ Nobody \notin Procs /\ None \notin Reasons
  /\ Transports \subseteq [halfClose : {"no", "at once", "waits"}, expires : BOOLEAN]
  /\ (Writers \cup Closers) \cap (Loops \cup {"start"}) = {}
  /\ Closers \cap {"violation", "peer", "transport", "timeout", "cancelled"} = {}

VARIABLES
  closeErr,   \* Conn.closeErr; ctx is done when it is set
  ready,      \* the peer's transport parameters are in
  handshake,  \* how many times the handshake channel has been closed
  tr,         \* the transport
  forced,     \* closeGracefully's timer: "off", "armed", "fired"
  writeMu,    \* who holds it
  wake,       \* controlWake holds a token
  pc,         \* where each goroutine is
  readErr,    \* what made the read loop end the connection
  sent,       \* history: what has been written to the transport, see Follow
  told        \* history: the reason in the CONNECTION_CLOSE that was written

vars == <<closeErr, ready, handshake, tr, forced, writeMu, wake, pc, readErr, sent, told>>

\* newConn: writeMu is taken for the write loop before any loop runs.
Init ==
  /\ closeErr = None /\ ready = FALSE /\ handshake = 0
  /\ forced = "off" /\ writeMu = "writeLoop" /\ wake = FALSE
  /\ \E c \in Cases :
       /\ tr = [can |-> c.can, fate |-> c.fate, open |-> TRUE, sendDown |-> FALSE,
                link |-> "up", deadline |-> "none", unread |-> 0]
       /\ pc = [p \in Procs |-> CASE p = "writeLoop" -> "params"
                                  [] p = "readLoop" -> "read"
                                  [] p = "idleLoop" -> "handshake"
                                  [] p = "keepAliveLoop" /\ c.keepAlive -> "tick"
                                  [] p = "start" -> "wait"
                                  [] p \in c.calls -> "idle"
                                  [] OTHER -> "done"]
  /\ readErr = None /\ sent = "nothing" /\ told = None

Goto(p, l) == pc' = [pc EXCEPT ![p] = l]
-----------------------------------------------------------------------------
(* The transport.                                                          *)

\* A write returns an error: the transport is closed, shut down, broken or
\* past its write deadline.  Otherwise it waits for room.
WriteFails == ~tr.open \/ tr.sendDown \/ tr.link = "broken" \/ tr.deadline = "passed"
WriteSucceeds == ~WriteFails /\ tr.unread < WireCap

\* The records so far, as the peer has to see them: the parameters ("params"),
\* which frames may follow, then at most one CONNECTION_CLOSE ("close").
\* "broken" is any other order.
Follow(kind) ==
  CASE kind = "params" /\ sent = "nothing" -> "params"
    [] kind = "frames" /\ sent = "params" -> "params"
    [] kind = "close" /\ sent = "params" -> "close"
    [] OTHER -> "broken"

writeRecord(kind) ==
  WriteSucceeds /\ tr' = [tr EXCEPT !.unread = @ + 1] /\ sent' = Follow(kind)

\* closeWrite.  TCP shuts down at once; TLS writes an alert first, after any
\* write that is under way and under a deadline of its own; a message
\* transport cannot close one direction.
InWrite(p) == pc[p] \in {"params", "write", "writeClose"}
CloseWriteSucceeds ==
  /\ tr.open /\ tr.link # "broken" /\ tr.can.halfClose # "no"
  /\ tr.can.halfClose = "waits" =>
       tr.unread < WireCap /\ \A p \in Procs : ~InWrite(p)
CloseWriteFails ==
  \/ ~tr.open \/ tr.link = "broken" \/ tr.can.halfClose = "no"
  \/ tr.can.halfClose = "waits" /\ tr.deadline = "passed"
-----------------------------------------------------------------------------
(* The two ways to end a connection.                                       *)

\* The error a goroutine ends the connection with.
Reason(p) ==
  CASE p \in Closers -> p
    [] p = "readLoop" -> readErr
    [] p \in Writers \cup {"writeLoop"} -> "transport"
    [] p = "start" -> "cancelled"
    [] OTHER -> "timeout"

\* terminate forgets that the parameters may have closed the channel.
terminateTwice(p, l, later) ==
  IF closeErr = None
  THEN closeErr' = Reason(p) /\ handshake' = handshake + 1 /\ Goto(p, l)
  ELSE Goto(p, later) /\ UNCHANGED <<closeErr, handshake>>

\* terminate forgets that the connection may have ended.
terminateAgain(p, l, later) ==
  /\ closeErr' = Reason(p) /\ Goto(p, l)
  /\ handshake' = IF ready \/ closeErr # None THEN handshake ELSE handshake + 1

\* terminate: the first caller goes on at l, any other returns to later.
terminate(p, l, later) ==
  IF closeErr = None
  THEN /\ closeErr' = Reason(p)
       /\ handshake' = IF ready THEN handshake ELSE handshake + 1
       /\ Goto(p, l)
  ELSE Goto(p, later) /\ UNCHANGED <<closeErr, handshake>>

\* Where abort and closeGracefully return to.
AfterAbort(p) ==
  IF p \in Writers THEN "unlock" ELSE IF p = "readLoop" THEN "end" ELSE "done"
AfterClose(p) == IF p = "readLoop" THEN "read" ELSE "done"

\* abort closes the transport of a connection that somebody else ended.
AbortAlways(p) ==
  /\ pc[p] = "abort" /\ terminate(p, "closeTr", "closeTr")
  /\ UNCHANGED <<ready, tr, forced, writeMu, wake, readErr, sent, told>>

Abort(p) ==
  /\ pc[p] = "abort" /\ terminate(p, "closeTr", AfterAbort(p))
  /\ UNCHANGED <<ready, tr, forced, writeMu, wake, readErr, sent, told>>

AbortTransport(p) ==
  /\ pc[p] = "closeTr" /\ tr' = [tr EXCEPT !.open = FALSE]
  /\ Goto(p, AfterAbort(p))
  /\ UNCHANGED <<closeErr, ready, handshake, forced, writeMu, wake, readErr, sent, told>>

closeGracefully(p) ==
  /\ pc[p] = "close" /\ terminate(p, "expire", AfterClose(p))
  /\ UNCHANGED <<ready, tr, forced, writeMu, wake, readErr, sent, told>>

\* closeGracefully without a deadline and a timer.
ExpireNever(p) ==
  /\ pc[p] = "expire"
  /\ Goto(p, IF p \in Closers \cup {"readLoop"} THEN "lockClose" ELSE "shutdown")
  /\ UNCHANGED <<closeErr, ready, handshake, tr, forced, writeMu, wake, readErr, sent, told>>

\* The write deadline, where the transport has one, and the timer are set.
\* The application and the read loop have a frame to send, the timers none.
Expire(p) ==
  /\ pc[p] = "expire"
  /\ tr' = [tr EXCEPT !.deadline = IF tr.can.expires THEN "set" ELSE @] /\ forced' = "armed"
  /\ Goto(p, IF p \in Closers \cup {"readLoop"} THEN "lockClose" ELSE "shutdown")
  /\ UNCHANGED <<closeErr, ready, handshake, writeMu, wake, readErr, sent, told>>

LockClose(p) ==
  /\ pc[p] = "lockClose" /\ writeMu = Nobody
  /\ writeMu' = p /\ Goto(p, "writeClose")
  /\ UNCHANGED <<closeErr, ready, handshake, tr, forced, wake, readErr, sent, told>>

WriteClose(p) ==
  /\ pc[p] = "writeClose" /\ writeMu' = Nobody
  /\ \/ writeRecord("close") /\ told' = Reason(p) /\ Goto(p, "shutdown")
     \/ WriteFails /\ Goto(p, "giveUp") /\ UNCHANGED <<tr, sent, told>>
  /\ UNCHANGED <<closeErr, ready, handshake, forced, wake, readErr>>

ShutDown(p) ==
  /\ pc[p] = "shutdown"
  /\ \/ /\ CloseWriteSucceeds /\ tr' = [tr EXCEPT !.sendDown = TRUE]
        /\ Goto(p, AfterClose(p))
     \/ CloseWriteFails /\ Goto(p, "giveUp") /\ UNCHANGED tr
  /\ UNCHANGED <<closeErr, ready, handshake, forced, writeMu, wake, readErr, sent, told>>

GiveUp(p) ==
  /\ pc[p] = "giveUp" /\ tr' = [tr EXCEPT !.open = FALSE]
  /\ forced' = IF forced = "armed" THEN "off" ELSE forced
  /\ Goto(p, AfterClose(p))
  /\ UNCHANGED <<closeErr, ready, handshake, writeMu, wake, readErr, sent, told>>
-----------------------------------------------------------------------------
(* The write loop, and the application goroutines that write.              *)

sendParameters ==
  /\ pc["writeLoop"] = "params" /\ writeMu' = Nobody
  /\ \/ writeRecord("params") /\ Goto("writeLoop", "select")
     \/ WriteFails /\ Goto("writeLoop", "abort") /\ UNCHANGED <<tr, sent>>
  /\ UNCHANGED <<closeErr, ready, handshake, forced, wake, readErr, told>>

writeLoop ==
  /\ pc["writeLoop"] = "select"
  /\ \/ wake /\ wake' = FALSE /\ Goto("writeLoop", "lockWrite")
     \/ closeErr # None /\ Goto("writeLoop", "done") /\ UNCHANGED wake
  /\ UNCHANGED <<closeErr, ready, handshake, tr, forced, writeMu, readErr, sent, told>>

\* A writer that does not look at closeErr under the lock.
LockWriteBlind(p) ==
  /\ pc[p] = "lockWrite" /\ writeMu = Nobody /\ writeMu' = p /\ Goto(p, "write")
  /\ UNCHANGED <<closeErr, ready, handshake, tr, forced, wake, readErr, sent, told>>

\* The lock is taken and closeErr is read: flushControl's takeControl, which
\* may also find nothing to send, trySend, sendFin and SendDatagram.
LockWrite(p) ==
  /\ pc[p] = "lockWrite" /\ writeMu = Nobody
  /\ \/ closeErr = None /\ writeMu' = p /\ Goto(p, "write")
     \/ /\ closeErr # None \/ p = "writeLoop"
        /\ Goto(p, IF p = "writeLoop" THEN "select" ELSE "done")
        /\ UNCHANGED writeMu
  /\ UNCHANGED <<closeErr, ready, handshake, tr, forced, wake, readErr, sent, told>>

\* One record.  A flush of many frames takes several; closeErr is not read
\* again in between.  A writer that fails aborts before it unlocks, the write
\* loop after.
Write(p) ==
  /\ pc[p] = "write"
  /\ \/ /\ writeRecord("frames")
        /\ \/ p = "writeLoop" /\ UNCHANGED <<pc, writeMu>>
           \/ /\ Goto(p, IF p = "writeLoop" THEN "select" ELSE "done")
              /\ writeMu' = Nobody
     \/ /\ WriteFails /\ Goto(p, "abort")
        /\ writeMu' = IF p = "writeLoop" THEN Nobody ELSE writeMu
        /\ UNCHANGED <<tr, sent>>
  /\ UNCHANGED <<closeErr, ready, handshake, forced, wake, readErr, told>>

Unlock(p) ==
  /\ pc[p] = "unlock" /\ writeMu' = Nobody /\ Goto(p, "done")
  /\ UNCHANGED <<closeErr, ready, handshake, tr, forced, wake, readErr, sent, told>>
-----------------------------------------------------------------------------
(* The read loop.                                                          *)

Frames == {"params", "close", "bad", "other"}
Records == Frames \X (Frames \cup {"padding"})

\* handleFrameLocked: whether the parameters are in, and why to end.
handleFrame(s, f) ==
  IF s.end # None \/ f = "padding" THEN s
  ELSE IF f = "bad" \/ (f = "params") = s.ready THEN [s EXCEPT !.end = "violation"]
  ELSE IF f = "params" THEN [s EXCEPT !.ready = TRUE]
  ELSE IF f = "close" THEN [s EXCEPT !.end = "peer"]
  ELSE s

handleRecord(rec) ==
  handleFrame(handleFrame([ready |-> ready, end |-> None], rec[1]), rec[2])

\* A record from the peer.  Its frames may leave something for the write loop.
ReadRecord(rec) ==
  /\ pc["readLoop"] = "read" /\ tr.open /\ tr.link = "up" /\ closeErr = None
  /\ LET s == handleRecord(rec) IN
     /\ ready' = s.ready
     /\ handshake' = IF s.ready # ready THEN handshake + 1 ELSE handshake
     /\ readErr' = s.end
     /\ Goto("readLoop", CASE s.end = None -> "read"
                            [] s.end = "violation" -> "close"
                            [] OTHER -> "abort")
  /\ wake' \in {wake, TRUE}
  /\ UNCHANGED <<closeErr, tr, forced, writeMu, sent, told>>

\* A record over max_record_size, which is skipped, before or after the close.
ReadOversized ==
  /\ pc["readLoop"] = "read" /\ tr.open /\ tr.link = "up"
  /\ readErr' = "violation" /\ Goto("readLoop", "close")
  /\ UNCHANGED <<closeErr, ready, handshake, tr, forced, writeMu, wake, sent, told>>

ReadFails ==
  /\ pc["readLoop"] = "read" /\ (~tr.open \/ tr.link # "up")
  /\ readErr' = "transport" /\ Goto("readLoop", "abort")
  /\ UNCHANGED <<closeErr, ready, handshake, tr, forced, writeMu, wake, sent, told>>

\* readLoop's deferred close.
ReadEnds ==
  /\ pc["readLoop"] = "end" /\ tr' = [tr EXCEPT !.open = FALSE]
  /\ Goto("readLoop", "done")
  /\ UNCHANGED <<closeErr, ready, handshake, forced, writeMu, wake, readErr, sent, told>>
-----------------------------------------------------------------------------
(* The timers.                                                             *)

\* A loop's timer goes off: HandshakeIdleTimeout, the idle timeout, and pings
\* that were left unanswered for as long.
TimesOut(p, l) ==
  /\ pc[p] = l /\ Goto(p, "close")
  /\ UNCHANGED <<closeErr, ready, handshake, tr, forced, writeMu, wake, readErr, sent, told>>

HandshakeTimeout == TimesOut("idleLoop", "handshake")
IdleTimeout == TimesOut("idleLoop", "idle")
PingTimeout == TimesOut("keepAliveLoop", "tick")

idleLoop ==
  /\ \/ pc["idleLoop"] = "handshake" /\ handshake > 0 /\ Goto("idleLoop", "idle")
     \/ /\ pc["idleLoop"] \in {"handshake", "idle"} /\ closeErr # None
        /\ Goto("idleLoop", "done")
  /\ UNCHANGED <<closeErr, ready, handshake, tr, forced, writeMu, wake, readErr, sent, told>>

requestPing ==
  /\ pc["keepAliveLoop"] = "tick" /\ wake' = TRUE
  /\ UNCHANGED <<closeErr, ready, handshake, tr, forced, writeMu, pc, readErr, sent, told>>

keepAliveLoop ==
  /\ pc["keepAliveLoop"] = "tick" /\ closeErr # None /\ Goto("keepAliveLoop", "done")
  /\ UNCHANGED <<closeErr, ready, handshake, tr, forced, writeMu, wake, readErr, sent, told>>
-----------------------------------------------------------------------------
(* The application: Dial or Server, then one call of each goroutine.       *)

start ==
  /\ pc["start"] = "wait" /\ handshake > 0
  /\ Goto("start", IF closeErr = None THEN "returned" ELSE "done")
  /\ UNCHANGED <<closeErr, ready, handshake, tr, forced, writeMu, wake, readErr, sent, told>>

Cancel ==
  /\ pc["start"] = "wait" /\ Goto("start", "abort")
  /\ UNCHANGED <<closeErr, ready, handshake, tr, forced, writeMu, wake, readErr, sent, told>>

Call(p) ==
  /\ p \in Writers \cup Closers /\ pc[p] = "idle" /\ pc["start"] = "returned"
  /\ Goto(p, IF p \in Writers THEN "lockWrite" ELSE "close")
  /\ UNCHANGED <<closeErr, ready, handshake, tr, forced, writeMu, wake, readErr, sent, told>>
-----------------------------------------------------------------------------
(* The peer, the network and the clock.                                    *)

\* The peer reads, shuts down its side, or the transport breaks.
Environment ==
  /\ tr.open
  /\ \/ tr.unread > 0 /\ tr' = [tr EXCEPT !.unread = @ - 1]
     \/ tr.link # tr.fate /\ tr' = [tr EXCEPT !.link = tr.fate]
  /\ UNCHANGED <<closeErr, ready, handshake, forced, writeMu, wake, pc, readErr, sent, told>>

DeadlinePasses ==
  /\ tr.deadline = "set" /\ tr' = [tr EXCEPT !.deadline = "passed"]
  /\ UNCHANGED <<closeErr, ready, handshake, forced, writeMu, wake, pc, readErr, sent, told>>

ForcedClose ==
  /\ forced = "armed" /\ forced' = "fired" /\ tr' = [tr EXCEPT !.open = FALSE]
  /\ UNCHANGED <<closeErr, ready, handshake, writeMu, wake, pc, readErr, sent, told>>
-----------------------------------------------------------------------------
\* The steps of a goroutine that needs nobody outside the program to move.
Step(p) ==
  \/ Abort(p) \/ AbortTransport(p)
  \/ closeGracefully(p) \/ Expire(p) \/ LockClose(p) \/ WriteClose(p)
  \/ ShutDown(p) \/ GiveUp(p)
  \/ LockWrite(p) \/ Write(p) \/ Unlock(p)
  \/ p = "writeLoop" /\ (sendParameters \/ writeLoop)
  \/ p = "readLoop" /\ (ReadFails \/ ReadEnds)
  \/ p = "idleLoop" /\ idleLoop
  \/ p = "keepAliveLoop" /\ keepAliveLoop
  \/ p = "start" /\ start

Next ==
  \/ \E p \in Procs : Step(p) \/ Call(p)
  \/ \E rec \in Records : ReadRecord(rec)
  \/ ReadOversized
  \/ HandshakeTimeout \/ IdleTimeout \/ PingTimeout \/ requestPing \/ Cancel
  \/ Environment \/ DeadlinePasses \/ ForcedClose

Spec == Init /\ [][Next]_vars

\* A goroutine that can run runs, the timers that guard the handshake and the
\* close go off.  Nothing is assumed of the peer or of the idle timers.
Fairness ==
  /\ \A p \in Procs : WF_vars(Step(p))
  /\ WF_vars(HandshakeTimeout) /\ WF_vars(DeadlinePasses) /\ WF_vars(ForcedClose)

FairSpec == Spec /\ Fairness
-----------------------------------------------------------------------------
(* Correctness.                                                            *)

Labels == {"params", "select", "lockWrite", "write", "unlock", "read", "end", "handshake",
           "idle", "tick", "wait", "returned", "done", "abort", "closeTr", "close",
           "expire", "lockClose", "writeClose", "shutdown", "giveUp"}
Transport == [can : Transports, fate : Links, open : BOOLEAN, sendDown : BOOLEAN,
              link : Links, deadline : {"none", "set", "passed"}, unread : 0..WireCap]

TypeOK ==
  /\ closeErr \in Reasons \cup {None} /\ told \in Reasons \cup {None}
  /\ ready \in BOOLEAN /\ handshake \in Nat /\ wake \in BOOLEAN
  /\ tr \in Transport
  /\ forced \in {"off", "armed", "fired"} /\ writeMu \in Procs \cup {Nobody}
  /\ pc \in [Procs -> Labels]
  /\ readErr \in Reasons \cup {None}
  /\ sent \in {"nothing", "params", "close", "broken"}

\* The transport parameters are the first frame on the wire, and nothing
\* follows CONNECTION_CLOSE, whoever writes and whoever ends the connection
\* (newConn hands the lock to the write loop; takeControl, trySend, sendFin
\* and SendDatagram read closeErr under the lock).
WireOrder == sent # "broken"

\* The handshake channel is closed once, by the peer's parameters or by the
\* end of a connection without them; a second close would panic
\* (handleParametersLocked, terminate).
HandshakeOnce == handshake = IF ready \/ closeErr # None THEN 1 ELSE 0

\* A connection that CloseWithError or a violation ended is over without the
\* peer having been told only if time ran out, the peer closed or shut down,
\* or the transport broke: the other loops, which end and close the transport as
\* well, do not get in before the frame (closeGracefully, readLoop).
Over == ~tr.open /\ \A p \in Loops : pc[p] = "done"
ReasonNotLost ==
  Over /\ closeErr \in Closers \cup {"violation"} /\ told = None =>
    tr.link # "up" \/ readErr = "peer" \/ tr.deadline = "passed" \/ forced = "fired"

\* What the comment on writeMu says: it is never taken by the goroutine that
\* reads the transport.  readLoop takes it, through closeWithTransportError,
\* to report a violation, and reads nothing as long as it waits for it.
ReaderNeverLocks == writeMu # "readLoop"

\* The connection implements its abstract life (Session): one end, one reason,
\* and the peer is told that reason or none.
phase == IF closeErr = None THEN IF pc["start"] = "returned" THEN "open" ELSE "connecting"
         ELSE IF Over THEN "over" ELSE "closing"
Life == INSTANCE Session WITH NoReason <- None, reason <- closeErr
ImplementsSession == Life!Spec

\* Dial and Server return, even if the peer never says anything (start,
\* idleLoop's handshake timer), and a connection that ends takes everything
\* with it, whatever the peer does: its loops return, the transport is closed,
\* and no goroutine is left waiting for the lock or in a write
\* (closeGracefully's deadline and forced close).
Gone == Over /\ writeMu = Nobody /\ \A p \in Writers \cup Closers : pc[p] \in {"idle", "done"}
EverythingReturns ==
  []<>(pc["start"] \in {"returned", "done"} /\ (closeErr = None \/ Gone))
=============================================================================
