-------------------------- MODULE LifecycleProofs --------------------------
(***************************************************************************)
(* For any number of goroutines that write and close, any transport and    *)
(* any peer: the parameters come first and nothing follows                 *)
(* CONNECTION_CLOSE, the handshake channel is closed once, the connection  *)
(* implements its abstract life, and the reason it ended for is not lost   *)
(* to the peer without an excuse.                                          *)
(***************************************************************************)
EXTENDS Lifecycle, TLAPS

\* Only a goroutine whose code has label l is at it.
Place(p, l) ==
  /\ l = "params" => p = "writeLoop"
  /\ l \in {"write", "lockWrite"} => p \in Writers \cup {"writeLoop"}
  /\ l \in {"abort", "closeTr"} => p \in Writers \cup {"writeLoop", "readLoop", "start"}
  /\ l = "unlock" => p \in Writers
  /\ l \in {"close", "expire", "lockClose", "writeClose", "shutdown", "giveUp"} =>
       p \in Closers \cup {"readLoop", "idleLoop", "keepAliveLoop"}
  /\ l \in {"read", "end"} => p = "readLoop"
  /\ l = "returned" => p = "start"

\* Whoever is at one of these labels holds writeMu.
Holds(p, l) ==
  \/ l \in {"params", "write", "writeClose"}
  \/ p \in Writers /\ l \in {"abort", "closeTr", "unlock"}

\* Whoever is at one of these ended the connection and has yet to tell the
\* peer why.
Ending(l) == l \in {"expire", "lockClose", "writeClose"}

EndingOK(p) ==
  /\ Ending(pc[p]) => closeErr = Reason(p) /\ sent # "close"
  /\ pc[p] = "expire" => tr.deadline = "none"
  /\ pc[p] \in {"shutdown", "giveUp", "closeTr"} => closeErr # None

\* The read loop ends the connection for a reason, and does not stop before it
\* has ended.
ReaderOK ==
  /\ pc["readLoop"] \in {"abort", "close", "closeTr", "expire", "lockClose", "writeClose"} =>
       readErr # None
  /\ pc["readLoop"] \in {"end", "done"} => closeErr # None

\* Nothing is written before the parameters or after CONNECTION_CLOSE: as long
\* as the parameters are missing the write loop holds the lock or no write
\* succeeds any more, and once the frame is out nobody is in a write.
WireOK ==
  /\ sent # "broken"
  /\ sent = "nothing" => pc["writeLoop"] = "params" \/ WriteFails
  /\ pc["writeLoop"] = "params" => sent = "nothing"
  /\ sent = "close" => closeErr # None /\ \A p \in Procs : pc[p] # "write"
  /\ told # None => told = closeErr /\ sent = "close"

\* A transport that no longer takes writes stays that way.
TransportOK ==
  /\ tr.link \in {"up", tr.fate}
  /\ tr.deadline # "none" => closeErr # None

IInv ==
  /\ TypeOK
  /\ \A p \in Procs : Place(p, pc[p]) /\ EndingOK(p)
  /\ \A p \in Procs : Holds(p, pc[p]) => writeMu = p
  /\ \A p, q \in Procs : Ending(pc[p]) /\ Ending(pc[q]) => p = q
  /\ ReaderOK /\ WireOK /\ TransportOK /\ HandshakeOnce
-----------------------------------------------------------------------------
\* Who is who.
LEMMA Kinds ==
  /\ "writeLoop" \in Procs /\ "readLoop" \in Procs /\ "start" \in Procs
  /\ "idleLoop" \in Procs /\ "keepAliveLoop" \in Procs
  /\ Writers \subseteq Procs /\ Closers \subseteq Procs
  /\ "writeLoop" \notin Writers \cup Closers /\ "readLoop" \notin Writers \cup Closers
  /\ "start" \notin Writers \cup Closers /\ "idleLoop" \notin Writers \cup Closers
  /\ "keepAliveLoop" \notin Writers \cup Closers /\ Writers \cap Closers = {}
  /\ Nobody \notin Procs
BY LifecycleAssumption DEF Procs, Loops

\* A goroutine that is about to end the connection, or has just done it, has a
\* reason.
LEMMA ReasonType ==
  ASSUME IInv, NEW p \in Procs,
         pc[p] \in {"abort", "close", "expire", "lockClose", "writeClose"}
  PROVE  Reason(p) \in Reasons /\ Reason(p) # None
BY LifecycleAssumption DEF IInv, TypeOK, Reason, Reasons, ReaderOK

\* Whoever is Ending has ended it.
LEMMA EndingClosed ==
  ASSUME IInv, NEW p \in Procs, Ending(pc[p])
  PROVE  closeErr # None
BY ReasonType DEF IInv, EndingOK, Ending

\* The lock passes in one of three ways.
LEMMA LockMove ==
  ASSUME IInv, NEW p \in Procs, NEW l, pc' = [pc EXCEPT ![p] = l],
         \/ writeMu' = writeMu /\ (Holds(p, l) => Holds(p, pc[p]))
         \/ writeMu = Nobody /\ writeMu' = p
         \/ Holds(p, pc[p]) /\ writeMu' = Nobody /\ ~Holds(p, l)
  PROVE  (\A q \in Procs : Holds(q, pc[q]) => writeMu = q)'
<1> SUFFICES ASSUME NEW q \in Procs, Holds(q, pc'[q]) PROVE writeMu' = q
  BY DEF Holds
<1>1. pc \in [Procs -> Labels]
  BY DEF IInv, TypeOK
<1>2. \A r \in Procs : Holds(r, pc[r]) => writeMu = r
  BY DEF IInv
<1>3. CASE q = p
  BY <1>1, <1>2, <1>3
<1>4. CASE q # p
  BY <1>1, <1>2, <1>4, Kinds
<1> QED
  BY <1>3, <1>4

\* A move of one goroutine that neither ends the connection nor writes.
LEMMA Move ==
  ASSUME IInv, TypeOK', TransportOK', NEW p \in Procs, NEW l \in Labels,
         pc' = [pc EXCEPT ![p] = l], Place(p, l), ~Ending(l), l # "params",
         UNCHANGED <<closeErr, ready, handshake, readErr, sent, told>>,
         WriteFails => WriteFails', tr'.deadline = tr.deadline,
         \/ writeMu' = writeMu /\ (Holds(p, l) => Holds(p, pc[p]))
         \/ writeMu = Nobody /\ writeMu' = p
         \/ Holds(p, pc[p]) /\ writeMu' = Nobody /\ ~Holds(p, l),
         l \in {"shutdown", "giveUp", "closeTr"} => closeErr # None,
         l = "write" => closeErr = None,
         pc[p] = "params" => WriteFails,
         p = "readLoop" /\ l \in {"abort", "close", "closeTr"} => readErr # None,
         p = "readLoop" /\ l \in {"end", "done"} => closeErr # None
  PROVE  IInv'
<1>1. pc \in [Procs -> Labels]
  BY DEF IInv, TypeOK
<1>2. pc'[p] = l /\ \A q \in Procs : q # p => pc'[q] = pc[q]
  BY <1>1
<1>3. (\A q \in Procs : Place(q, pc[q]))'
  BY <1>2 DEF IInv, Place
<1>4. (\A q \in Procs : EndingOK(q))'
  BY <1>2 DEF IInv, EndingOK, Ending, Reason
<1>5. (\A q \in Procs : Holds(q, pc[q]) => writeMu = q)'
  BY LockMove
<1>6. (\A q, r \in Procs : Ending(pc[q]) /\ Ending(pc[r]) => q = r)'
  BY <1>2 DEF IInv, Ending
<1>7. ReaderOK'
  BY <1>2, Kinds DEF IInv, ReaderOK, Ending
<1>8. WireOK'
  <2>1. (sent = "nothing" => pc["writeLoop"] = "params" \/ WriteFails)'
    BY <1>2, Kinds DEF IInv, WireOK
  <2>2. (pc["writeLoop"] = "params" => sent = "nothing")'
    BY <1>2, Kinds DEF IInv, WireOK
  <2>3. (sent = "close" => closeErr # None /\ \A q \in Procs : pc[q] # "write")'
    BY <1>2 DEF IInv, WireOK
  <2> QED
    BY <2>1, <2>2, <2>3 DEF IInv, WireOK
<1>9. HandshakeOnce'
  BY DEF IInv, HandshakeOnce
<1> QED
  BY <1>3, <1>4, <1>5, <1>6, <1>7, <1>8, <1>9 DEF IInv
-----------------------------------------------------------------------------
\* Every change of the transport yields a transport.
LEMMA TransportType ==
  ASSUME tr \in Transport
  PROVE  /\ [tr EXCEPT !.open = FALSE] \in Transport
         /\ [tr EXCEPT !.sendDown = TRUE] \in Transport
         /\ \A d \in {"none", "set", "passed"} : [tr EXCEPT !.deadline = d] \in Transport
         /\ [tr EXCEPT !.link = tr.fate] \in Transport
         /\ \A n \in 0..WireCap : [tr EXCEPT !.unread = n] \in Transport
         /\ tr.unread < WireCap => tr.unread + 1 \in 0..WireCap
         /\ tr.unread > 0 => tr.unread - 1 \in 0..WireCap
         /\ tr.deadline \in {"none", "set", "passed"} /\ tr.unread \in 0..WireCap
<1>1. [tr EXCEPT !.open = FALSE] \in Transport /\ [tr EXCEPT !.sendDown = TRUE] \in Transport
  BY Zenon DEF Transport
<1>5. \A d \in {"none", "set", "passed"} : [tr EXCEPT !.deadline = d] \in Transport
  BY Zenon DEF Transport
<1>6. [tr EXCEPT !.link = tr.fate] \in Transport
  <2>1. tr.fate \in Links
    BY DEF Transport
  <2>2. \A k \in Links : [tr EXCEPT !.link = k] \in Transport
    BY Zenon DEF Transport
  <2> QED
    BY <2>1, <2>2
<1>2. \A n \in 0..WireCap : [tr EXCEPT !.unread = n] \in Transport
  BY Zenon DEF Transport
<1>3. tr.deadline \in {"none", "set", "passed"} /\ tr.unread \in 0..WireCap
  BY DEF Transport
<1>4. /\ tr.unread < WireCap => tr.unread + 1 \in 0..WireCap
      /\ tr.unread > 0 => tr.unread - 1 \in 0..WireCap
  <2>1. WireCap \in Nat
    BY LifecycleAssumption
  <2> QED
    BY <1>3, <2>1
<1> QED
  BY <1>1, <1>2, <1>3, <1>4, <1>5, <1>6

\* A record that is written leaves a transport and a wire of the right type.
LEMMA WriteType ==
  ASSUME TypeOK, NEW kind, writeRecord(kind)
  PROVE  tr' \in Transport /\ sent' \in {"nothing", "params", "close", "broken"}
<1>1. tr.unread + 1 \in 0..WireCap
  BY TransportType DEF TypeOK, writeRecord, WriteSucceeds
<1>2. tr' \in Transport
  BY <1>1, TransportType DEF TypeOK, writeRecord
<1>3. sent' \in {"nothing", "params", "close", "broken"}
  BY DEF writeRecord, Follow
<1> QED
  BY <1>2, <1>3

\* A goroutine that moves stays at a label.
LEMMA PcType ==
  ASSUME TypeOK, NEW p \in Procs, NEW l \in Labels, Goto(p, l)
  PROVE  pc' \in [Procs -> Labels]
BY DEF TypeOK, Goto

\* What terminate changes has its type.
LEMMA TerminateType ==
  ASSUME IInv, NEW p \in Procs, NEW l \in Labels, NEW m \in Labels, terminate(p, l, m),
         pc[p] \in {"abort", "close"}
  PROVE  /\ closeErr' \in Reasons \cup {None} /\ handshake' \in Nat
         /\ pc' \in [Procs -> Labels]
BY ReasonType, PcType DEF IInv, TypeOK, terminate

\* handleRecord's result has its type: it ends the connection or not, and has
\* the parameters at the end if it had them before.
LEMMA RecordType ==
  ASSUME TypeOK, NEW rec \in Records
  PROVE  LET s == handleRecord(rec) IN
         /\ s.ready \in BOOLEAN /\ (ready => s.ready)
         /\ s.end \in {None, "violation", "peer"}
<1> DEFINE S == {s \in [ready : BOOLEAN, end : {None, "violation", "peer"}] : ready => s.ready}
<1>1. [ready |-> ready, end |-> None] \in S
  BY DEF TypeOK
<1>2. ASSUME NEW s \in S, NEW f PROVE handleFrame(s, f) \in S
  <2>1. [s EXCEPT !.end = "violation"] \in S /\ [s EXCEPT !.ready = TRUE] \in S
        /\ [s EXCEPT !.end = "peer"] \in S
    BY Zenon
  <2> QED
    BY <2>1 DEF handleFrame
<1>3. handleRecord(rec) \in S
  BY <1>1, <1>2 DEF handleRecord
<1> QED
  BY <1>3
-----------------------------------------------------------------------------
(* One lemma for each action.                                              *)

\* What an action that only moves p, and touches none of the rest, preserves.
LEMMA QuietMove ==
  ASSUME IInv, NEW p \in Procs, NEW l \in Labels, Goto(p, l), Place(p, l),
         l \notin {"params", "write", "expire", "lockClose", "writeClose",
                   "shutdown", "giveUp", "closeTr", "end"},
         UNCHANGED <<closeErr, ready, handshake, readErr, sent, told, tr, forced, writeMu>>,
         wake' \in BOOLEAN, p # "readLoop", ~Holds(p, l), pc[p] # "params"
  PROVE  IInv'
<1>1. TypeOK'
  BY PcType DEF IInv, TypeOK
<1>2. TransportOK' /\ (WriteFails => WriteFails')
  BY DEF IInv, TransportOK, WriteFails
<1> QED
  BY <1>1, <1>2, Move DEF Goto, Ending

\* The transport changes under everybody's feet, and no write that failed
\* succeeds again.
LEMMA TransportChange ==
  ASSUME IInv, TypeOK', TransportOK', WriteFails => WriteFails',
         tr'.deadline = tr.deadline \/ tr.deadline # "none",
         UNCHANGED <<closeErr, ready, handshake, readErr, sent, told, writeMu, pc>>
  PROVE  IInv'
<1>1. (\A q \in Procs : EndingOK(q))'
  BY DEF IInv, EndingOK, Ending, Reason
<1>2. WireOK'
  BY DEF IInv, WireOK
<1> QED
  BY <1>1, <1>2 DEF IInv, Place, Holds, Ending, ReaderOK, HandshakeOnce

\* The peer reads, or the transport meets its fate.
LEMMA EnvironmentOK == ASSUME IInv, Environment PROVE IInv'
<1>1. tr' \in Transport /\ TransportOK' /\ (WriteFails => WriteFails')
      /\ tr'.deadline = tr.deadline
  <2>1. CASE tr.unread > 0 /\ tr' = [tr EXCEPT !.unread = tr.unread - 1]
    BY <2>1, TransportType DEF IInv, TypeOK, Transport, Environment, TransportOK, WriteFails
  <2>2. CASE tr.link # tr.fate /\ tr' = [tr EXCEPT !.link = tr.fate]
    BY <2>2, TransportType DEF IInv, TypeOK, Transport, Environment, TransportOK, WriteFails
  <2> QED
    BY <2>1, <2>2 DEF Environment
<1>2. TypeOK'
  BY <1>1 DEF IInv, TypeOK, Environment
<1> QED
  BY <1>1, <1>2, TransportChange DEF Environment

\* The write deadline passes; it stays passed, since it is set once.
LEMMA DeadlinePassesOK == ASSUME IInv, DeadlinePasses PROVE IInv'
<1>1. tr' \in Transport /\ TransportOK' /\ (WriteFails => WriteFails')
  BY TransportType DEF IInv, TypeOK, Transport, DeadlinePasses, TransportOK, WriteFails
<1>2. TypeOK'
  BY <1>1 DEF IInv, TypeOK, DeadlinePasses
<1> QED
  BY <1>1, <1>2, TransportChange DEF DeadlinePasses

\* closeGracefully's timer closes the transport.
LEMMA ForcedCloseOK == ASSUME IInv, ForcedClose PROVE IInv'
<1>1. tr' \in Transport /\ TransportOK' /\ (WriteFails => WriteFails')
      /\ tr'.deadline = tr.deadline
  BY TransportType DEF IInv, TypeOK, Transport, ForcedClose, TransportOK, WriteFails
<1>2. TypeOK'
  BY <1>1 DEF IInv, TypeOK, ForcedClose
<1> QED
  BY <1>1, <1>2, TransportChange DEF ForcedClose

\* A ping is asked for.
LEMMA requestPingOK == ASSUME IInv, requestPing PROVE IInv'
<1>1. TypeOK' /\ TransportOK' /\ (WriteFails => WriteFails')
  BY DEF IInv, TypeOK, requestPing, TransportOK, WriteFails
<1> QED
  BY <1>1, TransportChange DEF requestPing

\* The write loop wakes up, or ends with the connection.
LEMMA writeLoopOK == ASSUME IInv, writeLoop PROVE IInv'
<1>1. PICK l \in {"lockWrite", "done"} : Goto("writeLoop", l)
  BY DEF writeLoop
<1>2. l \in Labels /\ Place("writeLoop", l) /\ ~Holds("writeLoop", l)
  BY <1>1, Kinds DEF Labels, Place, Holds
<1> QED
  BY <1>1, <1>2, Kinds, QuietMove DEF writeLoop, IInv, TypeOK

\* A timer of idleLoop or keepAliveLoop goes off.
LEMMA TimesOutOK ==
  ASSUME IInv, NEW p \in {"idleLoop", "keepAliveLoop"}, NEW l, l # "params", TimesOut(p, l)
  PROVE  IInv'
<1>1. "close" \in Labels /\ Place(p, "close") /\ ~Holds(p, "close")
  BY Kinds DEF Labels, Place, Holds
<1> QED
  BY <1>1, Kinds, QuietMove DEF TimesOut, IInv, TypeOK

\* idleLoop goes on or ends.
LEMMA idleLoopOK == ASSUME IInv, idleLoop PROVE IInv'
<1>1. PICK l \in {"idle", "done"} : Goto("idleLoop", l)
  BY DEF idleLoop
<1>2. l \in Labels /\ Place("idleLoop", l) /\ ~Holds("idleLoop", l)
  BY <1>1, Kinds DEF Labels, Place, Holds
<1> QED
  BY <1>1, <1>2, Kinds, QuietMove DEF idleLoop, IInv, TypeOK

\* keepAliveLoop ends with the connection.
LEMMA keepAliveLoopOK == ASSUME IInv, keepAliveLoop PROVE IInv'
<1>1. "done" \in Labels /\ Place("keepAliveLoop", "done") /\ ~Holds("keepAliveLoop", "done")
  BY Kinds DEF Labels, Place, Holds
<1> QED
  BY <1>1, Kinds, QuietMove DEF keepAliveLoop, IInv, TypeOK

\* Dial or Server returns.
LEMMA startOK == ASSUME IInv, start PROVE IInv'
<1>1. PICK l \in {"returned", "done"} : Goto("start", l)
  BY DEF start
<1>2. l \in Labels /\ Place("start", l) /\ ~Holds("start", l)
  BY <1>1, Kinds DEF Labels, Place, Holds
<1> QED
  BY <1>1, <1>2, Kinds, QuietMove DEF start, IInv, TypeOK

\* Dial's context is cancelled.
LEMMA CancelOK == ASSUME IInv, Cancel PROVE IInv'
<1>1. "abort" \in Labels /\ Place("start", "abort") /\ ~Holds("start", "abort")
  BY Kinds DEF Labels, Place, Holds
<1> QED
  BY <1>1, Kinds, QuietMove DEF Cancel, IInv, TypeOK

\* The application calls Write or CloseWithError.
LEMMA CallOK == ASSUME IInv, NEW p \in Procs, Call(p) PROVE IInv'
<1>1. PICK l \in {"lockWrite", "close"} :
        Goto(p, l) /\ l = IF p \in Writers THEN "lockWrite" ELSE "close"
  BY DEF Call
<1>2. l \in Labels /\ Place(p, l) /\ ~Holds(p, l) /\ p # "readLoop"
  BY <1>1, Kinds DEF Labels, Place, Holds, Call
<1> QED
  BY <1>1, <1>2, QuietMove DEF Call, IInv, TypeOK

\* terminate, from abort and from closeGracefully: the first caller's reason is
\* recorded, and it alone goes on; anybody else returns.
LEMMA TerminateOK ==
  ASSUME IInv, NEW p \in Procs, NEW l, NEW m, terminate(p, l, m),
         \/ pc[p] = "abort" /\ l = "closeTr" /\ m = AfterAbort(p)
         \/ pc[p] = "close" /\ l = "expire" /\ m = AfterClose(p),
         UNCHANGED <<ready, tr, forced, writeMu, wake, readErr, sent, told>>
  PROVE  IInv'
<1>1. l \in Labels /\ m \in Labels
  BY DEF Labels, AfterAbort, AfterClose
<1>2. TypeOK'
  BY <1>1, TerminateType DEF IInv, TypeOK
<1>3. pc \in [Procs -> Labels] /\ Place(p, pc[p])
  BY DEF IInv, TypeOK
<1>4. CASE closeErr = None
  <2>1. closeErr' = Reason(p) /\ closeErr' # None /\ Reason(p)' = Reason(p)
    BY <1>4, ReasonType DEF terminate, Reason
  <2>2. pc' = [pc EXCEPT ![p] = l]
    BY <1>4 DEF terminate, Goto
  <2>3. pc'[p] = l /\ \A q \in Procs : q # p => pc'[q] = pc[q]
    BY <1>3, <2>2
  <2>4. \A q \in Procs : ~Ending(pc[q])
    BY <1>4, EndingClosed
  <2>5. sent # "close" /\ told = None /\ tr.deadline = "none"
    BY <1>4 DEF IInv, WireOK, TransportOK
  <2>6. (\A q \in Procs : Place(q, pc[q]))'
    BY <1>3, <2>3 DEF IInv, Place
  <2>7. (\A q \in Procs : EndingOK(q))'
    BY <2>1, <2>3, <2>4, <2>5 DEF EndingOK, Ending
  <2>8. (\A q \in Procs : Holds(q, pc[q]) => writeMu = q)'
    BY <2>2, LockMove DEF Holds
  <2>9. (\A q, r \in Procs : Ending(pc[q]) /\ Ending(pc[r]) => q = r)'
    BY <2>3, <2>4
  <2>10. ReaderOK'
    BY <2>1, <2>3, Kinds DEF IInv, ReaderOK
  <2>11. WireOK'
    BY <2>3, <2>5, Kinds DEF IInv, WireOK, WriteFails
  <2>12. TransportOK' /\ HandshakeOnce'
    BY <1>4, <2>1, <2>5 DEF IInv, TypeOK, TransportOK, HandshakeOnce, terminate
  <2> QED
    BY <1>2, <2>6, <2>7, <2>8, <2>9, <2>10, <2>11, <2>12 DEF IInv
<1>5. CASE closeErr # None
  <2>1. pc' = [pc EXCEPT ![p] = m] /\ UNCHANGED <<closeErr, handshake>>
    BY <1>5 DEF terminate, Goto
  <2>2. Place(p, m) /\ ~Ending(m) /\ m \notin {"params", "write", "shutdown", "giveUp", "closeTr", "abort", "close"}
    BY <1>3, Kinds DEF Place, Ending, AfterAbort, AfterClose
  <2>3. Holds(p, m) => Holds(p, pc[p])
    BY DEF Holds, AfterAbort, AfterClose
  <2>4. TransportOK' /\ (WriteFails => WriteFails')
    BY <2>1 DEF IInv, TransportOK, WriteFails
  <2> QED
    BY <1>1, <1>2, <1>5, <2>1, <2>2, <2>3, <2>4, Move
<1> QED
  BY <1>4, <1>5

\* Closing the transport on the way out: abort, readLoop's deferred close, and
\* closeGracefully when it gives up.
LEMMA CloseMove ==
  ASSUME IInv, NEW p \in Procs, NEW l \in {"unlock", "end", "done", "read"}, Goto(p, l),
         tr' = [tr EXCEPT !.open = FALSE], forced' \in {"off", "armed", "fired"},
         UNCHANGED <<closeErr, ready, handshake, writeMu, wake, readErr, sent, told>>,
         Place(p, l), Holds(p, l) => Holds(p, pc[p]), pc[p] # "params",
         p = "readLoop" /\ l \in {"end", "done"} => closeErr # None
  PROVE  IInv'
<1>1. l \in Labels
  BY DEF Labels
<1>2. TypeOK'
  BY <1>1, PcType, TransportType DEF IInv, TypeOK
<1>3. TransportOK' /\ (WriteFails => WriteFails') /\ tr'.deadline = tr.deadline
  BY DEF IInv, TypeOK, Transport, TransportOK, WriteFails
<1> QED
  BY <1>1, <1>2, <1>3, Move DEF Goto, Ending

\* abort's second half closes the transport.
LEMMA AbortTransportOK == ASSUME IInv, NEW p \in Procs, AbortTransport(p) PROVE IInv'
<1>1. Place(p, "closeTr") /\ closeErr # None
  BY DEF IInv, AbortTransport, EndingOK
<1>2. Place(p, AfterAbort(p)) /\ (Holds(p, AfterAbort(p)) => Holds(p, pc[p]))
  BY <1>1, Kinds DEF Place, Holds, AfterAbort, AbortTransport
<1>3. AfterAbort(p) \in {"unlock", "end", "done", "read"}
  BY DEF AfterAbort
<1> QED
  BY <1>1, <1>2, <1>3, CloseMove DEF AbortTransport, IInv, TypeOK

\* readLoop's deferred close.
LEMMA ReadEndsOK == ASSUME IInv, ReadEnds PROVE IInv'
<1>1. closeErr # None
  BY DEF IInv, ReaderOK, ReadEnds
<1>2. Place("readLoop", "done") /\ ~Holds("readLoop", "done")
  BY Kinds DEF Place, Holds
<1> QED
  BY <1>1, <1>2, Kinds, CloseMove DEF ReadEnds, IInv, TypeOK

\* closeGracefully gives up.
LEMMA GiveUpOK == ASSUME IInv, NEW p \in Procs, GiveUp(p) PROVE IInv'
<1>1. Place(p, AfterClose(p)) /\ ~Holds(p, AfterClose(p))
  BY Kinds DEF Place, Holds, AfterClose
<1>2. AfterClose(p) \in {"unlock", "end", "done", "read"} /\ (p = "readLoop" => AfterClose(p) = "read")
  BY DEF AfterClose
<1>3. forced' \in {"off", "armed", "fired"}
  BY DEF GiveUp, IInv, TypeOK
<1> QED
  BY <1>1, <1>2, <1>3, CloseMove DEF GiveUp

\* closeGracefully's closeWrite.
LEMMA ShutDownOK == ASSUME IInv, NEW p \in Procs, ShutDown(p) PROVE IInv'
<1>1. closeErr # None /\ Place(p, "shutdown")
  BY DEF IInv, EndingOK, ShutDown
<1>2. PICK l \in {AfterClose(p), "giveUp"} :
        /\ Goto(p, l)
        /\ tr' = tr \/ tr' = [tr EXCEPT !.sendDown = TRUE]
  BY DEF ShutDown
<1>3. l \in Labels /\ Place(p, l) /\ ~Holds(p, l) /\ ~Ending(l)
      /\ l \notin {"params", "write", "abort", "close", "closeTr"}
      /\ (p = "readLoop" => l \in {"read", "giveUp"})
  BY <1>1, <1>2, Kinds DEF Labels, Place, Holds, Ending, AfterClose
<1>4. TypeOK'
  <2>1. tr' \in Transport
    BY <1>2, TransportType DEF IInv, TypeOK
  <2>2. pc' \in [Procs -> Labels]
    BY <1>2, <1>3, PcType DEF IInv
  <2> QED
    BY <2>1, <2>2 DEF IInv, TypeOK, ShutDown
<1>5. TransportOK' /\ (WriteFails => WriteFails') /\ tr'.deadline = tr.deadline
  BY <1>2 DEF IInv, TypeOK, Transport, TransportOK, WriteFails, ShutDown
<1> QED
  BY <1>1, <1>2, <1>3, <1>4, <1>5, Move DEF Goto, ShutDown

\* The first step of closeGracefully after terminate.  No write that failed
\* succeeds again, because the deadline had not been set before.
LEMMA ExpireOK == ASSUME IInv, NEW p \in Procs, Expire(p) PROVE IInv'
<1>1. /\ Ending(pc[p]) /\ closeErr = Reason(p) /\ closeErr # None
      /\ sent # "close" /\ told = None /\ tr.deadline = "none" /\ Place(p, "expire")
  BY EndingClosed DEF IInv, EndingOK, Ending, Expire, WireOK
<1>2. PICK l \in {"lockClose", "shutdown"} : pc' = [pc EXCEPT ![p] = l]
  BY DEF Expire, Goto
<1>3. pc \in [Procs -> Labels] /\ l \in Labels
  BY DEF IInv, TypeOK, Labels
<1>4. pc'[p] = l /\ \A q \in Procs : q # p => pc'[q] = pc[q]
  BY <1>2, <1>3
<1>5. PICK d \in {"none", "set", "passed"} : d # "passed" /\ tr' = [tr EXCEPT !.deadline = d]
  BY <1>1 DEF Expire
<1>6. TypeOK'
  BY <1>2, <1>3, <1>5, TransportType DEF IInv, TypeOK, Expire
<1>7. TransportOK' /\ (WriteFails => WriteFails')
  BY <1>1, <1>5 DEF IInv, TypeOK, Transport, TransportOK, WriteFails, Expire
<1>8. \A q \in Procs : q # p => ~Ending(pc[q])
  BY <1>1 DEF IInv
<1>9. (\A q \in Procs : Place(q, pc[q]))'
  BY <1>1, <1>4 DEF IInv, Place
<1>10. Reason(p)' = Reason(p)
  BY DEF Reason, Expire
<1>11. (\A q \in Procs : EndingOK(q))'
  BY <1>1, <1>4, <1>8, <1>10 DEF IInv, EndingOK, Ending, Expire
<1>12. (\A q \in Procs : Holds(q, pc[q]) => writeMu = q)'
  BY <1>2, LockMove DEF Holds, Expire
<1>13. (\A q, r \in Procs : Ending(pc[q]) /\ Ending(pc[r]) => q = r)'
  BY <1>4, <1>8
<1>14. ReaderOK'
  BY <1>1, <1>4, Kinds DEF IInv, ReaderOK, Expire
<1>15. WireOK'
  BY <1>1, <1>4, <1>7, Kinds DEF IInv, WireOK, Expire
<1>16. HandshakeOnce'
  BY DEF IInv, HandshakeOnce, Expire
<1> QED
  BY <1>6, <1>7, <1>9, <1>11, <1>12, <1>13, <1>14, <1>15, <1>16 DEF IInv

\* The lock for CONNECTION_CLOSE.
LEMMA LockCloseOK == ASSUME IInv, NEW p \in Procs, LockClose(p) PROVE IInv'
<1>1. Ending(pc[p]) /\ Place(p, "lockClose")
  BY DEF IInv, Ending, LockClose
<1>2. pc' = [pc EXCEPT ![p] = "writeClose"] /\ "writeClose" \in Labels
  BY DEF LockClose, Goto, Labels
<1>3. pc \in [Procs -> Labels]
  BY DEF IInv, TypeOK
<1>4. pc'[p] = "writeClose" /\ \A q \in Procs : q # p => pc'[q] = pc[q]
  BY <1>2, <1>3
<1>5. TypeOK'
  BY <1>2, <1>3 DEF IInv, TypeOK, LockClose
<1>6. (\A q \in Procs : Place(q, pc[q]))'
  BY <1>1, <1>4 DEF IInv, Place
<1>7. (\A q \in Procs : EndingOK(q))'
  BY <1>1, <1>4 DEF IInv, EndingOK, Ending, Reason, LockClose
<1>8. (\A q \in Procs : Holds(q, pc[q]) => writeMu = q)'
  BY <1>2, LockMove DEF LockClose
<1>9. (\A q, r \in Procs : Ending(pc[q]) /\ Ending(pc[r]) => q = r)'
  BY <1>1, <1>4 DEF IInv
<1>10. ReaderOK' /\ TransportOK' /\ HandshakeOnce'
  BY <1>4, Kinds DEF IInv, ReaderOK, TransportOK, HandshakeOnce, LockClose
<1>11. WireOK'
  BY <1>4, Kinds DEF IInv, WireOK, WriteFails, LockClose
<1> QED
  BY <1>5, <1>6, <1>7, <1>8, <1>9, <1>10, <1>11 DEF IInv

\* CONNECTION_CLOSE goes out: with the lock, so that nobody is in a write, and
\* with the reason that was recorded.
LEMMA WriteCloseOK == ASSUME IInv, NEW p \in Procs, WriteClose(p) PROVE IInv'
<1>1. /\ Ending(pc[p]) /\ closeErr = Reason(p) /\ closeErr # None
      /\ sent # "close" /\ told = None /\ Place(p, "writeClose") /\ writeMu = p
  BY EndingClosed DEF IInv, EndingOK, Ending, WriteClose, WireOK, Holds
<1>2. PICK l \in {"shutdown", "giveUp"} : pc' = [pc EXCEPT ![p] = l]
  BY DEF WriteClose, Goto
<1>3. pc \in [Procs -> Labels] /\ l \in Labels
  BY DEF IInv, TypeOK, Labels
<1>4. pc'[p] = l /\ \A q \in Procs : q # p => pc'[q] = pc[q]
  BY <1>2, <1>3
<1>5. \A q \in Procs : q # p => ~Ending(pc[q]) /\ pc[q] \notin {"params", "write"}
  BY <1>1 DEF IInv, Holds
<1>6. \/ writeRecord("close") /\ told' = closeErr
      \/ WriteFails /\ UNCHANGED <<tr, sent, told>>
  BY <1>1 DEF WriteClose
<1>7. told' \in Reasons \cup {None} /\ tr' \in Transport
      /\ sent' \in {"nothing", "params", "close", "broken"}
  BY <1>6, WriteType DEF IInv, TypeOK
<1>8. TypeOK'
  BY <1>2, <1>3, <1>7 DEF IInv, TypeOK, WriteClose
<1>9. TransportOK' /\ (WriteFails => WriteFails') /\ tr'.deadline = tr.deadline
  BY <1>6 DEF IInv, TypeOK, Transport, TransportOK, WriteFails, WriteClose, writeRecord
<1>10. (\A q \in Procs : Place(q, pc[q]))'
  BY <1>1, <1>4 DEF IInv, Place
<1>11. (\A q \in Procs : EndingOK(q))'
  BY <1>1, <1>4, <1>5, <1>9 DEF IInv, EndingOK, Ending, WriteClose
<1>12. (\A q \in Procs : Holds(q, pc[q]) => writeMu = q)'
  BY <1>1, <1>2, LockMove, Kinds DEF Holds, WriteClose, Place
<1>13. (\A q, r \in Procs : Ending(pc[q]) /\ Ending(pc[r]) => q = r)'
  BY <1>4, <1>5 DEF Ending
<1>14. ReaderOK' /\ HandshakeOnce'
  BY <1>1, <1>4, Kinds DEF IInv, ReaderOK, HandshakeOnce, WriteClose
<1>15. WireOK'
  <2>1. "writeLoop" # p /\ pc["writeLoop"] # "params"
    BY <1>1, <1>5, Kinds DEF Place
  <2>2. CASE writeRecord("close") /\ told' = closeErr
    <3>1. sent = "params"
      BY <1>1, <2>1, <2>2 DEF IInv, TypeOK, WireOK, writeRecord, WriteSucceeds
    <3>2. sent' = "close"
      BY <2>2, <3>1 DEF writeRecord, Follow
    <3> QED
      BY <1>1, <1>4, <1>5, <2>1, <2>2, <3>2, Kinds DEF WireOK, WriteClose
  <2>3. CASE WriteFails /\ UNCHANGED <<tr, sent, told>>
    BY <1>1, <1>4, <1>9, <2>1, <2>3, Kinds DEF IInv, WireOK, WriteClose
  <2> QED
    BY <1>6, <2>2, <2>3
<1> QED
  BY <1>8, <1>9, <1>10, <1>11, <1>12, <1>13, <1>14, <1>15 DEF IInv

\* A record of parameters or frames goes out: whoever writes it holds the lock,
\* has read closeErr since it took it, and comes after the parameters.
LEMMA WriteMove ==
  ASSUME IInv, NEW p \in Procs, NEW kind, NEW l \in {"select", "done", "write"},
         \/ kind = "params" /\ pc[p] = "params" /\ l = "select"
         \/ kind = "frames" /\ pc[p] = "write",
         writeRecord(kind), pc' = [pc EXCEPT ![p] = l], p # "writeLoop" => l = "done",
         writeMu' = IF l = "write" THEN writeMu ELSE Nobody,
         UNCHANGED <<closeErr, ready, handshake, forced, wake, readErr, told>>
  PROVE  IInv'
<1>1. /\ pc \in [Procs -> Labels] /\ l \in Labels /\ writeMu = p
      /\ p \in Writers \cup {"writeLoop"}
  BY DEF IInv, TypeOK, Labels, Holds, Place
<1>2. pc'[p] = l /\ \A q \in Procs : q # p => pc'[q] = pc[q]
  BY <1>1
<1>3. tr' \in Transport /\ sent' \in {"nothing", "params", "close", "broken"}
  BY WriteType DEF IInv
<1>4. TypeOK'
  BY <1>1, <1>3, PcType DEF IInv, TypeOK, Goto
<1>5. TransportOK' /\ (WriteFails => WriteFails') /\ tr'.deadline = tr.deadline
  BY DEF IInv, TypeOK, Transport, TransportOK, WriteFails, writeRecord
<1>6. \A q \in Procs : q # p => pc[q] \notin {"params", "write", "writeClose"}
  BY <1>1 DEF IInv, Holds
<1>7. sent' = "params" /\ sent # "close"
  <2>1. CASE kind = "params"
    BY <2>1 DEF IInv, WireOK, writeRecord, Follow, Place
  <2>2. CASE kind = "frames"
    <3>1. pc["writeLoop"] # "params"
      BY <1>6, <2>2, Kinds
    <3>2. sent = "params"
      BY <2>2, <3>1 DEF IInv, TypeOK, WireOK, writeRecord, WriteSucceeds
    <3> QED
      BY <2>2, <3>2 DEF writeRecord, Follow
  <2> QED
    BY <2>1, <2>2
<1>8. (\A q \in Procs : Place(q, pc[q]))'
  BY <1>1, <1>2, Kinds DEF IInv, Place
<1>9. (\A q \in Procs : EndingOK(q))'
  BY <1>2, <1>5, <1>7 DEF IInv, EndingOK, Ending, Reason
<1>10. (\A q \in Procs : Holds(q, pc[q]) => writeMu = q)'
  BY LockMove DEF Holds
<1>11. (\A q, r \in Procs : Ending(pc[q]) /\ Ending(pc[r]) => q = r)'
  BY <1>2 DEF IInv, Ending
<1>12. ReaderOK' /\ HandshakeOnce'
  BY <1>1, <1>2, Kinds DEF IInv, ReaderOK, HandshakeOnce
<1>13. pc'["writeLoop"] # "params"
  BY <1>2, <1>6, Kinds
<1>14. WireOK'
  BY <1>7, <1>13 DEF IInv, WireOK
<1> QED
  BY <1>4, <1>5, <1>8, <1>9, <1>10, <1>11, <1>12, <1>14 DEF IInv

\* A write that fails sends its goroutine to abort.
LEMMA FailMove ==
  ASSUME IInv, NEW p \in Procs, pc[p] \in {"params", "write"}, WriteFails,
         pc' = [pc EXCEPT ![p] = "abort"],
         writeMu' = IF p = "writeLoop" THEN Nobody ELSE writeMu,
         UNCHANGED <<closeErr, ready, handshake, forced, wake, readErr, told, tr, sent>>
  PROVE  IInv'
<1>1. "abort" \in Labels /\ p \in Writers \cup {"writeLoop"}
  BY DEF Labels, IInv, Place
<1>2. TypeOK'
  BY <1>1, PcType DEF IInv, TypeOK, Goto
<1>3. TransportOK' /\ WriteFails'
  BY DEF IInv, TransportOK, WriteFails
<1>4. Place(p, "abort") /\ (p = "writeLoop" => ~Holds(p, "abort"))
      /\ (p # "writeLoop" => Holds(p, "abort")) /\ Holds(p, pc[p]) /\ p # "readLoop"
  BY <1>1, Kinds DEF Place, Holds
<1> QED
  BY <1>1, <1>2, <1>3, <1>4, Move DEF Ending

\* The transport parameters.
LEMMA sendParametersOK == ASSUME IInv, sendParameters PROVE IInv'
<1>1. CASE writeRecord("params") /\ Goto("writeLoop", "select")
  BY <1>1, WriteMove, Kinds DEF sendParameters, Goto
<1>2. CASE WriteFails /\ Goto("writeLoop", "abort") /\ UNCHANGED <<tr, sent>>
  BY <1>2, FailMove, Kinds DEF sendParameters, Goto
<1> QED
  BY <1>1, <1>2 DEF sendParameters

\* A record of frames, of the application or of the write loop.
LEMMA WriteOK == ASSUME IInv, NEW p \in Procs, Write(p) PROVE IInv'
<1>1. CASE writeRecord("frames") /\ p = "writeLoop" /\ UNCHANGED <<pc, writeMu>>
  <2>1. pc' = [pc EXCEPT ![p] = "write"]
    BY <1>1 DEF IInv, TypeOK, Write
  <2> QED
    BY <1>1, <2>1, WriteMove DEF Write
<1>2. CASE /\ writeRecord("frames")
           /\ Goto(p, IF p = "writeLoop" THEN "select" ELSE "done")
           /\ writeMu' = Nobody
  BY <1>2, WriteMove DEF Write, Goto
<1>3. CASE /\ WriteFails /\ Goto(p, "abort")
           /\ writeMu' = IF p = "writeLoop" THEN Nobody ELSE writeMu
           /\ UNCHANGED <<tr, sent>>
  BY <1>3, FailMove DEF Write, Goto
<1> QED
  BY <1>1, <1>2, <1>3 DEF Write

\* The lock for a record of frames.
LEMMA LockWriteOK == ASSUME IInv, NEW p \in Procs, LockWrite(p) PROVE IInv'
<1>1. p \in Writers \cup {"writeLoop"} /\ p # "readLoop"
  BY Kinds DEF IInv, Place, LockWrite
<1>2. CASE closeErr = None /\ writeMu' = p /\ Goto(p, "write")
  <2>1. "write" \in Labels /\ Place(p, "write")
    BY <1>1 DEF Labels, Place
  <2>2. TypeOK'
    BY <1>2, <2>1, PcType DEF IInv, TypeOK, LockWrite
  <2>3. TransportOK' /\ (WriteFails => WriteFails')
    BY DEF IInv, TransportOK, WriteFails, LockWrite
  <2> QED
    BY <1>1, <1>2, <2>1, <2>2, <2>3, Move DEF LockWrite, Goto, Ending
<1>3. CASE /\ Goto(p, IF p = "writeLoop" THEN "select" ELSE "done")
           /\ UNCHANGED writeMu
  <2>1. PICK l \in {"select", "done"} : Goto(p, l)
    BY <1>3
  <2>2. l \in Labels /\ Place(p, l) /\ ~Holds(p, l)
    BY <2>1 DEF Labels, Place, Holds
  <2> QED
    BY <1>1, <1>3, <2>1, <2>2, QuietMove DEF LockWrite, IInv, TypeOK
<1> QED
  BY <1>2, <1>3 DEF LockWrite

\* A writer that aborted releases the lock.
LEMMA UnlockOK == ASSUME IInv, NEW p \in Procs, Unlock(p) PROVE IInv'
<1>1. p \in Writers /\ Holds(p, pc[p]) /\ p # "readLoop"
  BY Kinds DEF IInv, Place, Unlock, Holds
<1>2. "done" \in Labels /\ Place(p, "done") /\ ~Holds(p, "done")
  BY DEF Labels, Place, Holds
<1>3. TypeOK'
  BY <1>2, PcType DEF IInv, TypeOK, Unlock
<1>4. TransportOK' /\ (WriteFails => WriteFails')
  BY DEF IInv, TransportOK, WriteFails, Unlock
<1> QED
  BY <1>1, <1>2, <1>3, <1>4, Move DEF Unlock, Goto, Ending

\* The read loop takes what the transport returned: a record, an oversized
\* one, or an error.
LEMMA ReadMove ==
  ASSUME IInv, NEW l \in {"read", "close", "abort"}, Goto("readLoop", l),
         pc["readLoop"] = "read", readErr' \in Reasons \cup {None},
         l # "read" => readErr' # None, ready' \in BOOLEAN, handshake' \in Nat,
         wake' \in BOOLEAN, HandshakeOnce',
         UNCHANGED <<closeErr, tr, forced, writeMu, sent, told>>
  PROVE  IInv'
<1>1. pc \in [Procs -> Labels] /\ l \in Labels
  BY DEF IInv, TypeOK, Labels
<1>2. pc' = [pc EXCEPT !["readLoop"] = l]
  BY DEF Goto
<1>3. pc'["readLoop"] = l /\ \A q \in Procs : q # "readLoop" => pc'[q] = pc[q]
  BY <1>1, <1>2, Kinds
<1>4. TypeOK'
  BY <1>1, PcType, Kinds DEF IInv, TypeOK
<1>5. (\A q \in Procs : Place(q, pc[q]))'
  BY <1>3 DEF IInv, Place
<1>6. \A q \in Procs : q # "readLoop" => Reason(q)' = Reason(q)
  BY DEF Reason
<1>7. (\A q \in Procs : EndingOK(q))'
  BY <1>3, <1>6 DEF IInv, EndingOK, Ending
<1>8. (\A q \in Procs : Holds(q, pc[q]) => writeMu = q)'
  BY <1>2, LockMove, Kinds DEF Holds
<1>9. (\A q, r \in Procs : Ending(pc[q]) /\ Ending(pc[r]) => q = r)'
  BY <1>3 DEF IInv, Ending
<1>10. ReaderOK'
  BY <1>3 DEF ReaderOK
<1>11. WireOK' /\ TransportOK'
  BY <1>3, Kinds DEF IInv, WireOK, WriteFails, TransportOK
<1> QED
  BY <1>4, <1>5, <1>7, <1>8, <1>9, <1>10, <1>11 DEF IInv

\* A record over the limit.
LEMMA ReadOversizedOK == ASSUME IInv, ReadOversized PROVE IInv'
BY ReadMove, LifecycleAssumption DEF ReadOversized, IInv, TypeOK, HandshakeOnce, Reasons

\* The transport returns an error.
LEMMA ReadFailsOK == ASSUME IInv, ReadFails PROVE IInv'
BY ReadMove, LifecycleAssumption DEF ReadFails, IInv, TypeOK, HandshakeOnce, Reasons

\* A record's frames.
LEMMA ReadRecordOK == ASSUME IInv, NEW rec \in Records, ReadRecord(rec) PROVE IInv'
<1> DEFINE s == handleRecord(rec)
<1>1. s.ready \in BOOLEAN /\ (ready => s.ready) /\ s.end \in {None, "violation", "peer"}
  BY RecordType DEF IInv
<1>2. {"violation", "peer"} \subseteq Reasons /\ None \notin Reasons
  BY LifecycleAssumption DEF Reasons
<1> HIDE DEF s
<1>3. PICK l \in {"read", "close", "abort"} :
        Goto("readLoop", l) /\ (l # "read" => s.end # None)
  <2>1. pc' = [pc EXCEPT !["readLoop"] = CASE s.end = None -> "read"
                                           [] s.end = "violation" -> "close"
                                           [] OTHER -> "abort"]
    BY DEF ReadRecord, Goto, s
  <2>2. CASE s.end = None
    <3>1. Goto("readLoop", "read")
      BY <1>2, <2>1, <2>2 DEF Goto
    <3> QED
      BY <3>1
  <2>3. CASE s.end = "violation"
    <3>1. Goto("readLoop", "close")
      BY <1>2, <2>1, <2>3 DEF Goto
    <3> QED
      BY <1>2, <2>3, <3>1
  <2>4. CASE s.end = "peer"
    <3>1. Goto("readLoop", "abort")
      BY <1>2, <2>1, <2>4 DEF Goto
    <3> QED
      BY <1>2, <2>4, <3>1
  <2> QED
    BY <1>1, <2>2, <2>3, <2>4
<1>4. /\ ready' = s.ready /\ readErr' = s.end /\ wake' \in BOOLEAN /\ closeErr = None
      /\ handshake' = IF s.ready # ready THEN handshake + 1 ELSE handshake
      /\ UNCHANGED <<closeErr, tr, forced, writeMu, sent, told>> /\ pc["readLoop"] = "read"
  BY DEF ReadRecord, s, IInv, TypeOK
<1>5. HandshakeOnce' /\ handshake' \in Nat
  <2>1. handshake = (IF ready THEN 1 ELSE 0) /\ ready \in BOOLEAN
    BY <1>4 DEF IInv, TypeOK, HandshakeOnce
  <2>2. handshake' = IF s.ready THEN 1 ELSE 0
    BY <1>1, <1>4, <2>1
  <2> QED
    BY <1>1, <1>4, <2>2 DEF HandshakeOnce
<1>6. readErr' \in Reasons \cup {None} /\ (l # "read" => readErr' # None)
  BY <1>1, <1>2, <1>3, <1>4
<1> QED
  BY <1>1, <1>3, <1>4, <1>5, <1>6, ReadMove
-----------------------------------------------------------------------------
\* The initial states satisfy the invariant: newConn holds the lock for the
\* write loop.
LEMMA Initially == ASSUME Init PROVE IInv
<1>1. PICK c \in Cases :
        /\ tr = [can |-> c.can, fate |-> c.fate, open |-> TRUE, sendDown |-> FALSE,
                 link |-> "up", deadline |-> "none", unread |-> 0]
        /\ pc = [p \in Procs |-> CASE p = "writeLoop" -> "params"
                                   [] p = "readLoop" -> "read"
                                   [] p = "idleLoop" -> "handshake"
                                   [] p = "keepAliveLoop" /\ c.keepAlive -> "tick"
                                   [] p = "start" -> "wait"
                                   [] p \in c.calls -> "idle"
                                   [] OTHER -> "done"]
  BY DEF Init
<1>2. c.can \in Transports /\ c.fate \in Links /\ c.calls \subseteq Writers \cup Closers
      /\ WireCap \in Nat
  BY LifecycleAssumption
<1>3. tr \in Transport
  <2>1. "up" \in Links
    BY DEF Links
  <2> QED
    BY <1>1, <1>2, <2>1 DEF Transport
<1>4. \A p \in Procs :
        /\ pc[p] \in {"params", "read", "handshake", "tick", "wait", "idle", "done"}
        /\ pc[p] = "params" <=> p = "writeLoop"
        /\ pc[p] = "read" <=> p = "readLoop"
  BY <1>1, <1>2, Kinds
<1>5. pc \in [Procs -> Labels]
  BY <1>1, <1>4 DEF Labels
<1>6. TypeOK
  BY <1>3, <1>5, Kinds DEF Init, TypeOK
<1>7. TransportOK /\ HandshakeOnce /\ tr.deadline = "none"
  BY <1>1 DEF Init, TransportOK, HandshakeOnce
<1>8. \A p \in Procs : Place(p, pc[p]) /\ EndingOK(p)
  BY <1>4 DEF Place, EndingOK, Ending
<1>9. \A p \in Procs : Holds(p, pc[p]) => writeMu = p
  BY <1>4 DEF Holds, Init
<1>10. ReaderOK /\ WireOK
  BY <1>4, Kinds DEF ReaderOK, WireOK, Init
<1> QED
  BY <1>4, <1>6, <1>7, <1>8, <1>9, <1>10 DEF IInv, Ending

\* Every step of a goroutine preserves the invariant.
LEMMA StepOK == ASSUME IInv, NEW p \in Procs, Step(p) PROVE IInv'
<1>1. CASE Abort(p) \/ closeGracefully(p)
  BY <1>1, TerminateOK DEF Abort, closeGracefully
<1>2. CASE AbortTransport(p) \/ Expire(p) \/ LockClose(p) \/ WriteClose(p) \/ ShutDown(p) \/ GiveUp(p)
  BY <1>2, AbortTransportOK, ExpireOK, LockCloseOK, WriteCloseOK, ShutDownOK, GiveUpOK
<1>3. CASE LockWrite(p) \/ Write(p) \/ Unlock(p)
  BY <1>3, LockWriteOK, WriteOK, UnlockOK
<1>4. CASE sendParameters \/ writeLoop \/ ReadFails \/ ReadEnds
  BY <1>4, sendParametersOK, writeLoopOK, ReadFailsOK, ReadEndsOK
<1>5. CASE idleLoop \/ keepAliveLoop \/ start
  BY <1>5, idleLoopOK, keepAliveLoopOK, startOK
<1> QED
  BY <1>1, <1>2, <1>3, <1>4, <1>5 DEF Step

\* Every step preserves the invariant.
LEMMA Inductive == IInv /\ [Next]_vars => IInv'
<1> SUFFICES ASSUME IInv, [Next]_vars PROVE IInv'
  OBVIOUS
<1>1. CASE \E p \in Procs : Step(p) \/ Call(p)
  BY <1>1, StepOK, CallOK
<1>2. CASE (\E rec \in Records : ReadRecord(rec)) \/ ReadOversized
  BY <1>2, ReadRecordOK, ReadOversizedOK
<1>3. CASE HandshakeTimeout \/ IdleTimeout \/ PingTimeout
  BY <1>3, TimesOutOK DEF HandshakeTimeout, IdleTimeout, PingTimeout
<1>4. CASE requestPing \/ Cancel
  BY <1>4, requestPingOK, CancelOK
<1>5. CASE Environment \/ DeadlinePasses \/ ForcedClose
  BY <1>5, EnvironmentOK, DeadlinePassesOK, ForcedCloseOK
<1>6. CASE UNCHANGED vars
  <2>1. TypeOK' /\ TransportOK' /\ (WriteFails => WriteFails')
    BY <1>6 DEF vars, IInv, TypeOK, TransportOK, WriteFails
  <2> QED
    BY <1>6, <2>1, TransportChange DEF vars
<1> QED
  BY <1>1, <1>2, <1>3, <1>4, <1>5, <1>6 DEF Next

\* The invariant holds throughout.
THEOREM Invariant == Spec => []IInv
BY Initially, Inductive, PTL DEF Spec

\* The transport parameters come first and nothing follows CONNECTION_CLOSE,
\* for any number of writers and closers and any transport.
THEOREM WireOrderHolds == Spec => []WireOrder
<1>1. IInv => WireOrder
  BY DEF IInv, WireOK, WireOrder
<1> QED
  BY <1>1, Invariant, PTL

\* The handshake channel is closed exactly once, when the parameters are in or
\* the connection has ended, whichever of the two comes first.
THEOREM HandshakeOnceHolds == Spec => []HandshakeOnce
<1>1. IInv => HandshakeOnce
  BY DEF IInv
<1> QED
  BY <1>1, Invariant, PTL
-----------------------------------------------------------------------------
\* What a step may change of the life of the connection: it ends once, by a
\* goroutine that has a reason, and not while the read loop is done; the peer
\* is told the recorded reason, over an open transport; Dial succeeds only on a
\* connection that has not ended; and a transport that was closed, a loop that
\* returned and a Dial that succeeded stay so.
Lives ==
  /\ \/ closeErr' = closeErr
     \/ /\ closeErr = None /\ closeErr' \in Reasons /\ closeErr' # None
        /\ pc'["readLoop"] # "done" /\ UNCHANGED told
  /\ \/ told' = told
     \/ /\ told = None /\ told' = closeErr /\ closeErr # None /\ UNCHANGED closeErr
        /\ tr.open /\ tr'.open
  /\ ~tr.open => ~tr'.open
  /\ \A p \in Procs : pc[p] = "done" => pc'[p] = "done"
  /\ pc["start"] = "returned" => pc'["start"] = "returned"
  /\ pc'["start"] = "returned" =>
       pc["start"] = "returned" \/ (closeErr = None /\ UNCHANGED <<closeErr, told>>)

\* A move that neither ends the connection nor tells the peer.
LEMMA LivesMove ==
  ASSUME IInv, NEW p \in Procs, NEW l, Goto(p, l), pc[p] \notin {"done", "returned"},
         UNCHANGED <<closeErr, told>>, ~tr.open => ~tr'.open,
         l = "returned" => closeErr = None
  PROVE  Lives
<1>1. pc \in [Procs -> Labels]
  BY DEF IInv, TypeOK
<1>2. pc'[p] = l /\ \A q \in Procs : q # p => pc'[q] = pc[q]
  BY <1>1 DEF Goto
<1> QED
  BY <1>2, Kinds DEF Lives

\* terminate.
LEMMA LivesTerminate ==
  ASSUME IInv, NEW p \in Procs, NEW l \in {"closeTr", "expire"}, NEW m, terminate(p, l, m),
         pc[p] \in {"abort", "close"}, m # "returned", UNCHANGED <<tr, told>>
  PROVE  Lives
<1>1. CASE closeErr # None
  BY <1>1, LivesMove DEF terminate
<1>2. CASE closeErr = None
  <2>1. pc \in [Procs -> Labels]
    BY DEF IInv, TypeOK
  <2>2. pc' = [pc EXCEPT ![p] = l] /\ closeErr' = Reason(p)
    BY <1>2 DEF terminate, Goto
  <2>3. pc'[p] = l /\ \A q \in Procs : q # p => pc'[q] = pc[q]
    BY <2>1, <2>2
  <2>4. pc["readLoop"] # "done" /\ Reason(p) \in Reasons /\ Reason(p) # None
    BY <1>2, ReasonType DEF IInv, ReaderOK
  <2>5. /\ \A q \in Procs : pc[q] = "done" => pc'[q] = "done"
        /\ pc["start"] = "returned" <=> pc'["start"] = "returned"
        /\ pc'["readLoop"] # "done"
    BY <2>3, <2>4, Kinds
  <2> QED
    BY <1>2, <2>2, <2>4, <2>5 DEF Lives
<1> QED
  BY <1>1, <1>2

\* Every step of a goroutine.
LEMMA StepLives == ASSUME IInv, NEW p \in Procs, Step(p) PROVE Lives
<1>1. tr \in Transport /\ pc \in [Procs -> Labels]
  BY DEF IInv, TypeOK
<1>2. CASE Abort(p) \/ closeGracefully(p)
  BY <1>2, LivesTerminate DEF Abort, closeGracefully, AfterAbort, AfterClose
<1>3. CASE AbortTransport(p)
  BY <1>1, <1>3, LivesMove DEF AbortTransport, AfterAbort, Transport
<1>4. CASE Expire(p)
  BY <1>1, <1>4, LivesMove DEF Expire, Transport
<1>5. CASE LockClose(p)
  BY <1>5, LivesMove DEF LockClose
<1>6. CASE WriteClose(p)
  <2>1. CASE writeRecord("close") /\ told' = Reason(p) /\ Goto(p, "shutdown")
    <3>1. closeErr = Reason(p) /\ closeErr # None /\ told = None /\ pc[p] = "writeClose"
      BY <1>6, EndingClosed DEF IInv, EndingOK, Ending, WriteClose, WireOK
    <3>2. tr.open /\ tr'.open
      BY <1>1, <2>1 DEF writeRecord, WriteSucceeds, WriteFails, Transport
    <3>3. pc'[p] = "shutdown" /\ \A q \in Procs : q # p => pc'[q] = pc[q]
      BY <1>1, <2>1 DEF Goto
    <3>4. UNCHANGED closeErr
      BY <1>6 DEF WriteClose
    <3>5. /\ \A q \in Procs : pc[q] = "done" => pc'[q] = "done"
          /\ pc["start"] = "returned" <=> pc'["start"] = "returned"
      BY <3>1, <3>3, Kinds
    <3> QED
      BY <2>1, <3>1, <3>2, <3>4, <3>5 DEF Lives
  <2>2. CASE WriteFails /\ Goto(p, "giveUp") /\ UNCHANGED <<tr, sent, told>>
    BY <1>6, <2>2, LivesMove DEF WriteClose
  <2> QED
    BY <1>6, <2>1, <2>2 DEF WriteClose
<1>7. CASE ShutDown(p)
  <2>1. PICK l \in {AfterClose(p), "giveUp"} : Goto(p, l)
    BY <1>7 DEF ShutDown
  <2>2. ~tr.open => ~tr'.open
    BY <1>1, <1>7 DEF ShutDown, Transport
  <2> QED
    BY <1>7, <2>1, <2>2, LivesMove DEF ShutDown, AfterClose
<1>8. CASE GiveUp(p)
  BY <1>1, <1>8, LivesMove DEF GiveUp, AfterClose, Transport
<1>9. CASE LockWrite(p)
  <2>1. PICK l \in {"write", "select", "done"} : Goto(p, l)
    BY <1>9 DEF LockWrite
  <2> QED
    BY <1>9, <2>1, LivesMove DEF LockWrite
<1>10. CASE Write(p)
  <2>1. PICK l \in {"write", "select", "done", "abort"} : Goto(p, l)
    BY <1>1, <1>10 DEF Write, Goto
  <2>2. ~tr.open => ~tr'.open
    BY <1>10 DEF Write, writeRecord, WriteSucceeds, WriteFails
  <2> QED
    BY <1>10, <2>1, <2>2, LivesMove DEF Write
<1>11. CASE Unlock(p)
  BY <1>11, LivesMove DEF Unlock
<1>12. CASE sendParameters
  <2>1. PICK l \in {"select", "abort"} : Goto("writeLoop", l)
    BY <1>12 DEF sendParameters
  <2>2. ~tr.open => ~tr'.open
    BY <1>12 DEF sendParameters, writeRecord, WriteSucceeds, WriteFails
  <2> QED
    BY <1>12, <2>1, <2>2, LivesMove, Kinds DEF sendParameters
<1>13. CASE writeLoop
  BY <1>13, LivesMove, Kinds DEF writeLoop
<1>14. CASE ReadFails
  BY <1>14, LivesMove, Kinds DEF ReadFails
<1>15. CASE ReadEnds
  BY <1>1, <1>15, LivesMove, Kinds DEF ReadEnds, Transport
<1>16. CASE idleLoop
  BY <1>16, LivesMove, Kinds DEF idleLoop
<1>17. CASE keepAliveLoop
  BY <1>17, LivesMove, Kinds DEF keepAliveLoop
<1>18. CASE start
  <2>1. PICK l \in {"returned", "done"} : Goto("start", l) /\ (l = "returned" => closeErr = None)
    BY <1>18 DEF start
  <2> QED
    BY <1>18, <2>1, LivesMove, Kinds DEF start
<1> QED
  BY <1>2, <1>3, <1>4, <1>5, <1>6, <1>7, <1>8, <1>9, <1>10, <1>11, <1>12, <1>13, <1>14,
     <1>15, <1>16, <1>17, <1>18 DEF Step

\* Every step.
LEMMA NextLives == ASSUME IInv, [Next]_vars PROVE Lives
<1>1. tr \in Transport /\ pc \in [Procs -> Labels]
  BY DEF IInv, TypeOK
<1>2. CASE \E p \in Procs : Step(p)
  BY <1>2, StepLives
<1>3. CASE \E p \in Procs : Call(p)
  <2>1. PICK p \in Procs : Call(p)
    BY <1>3
  <2>2. PICK l \in {"lockWrite", "close"} : Goto(p, l)
    BY <2>1 DEF Call
  <2> QED
    BY <2>1, <2>2, LivesMove DEF Call
<1>4. CASE \E rec \in Records : ReadRecord(rec)
  <2>1. PICK rec \in Records : ReadRecord(rec)
    BY <1>4
  <2>2. PICK l \in {"read", "close", "abort"} : Goto("readLoop", l)
    BY <2>1, RecordType DEF ReadRecord, IInv
  <2> QED
    BY <2>1, <2>2, LivesMove, Kinds DEF ReadRecord
<1>5. CASE ReadOversized \/ Cancel
  BY <1>5, LivesMove, Kinds DEF ReadOversized, Cancel
<1>6. CASE HandshakeTimeout \/ IdleTimeout \/ PingTimeout
  BY <1>6, LivesMove, Kinds DEF HandshakeTimeout, IdleTimeout, PingTimeout, TimesOut
<1>7. CASE requestPing \/ UNCHANGED vars
  BY <1>7 DEF requestPing, vars, Lives
<1>8. CASE Environment \/ DeadlinePasses \/ ForcedClose
  BY <1>1, <1>8 DEF Environment, DeadlinePasses, ForcedClose, Lives, Transport
<1> QED
  BY <1>2, <1>3, <1>4, <1>5, <1>6, <1>7, <1>8 DEF Next

\* The connection implements Session for any number of goroutines and any
\* transport: it ends once, for one reason, and the peer is told that reason
\* or none.
THEOREM Refinement == Spec => ImplementsSession
<1>1. Init => Life!Init
  <2> SUFFICES ASSUME Init PROVE Life!Init
    OBVIOUS
  <2>1. IInv /\ closeErr = None /\ told = None
    BY Initially DEF Init
  <2>2. pc["start"] # "returned"
    BY Kinds, LifecycleAssumption DEF Init
  <2> QED
    BY <2>1, <2>2 DEF Life!Init, phase
<1>2. IInv /\ [Next]_vars => [Life!Next]_(Life!vars)
  <2> SUFFICES ASSUME IInv, [Next]_vars PROVE Life!Next \/ UNCHANGED Life!vars
    BY DEF Life!vars
  <2>1. Lives
    BY NextLives
  <2>2. Over => closeErr # None
    BY DEF Over, Loops, IInv, ReaderOK
  <2>3. Over => Over'
    BY <2>1 DEF Over, Lives, Procs
  <2>4. CASE closeErr = None /\ closeErr' = None
    <3>1. told' = told
      BY <2>1, <2>4 DEF Lives
    <3> QED
      BY <2>1, <2>4, <3>1 DEF Lives, phase, Life!Next, Life!Open, Life!vars
  <2>5. CASE closeErr = None /\ closeErr' # None
    <3>1. ~Over' /\ told' = told /\ closeErr' \in Reasons
      BY <2>1, <2>5 DEF Lives, Over, Loops
    <3> QED
      BY <2>5, <3>1 DEF phase, Life!Next, Life!End
  <2>6. CASE closeErr # None /\ told' = told
    <3>1. closeErr' = closeErr
      BY <2>1, <2>6 DEF Lives
    <3> QED
      BY <2>3, <2>6, <3>1 DEF phase, Life!Next, Life!Finish, Life!vars
  <2>7. CASE closeErr # None /\ told' # told
    <3>1. /\ told = None /\ told' = closeErr /\ UNCHANGED closeErr /\ ~Over /\ ~Over'
      BY <2>1, <2>7 DEF Lives, Over
    <3> QED
      BY <2>7, <3>1 DEF phase, Life!Next, Life!Tell
  <2> QED
    BY <2>4, <2>5, <2>6, <2>7
<1> QED
  BY <1>1, <1>2, Invariant, PTL DEF Spec, ImplementsSession, Life!Spec
-----------------------------------------------------------------------------
(* The peer is told why.                                                   *)

\* The ends the peer is to be told of.
Named == Closers \cup {"violation"}

\* What excuses a connection that does not tell the peer why it ended.
Excused ==
  tr.link # "up" \/ readErr = "peer" \/ tr.deadline = "passed" \/ forced = "fired"

\* As long as nothing excuses it, whoever ended the connection is on its way to
\* write the frame, on a transport that takes it.
Pending ==
  closeErr \in Named /\ told = None =>
    Excused \/ (tr.open /\ ~tr.sendDown /\ \E p \in Procs : Ending(pc[p]))

\* A goroutine that is past the frame, or has none to write.
PastOK(p) ==
  /\ pc[p] = "closeTr" => closeErr \notin Named
  /\ pc[p] \in {"shutdown", "giveUp"} => told # None \/ Excused \/ closeErr \notin Named
  /\ pc[p] = "expire" => forced = "off"

\* The read loop stops reading for an excuse, or because the transport is closed.
ReaderStops ==
  /\ pc["readLoop"] \in {"abort", "end"} => Excused \/ ~tr.open
  /\ pc["readLoop"] = "abort" => readErr \in {"peer", "transport"}
  /\ readErr = "peer" => pc["readLoop"] \in {"abort", "closeTr", "end", "done"}

\* Only the end of the connection closes its transport.
ClosedByEnd == ~tr.open \/ tr.sendDown \/ forced # "off" => closeErr # None

TellsOK == Pending /\ (\A p \in Procs : PastOK(p)) /\ ReaderStops /\ ClosedByEnd

\* A move that leaves the ends of the transport alone.
LEMMA TellsMove ==
  ASSUME IInv, TellsOK, NEW p \in Procs, NEW l, Goto(p, l),
         UNCHANGED <<closeErr, told, forced>>,
         tr'.open = tr.open, tr'.sendDown = tr.sendDown, tr'.link = tr.link,
         tr'.deadline = tr.deadline,
         readErr' = readErr \/ readErr # "peer",
         Ending(pc[p]) => Ending(l), l \notin {"closeTr", "shutdown", "giveUp", "expire"},
         p # "readLoop" => readErr' = readErr, p = "readLoop" => ReaderStops'
  PROVE  TellsOK'
<1>1. pc \in [Procs -> Labels]
  BY DEF IInv, TypeOK
<1>2. pc'[p] = l /\ \A q \in Procs : q # p => pc'[q] = pc[q]
  BY <1>1 DEF Goto
<1>3. Excused => Excused'
  BY DEF Excused
<1>4. Pending'
  <2> SUFFICES ASSUME closeErr \in Named, told = None, ~Excused'
               PROVE  tr.open /\ ~tr.sendDown /\ \E q \in Procs : Ending(pc'[q])
    BY DEF Pending, Named, Ending
  <2>1. tr.open /\ ~tr.sendDown /\ \E q \in Procs : Ending(pc[q])
    BY <1>3 DEF TellsOK, Pending
  <2> QED
    BY <1>2, <2>1
<1>5. (\A q \in Procs : PastOK(q))'
  <2> SUFFICES ASSUME NEW q \in Procs PROVE PastOK(q)'
    OBVIOUS
  <2>1. PastOK(q)
    BY DEF TellsOK
  <2> QED
    BY <1>2, <1>3, <2>1 DEF PastOK, Named
<1>6. ReaderStops'
  <2>1. CASE p = "readLoop"
    BY <2>1
  <2>2. CASE p # "readLoop"
    <3>1. pc'["readLoop"] = pc["readLoop"] /\ readErr' = readErr /\ ReaderStops
      BY <1>2, <2>2, Kinds DEF TellsOK
    <3> QED
      BY <1>3, <3>1 DEF ReaderStops
  <2> QED
    BY <2>1, <2>2
<1>7. ClosedByEnd'
  BY DEF TellsOK, ClosedByEnd
<1> QED
  BY <1>4, <1>5, <1>6, <1>7 DEF TellsOK

\* terminate: an error the peer is to be told is that of a goroutine which is
\* now on its way to tell.
LEMMA TellsTerminate ==
  ASSUME IInv, TellsOK, NEW p \in Procs, NEW l, NEW m, terminate(p, l, m),
         \/ pc[p] = "abort" /\ l = "closeTr" /\ m = AfterAbort(p)
         \/ pc[p] = "close" /\ l = "expire" /\ m = AfterClose(p),
         UNCHANGED <<ready, tr, forced, writeMu, wake, readErr, sent, told>>
  PROVE  TellsOK'
<1>1. CASE closeErr # None
  <2>1. Goto(p, m) /\ UNCHANGED closeErr /\ ~Ending(pc[p])
    BY <1>1 DEF terminate, Ending
  <2>2. m \notin {"closeTr", "shutdown", "giveUp", "expire"}
    BY DEF AfterAbort, AfterClose
  <2>3. p = "readLoop" => ReaderStops'
    <3> SUFFICES ASSUME p = "readLoop" PROVE ReaderStops'
      OBVIOUS
    <3>1. pc'["readLoop"] = m
      BY <2>1, Kinds DEF IInv, TypeOK, Goto
    <3>2. \/ pc["readLoop"] = "abort" /\ m = "end"
          \/ pc["readLoop"] = "close" /\ m = "read"
      BY Kinds DEF AfterAbort, AfterClose
    <3> QED
      BY <3>1, <3>2 DEF TellsOK, ReaderStops, Excused
  <2> QED
    BY <2>1, <2>2, <2>3, TellsMove
<1>2. CASE closeErr = None
  <2>1. pc \in [Procs -> Labels] /\ Place(p, pc[p])
    BY DEF IInv, TypeOK
  <2>2. pc'[p] = l /\ (\A q \in Procs : q # p => pc'[q] = pc[q]) /\ closeErr' = Reason(p)
    BY <1>2, <2>1 DEF terminate, Goto
  <2>3. Reason(p) # None
    BY ReasonType
  <2>4. tr.open /\ ~tr.sendDown /\ forced = "off"
    BY <1>2 DEF TellsOK, ClosedByEnd
  <2>5. l = "closeTr" => Reason(p) \notin Named
    <3>1. l = "closeTr" => p \in Writers \cup {"writeLoop", "readLoop", "start"} /\ pc[p] = "abort"
      BY <2>1 DEF Place
    <3>2. p = "readLoop" /\ pc[p] = "abort" => Reason(p) \in {"peer", "transport"}
      BY Kinds DEF TellsOK, ReaderStops, Reason
    <3>3. p \in Writers \cup {"writeLoop", "start"} => Reason(p) \in {"transport", "cancelled"}
      BY Kinds DEF Reason
    <3>4. {"peer", "transport", "cancelled"} \cap Named = {}
      BY LifecycleAssumption DEF Named
    <3> QED
      BY <3>1, <3>2, <3>3, <3>4
  <2>6. Pending'
    BY <2>2, <2>4, <2>5 DEF Pending, Ending, Named
  <2>7. (\A q \in Procs : PastOK(q))'
    <3> SUFFICES ASSUME NEW q \in Procs PROVE PastOK(q)'
      OBVIOUS
    <3>1. q # p => pc'[q] \notin {"closeTr", "shutdown", "giveUp"}
      BY <1>2, <2>2 DEF IInv, EndingOK
    <3> QED
      BY <2>2, <2>4, <2>5, <3>1 DEF PastOK, Named
  <2>8. ReaderStops'
    BY <2>2, <2>4, Kinds DEF TellsOK, ReaderStops, Excused
  <2>9. ClosedByEnd'
    BY <2>2, <2>3 DEF ClosedByEnd
  <2> QED
    BY <2>6, <2>7, <2>8, <2>9 DEF TellsOK
<1> QED
  BY <1>1, <1>2

\* The transport is closed, by somebody who has told or need not.
LEMMA TellsClose ==
  ASSUME IInv, TellsOK, NEW p \in Procs, NEW l \in {"unlock", "end", "done", "read"}, Goto(p, l),
         tr' = [tr EXCEPT !.open = FALSE],
         forced' = forced \/ (forced = "armed" /\ forced' = "off" /\ pc[p] = "giveUp"),
         UNCHANGED <<closeErr, readErr, told>>, ~Ending(pc[p]), closeErr # None,
         told # None \/ Excused \/ closeErr \notin Named,
         p = "readLoop" /\ l \notin {"end", "done"} => readErr # "peer"
  PROVE  TellsOK'
<1>1. pc \in [Procs -> Labels] /\ tr \in Transport
  BY DEF IInv, TypeOK
<1>2. pc'[p] = l /\ \A q \in Procs : q # p => pc'[q] = pc[q]
  BY <1>1 DEF Goto
<1>3. ~tr'.open /\ tr'.link = tr.link /\ tr'.deadline = tr.deadline
  BY <1>1 DEF Transport
<1>4. Excused => Excused'
  BY <1>3 DEF Excused
<1>5. Pending'
  BY <1>4 DEF Pending, Named
<1>6. (\A q \in Procs : PastOK(q))'
  <2> SUFFICES ASSUME NEW q \in Procs PROVE PastOK(q)'
    OBVIOUS
  <2>1. PastOK(q)
    BY DEF TellsOK
  <2> QED
    BY <1>2, <1>4, <2>1 DEF PastOK, Named
<1>7. ReaderStops'
  <2>1. /\ readErr = "peer" => pc["readLoop"] \in {"abort", "closeTr", "end", "done"}
        /\ pc["readLoop"] = "abort" => readErr \in {"peer", "transport"}
    BY DEF TellsOK, ReaderStops
  <2> QED
    BY <1>2, <1>3, <2>1, Kinds DEF ReaderStops
<1>8. ClosedByEnd'
  BY DEF ClosedByEnd
<1> QED
  BY <1>5, <1>6, <1>7, <1>8 DEF TellsOK

\* The steps of closeGracefully after terminate: CONNECTION_CLOSE is written, or
\* the write fails for an excuse.
LEMMA TellsEnding ==
  ASSUME IInv, TellsOK, NEW p \in Procs, Expire(p) \/ WriteClose(p) \/ ShutDown(p)
  PROVE  TellsOK'
<1>1. pc \in [Procs -> Labels] /\ tr \in Transport /\ Place(p, pc[p]) /\ PastOK(p)
  BY DEF IInv, TypeOK, TellsOK
<1>2. PICK l \in {"lockClose", "shutdown", "giveUp", "read", "done"} : Goto(p, l)
  BY DEF Expire, WriteClose, ShutDown, AfterClose
<1>3. pc'[p] = l /\ \A q \in Procs : q # p => pc'[q] = pc[q]
  BY <1>1, <1>2 DEF Goto
<1>4. UNCHANGED <<closeErr, readErr>> /\ tr'.open = tr.open /\ tr'.link = tr.link
      /\ closeErr # None
  <2>1. UNCHANGED <<closeErr, readErr>> /\ tr'.open = tr.open /\ tr'.link = tr.link
    BY <1>1 DEF Expire, WriteClose, ShutDown, writeRecord, Transport
  <2>2. closeErr # None
    BY EndingClosed DEF IInv, EndingOK, Ending, Expire, WriteClose, ShutDown
  <2> QED
    BY <2>1, <2>2
<1>5. Excused => Excused'
  <2>1. tr.deadline = "passed" => tr'.deadline = "passed"
    BY <1>1 DEF IInv, EndingOK, Expire, WriteClose, ShutDown, writeRecord, Transport
  <2>2. forced = "fired" => forced' = "fired"
    BY <1>1 DEF PastOK, Expire, WriteClose, ShutDown
  <2> QED
    BY <1>4, <2>1, <2>2 DEF Excused
<1>6. told' = told \/ (told' = closeErr /\ WriteClose(p))
  BY DEF IInv, EndingOK, Ending, Expire, WriteClose, ShutDown
<1>7. l \in {"shutdown", "giveUp"} => told' # None \/ Excused' \/ closeErr \notin Named
  <2>1. CASE Expire(p) /\ l = "shutdown"
    <3>1. p \notin Closers \cup {"readLoop"} /\ pc[p] = "expire"
      BY <1>1, <1>2, <1>3, <2>1 DEF Expire, Goto
    <3>2. p \in {"idleLoop", "keepAliveLoop"}
      BY <1>1, <3>1 DEF Place
    <3>3. closeErr = Reason(p)
      BY <3>1 DEF IInv, EndingOK, Ending
    <3>4. closeErr = "timeout"
      BY <3>2, <3>3, Kinds DEF Reason
    <3> QED
      BY <3>4, LifecycleAssumption DEF Named
  <2>2. CASE Expire(p) /\ l = "giveUp"
    BY <1>1, <1>3, <2>2 DEF Expire, Goto
  <2>3. CASE WriteClose(p)
    <3>1. CASE told' = told
      <4>1. (WriteFails /\ UNCHANGED <<tr, told>>) \/ told # None
        BY <1>4, <2>3, <3>1 DEF WriteClose, IInv, EndingOK, Ending
      <4> QED
        BY <1>5, <3>1, <4>1 DEF TellsOK, Pending, WriteFails, Excused
    <3>2. CASE told' = closeErr
      BY <1>4, <3>2
    <3> QED
      BY <1>6, <3>1, <3>2
  <2>4. CASE ShutDown(p)
    BY <1>1, <1>5, <2>4 DEF PastOK, ShutDown
  <2> QED
    BY <1>2, <2>1, <2>2, <2>3, <2>4
<1>8. Pending'
  <2> SUFFICES ASSUME closeErr \in Named, told' = None, ~Excused'
               PROVE  tr'.open /\ ~tr'.sendDown /\ \E q \in Procs : Ending(pc'[q])
    BY <1>4 DEF Pending, Named, Ending
  <2>1. told = None /\ l \notin {"shutdown", "giveUp"} /\ ~Excused
    BY <1>4, <1>5, <1>6, <1>7
  <2>2. Expire(p) /\ l = "lockClose"
    <3>1. ~ShutDown(p)
      BY <1>1, <2>1 DEF ShutDown, PastOK
    <3>2. ~WriteClose(p)
      BY <1>1, <1>3, <2>1 DEF WriteClose, Goto
    <3> QED
      BY <1>1, <1>3, <2>1, <3>1, <3>2 DEF Expire, Goto
  <2>3. tr'.sendDown = tr.sendDown
    BY <1>1, <2>2 DEF Expire, Transport
  <2> QED
    BY <1>3, <1>4, <2>1, <2>2, <2>3 DEF TellsOK, Pending, Ending
<1>9. (\A q \in Procs : PastOK(q))'
  <2> SUFFICES ASSUME NEW q \in Procs PROVE PastOK(q)'
    OBVIOUS
  <2>1. CASE q = p
    BY <1>3, <1>4, <1>7, <2>1 DEF PastOK, Named
  <2>2. CASE q # p
    <3>1. pc'[q] = pc[q] /\ PastOK(q)
      BY <1>3, <2>2 DEF TellsOK
    <3>2. pc[q] = "expire" => forced' = forced
      <4>1. pc[q] = "expire" => pc[p] # "expire"
        BY <2>2 DEF IInv, Ending
      <4> QED
        BY <4>1 DEF Expire, WriteClose, ShutDown
    <3>3. told # None => told' # None
      BY <1>4, <1>6
    <3> QED
      BY <1>4, <1>5, <3>1, <3>2, <3>3 DEF PastOK, Named
  <2> QED
    BY <2>1, <2>2
<1>10. ReaderStops'
  <2>1. CASE p = "readLoop"
    <3>1. readErr # "peer"
      BY <2>1 DEF TellsOK, ReaderStops, Expire, WriteClose, ShutDown
    <3>2. l \notin {"abort", "end"}
      OBVIOUS
    <3> QED
      BY <1>3, <1>4, <2>1, <3>1, <3>2, Kinds DEF ReaderStops
  <2>2. CASE p # "readLoop"
    <3>1. pc'["readLoop"] = pc["readLoop"] /\ ReaderStops
      BY <1>3, <2>2, Kinds DEF TellsOK
    <3> QED
      BY <1>4, <1>5, <3>1 DEF ReaderStops
  <2> QED
    BY <2>1, <2>2
<1>11. ClosedByEnd'
  BY <1>4 DEF ClosedByEnd
<1> QED
  BY <1>8, <1>9, <1>10, <1>11 DEF TellsOK

\* What the peer, the network and the clock do is an excuse, or no matter.
LEMMA TellsOutside ==
  ASSUME IInv, TellsOK, Environment \/ DeadlinePasses \/ ForcedClose
  PROVE  TellsOK'
<1>1. tr \in Transport /\ tr.link \in {"up", tr.fate}
  BY DEF IInv, TypeOK, TransportOK
<1>2. UNCHANGED <<closeErr, told, readErr, pc>> /\ tr'.sendDown = tr.sendDown
  BY <1>1 DEF Environment, DeadlinePasses, ForcedClose, Transport
<1>3. Excused => Excused'
  BY <1>1, <1>2 DEF Environment, DeadlinePasses, ForcedClose, Transport, Excused
<1>4. \/ tr'.open = tr.open /\ forced' = forced
      \/ Excused' /\ closeErr # None /\ forced = "armed"
  <2>1. CASE ForcedClose
    BY <2>1 DEF ForcedClose, Excused, TellsOK, ClosedByEnd
  <2>2. CASE Environment \/ DeadlinePasses
    BY <1>1, <2>2 DEF Environment, DeadlinePasses, Transport
  <2> QED
    BY <2>1, <2>2
<1>5. Pending'
  BY <1>2, <1>3, <1>4 DEF TellsOK, Pending, Named, Ending
<1>6. (\A q \in Procs : PastOK(q))'
  <2> SUFFICES ASSUME NEW q \in Procs PROVE PastOK(q)'
    OBVIOUS
  <2>1. PastOK(q)
    BY DEF TellsOK
  <2> QED
    BY <1>2, <1>3, <1>4, <2>1 DEF PastOK, Named
<1>7. ReaderStops'
  BY <1>2, <1>3, <1>4 DEF TellsOK, ReaderStops
<1>8. ClosedByEnd'
  BY <1>2, <1>4 DEF TellsOK, ClosedByEnd
<1> QED
  BY <1>5, <1>6, <1>7, <1>8 DEF TellsOK

\* A goroutine other than the read loop moves, with the ends of the transport
\* left alone.
LEMMA TellsQuiet ==
  ASSUME IInv, TellsOK, NEW p \in Procs, NEW l, Goto(p, l), p # "readLoop",
         UNCHANGED <<closeErr, told, forced, readErr>>,
         tr' = tr \/ (\E n : tr' = [tr EXCEPT !.unread = n]),
         Ending(pc[p]) => Ending(l), l \notin {"closeTr", "shutdown", "giveUp", "expire"}
  PROVE  TellsOK'
<1>1. tr \in Transport
  BY DEF IInv, TypeOK
<1>2. /\ tr'.open = tr.open /\ tr'.sendDown = tr.sendDown /\ tr'.link = tr.link
      /\ tr'.deadline = tr.deadline
  BY <1>1 DEF Transport
<1> QED
  BY <1>2, TellsMove

\* Every step of a goroutine.
LEMMA StepTells == ASSUME IInv, TellsOK, NEW p \in Procs, Step(p) PROVE TellsOK'
<1>0. pc \in [Procs -> Labels] /\ Place(p, pc[p]) /\ PastOK(p) /\ ReaderStops /\ Pending
  BY DEF IInv, TypeOK, TellsOK
<1>1. CASE Abort(p) \/ closeGracefully(p)
  BY <1>1, TellsTerminate DEF Abort, closeGracefully
<1>2. CASE Expire(p) \/ WriteClose(p) \/ ShutDown(p)
  BY <1>2, TellsEnding
<1>3. CASE AbortTransport(p)
  <2>1. closeErr # None /\ closeErr \notin Named
    BY <1>0, <1>3 DEF IInv, EndingOK, PastOK, AbortTransport
  <2>2. AfterAbort(p) \in {"unlock", "end", "done", "read"}
        /\ (p = "readLoop" => AfterAbort(p) = "end")
    BY Kinds DEF AfterAbort
  <2> QED
    BY <1>3, <2>1, <2>2, TellsClose DEF AbortTransport, Ending
<1>4. CASE GiveUp(p)
  <2>1. closeErr # None /\ (told # None \/ Excused \/ closeErr \notin Named)
    BY <1>0, <1>4 DEF IInv, EndingOK, PastOK, GiveUp
  <2>2. AfterClose(p) \in {"unlock", "end", "done", "read"}
        /\ (p = "readLoop" => readErr # "peer")
    BY <1>0, <1>4 DEF AfterClose, GiveUp, ReaderStops
  <2> QED
    BY <1>4, <2>1, <2>2, TellsClose DEF GiveUp, Ending
<1>5. CASE p = "readLoop" /\ ReadEnds
  <2>1. closeErr # None /\ (told # None \/ Excused \/ closeErr \notin Named)
    BY <1>0, <1>5 DEF IInv, ReaderOK, ReadEnds, ReaderStops, Pending
  <2> QED
    BY <1>5, <2>1, TellsClose DEF ReadEnds, Ending
<1>6. CASE p = "readLoop" /\ ReadFails
  <2>1. pc'["readLoop"] = "abort" /\ readErr # "peer" /\ readErr' = "transport" /\ tr' = tr
    BY <1>0, <1>6 DEF ReadFails, Goto, ReaderStops
  <2>2. ReaderStops'
    BY <1>6, <2>1 DEF ReaderStops, Excused, ReadFails
  <2> QED
    BY <1>6, <2>1, <2>2, TellsMove DEF ReadFails, Ending
<1>7. CASE LockClose(p)
  <2>1. p = "readLoop" => ReaderStops'
    BY <1>0, <1>7 DEF LockClose, Goto, ReaderStops
  <2> QED
    BY <1>7, <2>1, TellsMove DEF LockClose, Ending
<1>8. CASE LockWrite(p) \/ Write(p) \/ Unlock(p)
  <2>1. PICK l \in {"write", "select", "done", "abort"} : Goto(p, l)
    BY <1>0, <1>8 DEF LockWrite, Write, Unlock, Goto
  <2>2. p # "readLoop" /\ ~Ending(pc[p])
    BY <1>0, <1>8, Kinds DEF LockWrite, Write, Unlock, Place, Ending
  <2>3. tr' = tr \/ (\E n : tr' = [tr EXCEPT !.unread = n])
    BY <1>8 DEF LockWrite, Write, Unlock, writeRecord
  <2>4. UNCHANGED <<closeErr, told, forced, readErr>>
    BY <1>8 DEF LockWrite, Write, Unlock
  <2> QED
    BY <2>1, <2>2, <2>3, <2>4, TellsQuiet
<1>9. CASE p = "writeLoop" /\ (sendParameters \/ writeLoop)
  <2>1. PICK l \in {"select", "abort", "lockWrite", "done"} : Goto(p, l)
    BY <1>9 DEF sendParameters, writeLoop
  <2>2. tr' = tr \/ (\E n : tr' = [tr EXCEPT !.unread = n])
    BY <1>9 DEF sendParameters, writeLoop, writeRecord
  <2>3. UNCHANGED <<closeErr, told, forced, readErr>> /\ ~Ending(pc[p])
    BY <1>9 DEF sendParameters, writeLoop, Ending
  <2> QED
    BY <1>9, <2>1, <2>2, <2>3, TellsQuiet
<1>10. CASE \/ p = "idleLoop" /\ idleLoop
            \/ p = "keepAliveLoop" /\ keepAliveLoop
            \/ p = "start" /\ start
  <2>1. PICK l \in {"idle", "done", "returned"} : Goto(p, l)
    BY <1>10 DEF idleLoop, keepAliveLoop, start
  <2>2. UNCHANGED <<closeErr, told, forced, readErr, tr>> /\ ~Ending(pc[p])
    BY <1>10 DEF idleLoop, keepAliveLoop, start, Ending
  <2> QED
    BY <1>10, <2>1, <2>2, TellsQuiet
<1> QED
  BY <1>1, <1>2, <1>3, <1>4, <1>5, <1>6, <1>7, <1>8, <1>9, <1>10 DEF Step

\* Every step.
LEMMA NextTells == ASSUME IInv, TellsOK, [Next]_vars PROVE TellsOK'
<1>0. pc \in [Procs -> Labels] /\ ReaderStops
  BY DEF IInv, TypeOK, TellsOK
<1>1. CASE \E p \in Procs : Step(p)
  BY <1>1, StepTells
<1>2. CASE \E p \in Procs : Call(p)
  <2>1. PICK p \in Procs : Call(p)
    BY <1>2
  <2>2. PICK l \in {"lockWrite", "close"} : Goto(p, l)
    BY <2>1 DEF Call
  <2>3. p # "readLoop" /\ UNCHANGED <<closeErr, told, forced, readErr, tr>> /\ ~Ending(pc[p])
    BY <2>1, Kinds DEF Call, Ending
  <2> QED
    BY <2>2, <2>3, TellsQuiet
<1>3. CASE ReadOversized \/ \E rec \in Records : ReadRecord(rec)
  <2>1. /\ pc["readLoop"] = "read" /\ UNCHANGED <<closeErr, told, forced, tr>>
        /\ readErr # "peer"
    BY <1>0, <1>3 DEF ReadOversized, ReadRecord, ReaderStops
  <2>2. PICK l \in {"read", "close", "abort"} :
          Goto("readLoop", l) /\ (l = "abort" <=> readErr' = "peer")
    <3>1. CASE ReadOversized
      BY <3>1 DEF ReadOversized
    <3>2. CASE \E rec \in Records : ReadRecord(rec)
      <4>1. PICK rec \in Records : ReadRecord(rec)
        BY <3>2
      <4> DEFINE s == handleRecord(rec)
      <4>2. s.end \in {None, "violation", "peer"}
        BY RecordType DEF IInv
      <4>3. /\ readErr' = s.end
            /\ Goto("readLoop", CASE s.end = None -> "read"
                                  [] s.end = "violation" -> "close"
                                  [] OTHER -> "abort")
        BY <4>1 DEF ReadRecord
      <4> HIDE DEF s
      <4>4. None \notin {"violation", "peer"}
        BY LifecycleAssumption DEF Reasons
      <4>5. CASE s.end = None
        <5>1. Goto("readLoop", "read")
          BY <4>3, <4>4, <4>5 DEF Goto
        <5> QED
          BY <4>3, <4>4, <4>5, <5>1
      <4>6. CASE s.end = "violation"
        <5>1. Goto("readLoop", "close")
          BY <4>3, <4>4, <4>6 DEF Goto
        <5> QED
          BY <4>3, <4>6, <5>1
      <4>7. CASE s.end = "peer"
        <5>1. Goto("readLoop", "abort")
          BY <4>3, <4>4, <4>7 DEF Goto
        <5> QED
          BY <4>3, <4>7, <5>1
      <4> QED
        BY <4>2, <4>5, <4>6, <4>7
    <3> QED
      BY <1>3, <3>1, <3>2
  <2>3. pc'["readLoop"] = l
    BY <1>0, <2>2, Kinds DEF Goto
  <2>4. ReaderStops'
    BY <2>2, <2>3 DEF ReaderStops, Excused
  <2> QED
    BY <2>1, <2>2, <2>4, Kinds, TellsMove DEF Ending
<1>4. CASE HandshakeTimeout \/ IdleTimeout \/ PingTimeout \/ Cancel
  <2>1. PICK p \in {"idleLoop", "keepAliveLoop", "start"}, l \in {"close", "abort"} :
          Goto(p, l) /\ ~Ending(pc[p])
    BY <1>4 DEF HandshakeTimeout, IdleTimeout, PingTimeout, Cancel, TimesOut, Ending
  <2>2. UNCHANGED <<closeErr, told, forced, readErr, tr>>
    BY <1>4 DEF HandshakeTimeout, IdleTimeout, PingTimeout, Cancel, TimesOut
  <2> QED
    BY <2>1, <2>2, Kinds, TellsQuiet
<1>5. CASE requestPing \/ UNCHANGED vars
  BY <1>5 DEF requestPing, vars, TellsOK, Pending, PastOK, ReaderStops, ClosedByEnd, Excused,
              Ending, Named
<1>6. CASE Environment \/ DeadlinePasses \/ ForcedClose
  BY <1>6, TellsOutside
<1> QED
  BY <1>1, <1>2, <1>3, <1>4, <1>5, <1>6 DEF Next

\* For any number of writers and closers, any transport and any peer: an error
\* of CloseWithError, or a violation, is lost to the peer only if time ran out,
\* the peer closed or shut down, or the transport broke.  abort of the other
\* goroutines and the read loop's deferred close do not get in before the
\* frame of closeGracefully.
THEOREM ReasonNeverLost == Spec => []ReasonNotLost
<1>1. Init => TellsOK
  <2> SUFFICES ASSUME Init PROVE TellsOK
    OBVIOUS
  <2>1. closeErr = None /\ forced = "off" /\ readErr = None /\ tr.open /\ ~tr.sendDown
    BY DEF Init
  <2>2. None \notin Named /\ None # "peer"
    BY LifecycleAssumption DEF Reasons, Named
  <2>3. pc["readLoop"] = "read"
    <3>1. PICK c \in Cases :
            pc = [p \in Procs |-> CASE p = "writeLoop" -> "params"
                                    [] p = "readLoop" -> "read"
                                    [] p = "idleLoop" -> "handshake"
                                    [] p = "keepAliveLoop" /\ c.keepAlive -> "tick"
                                    [] p = "start" -> "wait"
                                    [] p \in c.calls -> "idle"
                                    [] OTHER -> "done"]
      BY DEF Init
    <3> QED
      BY <3>1, Kinds, LifecycleAssumption
  <2> QED
    BY <2>1, <2>2, <2>3 DEF TellsOK, Pending, PastOK, ReaderStops, ClosedByEnd
<1>2. IInv /\ TellsOK /\ [Next]_vars => TellsOK'
  BY NextTells
<1>3. TellsOK => ReasonNotLost
  BY DEF TellsOK, Pending, Excused, Named, Over, ReasonNotLost
<1> QED
  BY <1>1, <1>2, <1>3, Invariant, PTL DEF Spec
=============================================================================
