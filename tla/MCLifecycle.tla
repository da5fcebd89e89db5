---------------------------- MODULE MCLifecycle ----------------------------
(* The transports qmux runs on: TCP, TLS, and a message transport, which    *)
(* has neither a half-close nor deadlines.                                   *)
EXTENDS Lifecycle

transport(h, e) == [halfClose |-> h, expires |-> e]
MCTransports == {transport("at once", TRUE), transport("waits", TRUE), transport("no", FALSE)}

case(t, f, k, c) == [can |-> t, fate |-> f, keepAlive |-> k, calls |-> c]
MCCases == {case(transport("no", FALSE), "up", FALSE, {"writer", "closer"}),
            case(transport("waits", TRUE), "up", FALSE, {"writer"}),
            case(transport("at once", TRUE), "eof", FALSE, {}),
            case(transport("no", FALSE), "broken", FALSE, {}),
            case(transport("no", FALSE), "up", TRUE, {})}
=============================================================================
