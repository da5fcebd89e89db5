---------------------------- MODULE MCWriteLock ----------------------------
(* A small instance of WriteLock.  "loop" is a control writer, "write0"    *)
(* and "close0" are on stream 0, "write4" is on stream 4.  The urgencies   *)
(* are out of range on both sides.                                         *)
EXTENDS WriteLock

MCWriters == {"loop", "write0", "close0", "write4"}
MCControl == {"loop"}
MCStreamOf == [w \in Writers |-> IF w = "write4" THEN 4 ELSE 0]
MCUrgencies == {-2, 9}
=============================================================================
