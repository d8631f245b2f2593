--------------------------- MODULE MCPiServoApi -----------------------------
(* PiServoApi on a few nanoseconds and a handful of frequencies. *)
EXTENDS PiServoApi

MCOffsets == -3 .. 3
MCSampleTimes == 0 .. 3
MCWeights == 1 .. 2
MCInitialAdjs == {-3, 0, 2}
=============================================================================
