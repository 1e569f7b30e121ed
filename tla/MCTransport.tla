---------------------------- MODULE MCTransport ------------------------------
(* Small instances of the transports for TLC. *)
EXTENDS VbtTransport, TLC

\* Frames of two sizes, one of them the largest there is.
MCSizeOf(k) == IF k % 2 = 0 THEN MaxSize - 1 ELSE MaxSize
=============================================================================
