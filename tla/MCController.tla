---------------------------- MODULE MCController -----------------------------
(* Small instances of one controller core for TLC. *)
EXTENDS VbtController, TLC

CONSTANTS a0, a1, a2, x1, x2, x3, d1

\* The core draws x1, then x2; x3 belongs to another node.
MCDraw(a, k) == IF k = 1 THEN x1 ELSE x2
=============================================================================
