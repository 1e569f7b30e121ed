------------------------------ MODULE MCSystem -------------------------------
(* Small instances of controllers around one hub for TLC. *)
EXTENDS VbtSystem, TLC

CONSTANTS n1, n2, n3, z, a1, a2, a3, x1, x2, x3, x4

MCNoAuto == <<>>
MCBdAddr == (n1 :> a1 @@ n2 :> a2 @@ n3 :> a3)
MCBdAddr2 == (n1 :> a1 @@ n2 :> a2)

\* n1 draws x1 and x2, n3 draws x3 and x4.
MCDraw(a, k) == IF a = a1 THEN IF k = 1 THEN x1 ELSE x2 ELSE IF k = 1 THEN x3 ELSE x4

\* How many ACL packets the hosts send.
MCAcl0  == [n \in NodeIds |-> 0]
MCAcl12 == (n1 :> 1 @@ n2 :> 2)
=============================================================================
