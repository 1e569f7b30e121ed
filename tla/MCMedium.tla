------------------------------ MODULE MCMedium -------------------------------
(* Small instances of the hub for TLC. *)
EXTENDS VbtMedium, TLC

CONSTANTS n1, n2, n3, z, a1, a2, x1, x2, x3, u1, u2

\* The first anonymous hello is called "node0"; here a lab node has that name too.
MCAutoName == [i \in 0 .. 0 |-> n2]
MCNoAuto   == <<>>

\* Access Addresses are interchangeable.
MCSymmetry == Permutations(AAs)
=============================================================================
