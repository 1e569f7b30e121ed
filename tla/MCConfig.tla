------------------------------ MODULE MCConfig -------------------------------
(* Small instances of a hub's radio settings. *)
EXTENDS VbtConfig, TLC

CONSTANTS n1, n2, n3, a1

\* A floor between two whole dBm, and pins on either side of it.
MCPowers       == {10, 200}
MCFloors       == {-907}
MCStrengths    == {-90, -91}
MCDefaultFloor == -950
MCDefaultRssi  == -40
MCFrameRssis   == {0, -60}

MCSymmetry == Permutations(Names)

\* Any increasing function of the distance serves.
MCPathLoss(d, x) == 400 + 55 * d * x
=============================================================================
