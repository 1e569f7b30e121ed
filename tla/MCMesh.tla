------------------------------- MODULE MCMesh --------------------------------
(* Small instances of several hubs joined by trunks. *)
EXTENDS VbtMesh, TLC

CONSTANTS h1, h2, h3, h4, t1, t2, t3, n1, n2, n3

\* One node on each of the first, the second and the last hub of a line.
MCHome == (n1 :> h1 @@ n2 :> h2 @@ n3 :> h4)

MCLine == (t1 :> <<h1, h2>> @@ t2 :> <<h2, h3>> @@ t3 :> <<h3, h4>>)
MCStar == (t1 :> <<h3, h1>> @@ t2 :> <<h3, h2>> @@ t3 :> <<h3, h4>>)
\* Two hubs that dial each other: the smallest cycle.
MCPair == (t1 :> <<h1, h2>> @@ t2 :> <<h2, h1>>)

MCTopologies == {MCLine, MCStar, MCPair}
MCPairOnly   == {MCPair}

\* In a tree an advertisement, two CONNECT_INDs (one table is full then) and data.
MCFrames == [g \in MCTopologies |-> IF g = MCPair THEN 3 ELSE 4]
=============================================================================
