SPECIFICATION Spec
CONSTANTS
  h1 = h1
  h2 = h2
  h3 = h3
  h4 = h4
  t1 = t1
  t2 = t2
  t3 = t3
  n1 = n1
  n2 = n2
  n3 = n3
  None = None
  Hubs = {h1, h2, h3, h4}
  Nodes = {n1, n2, n3}
  Home <- MCHome
  Trunks = {t1, t2, t3}
  Topologies <- MCTopologies
  FreshTTL = 2
  MaxConns = 1
  MaxFrames <- MCFrames
  MaxInFlight = 1
  MaxFaults = 1
CHECK_DEADLOCK FALSE
INVARIANTS
  HeardInOrder
  RangeIsTTL
  DataIsPrivate
  TreeDataReachesPeer
PROPERTIES
  FramesDieOut
