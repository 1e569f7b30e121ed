SPECIFICATION Spec
CONSTANTS
  n1 = n1
  n2 = n2
  n3 = n3
  a1 = a1
  None = None
  Names = {n1, n2, n3}
  Addrs = {a1}
  MaxNodes = 3
  MaxOverrides = 1
  Positions = {0, 5}
  Powers <- MCPowers
  Floors <- MCFloors
  Strengths <- MCStrengths
  Losses = {0, 150}
  Exponents = {3}
  PathLoss <- MCPathLoss
  DefaultFloor <- MCDefaultFloor
  DefaultExponent = 2
  DefaultRssi <- MCDefaultRssi
  FrameRssis <- MCFrameRssis
  MaxCommands = 3
SYMMETRY MCSymmetry
INVARIANTS
  FloorDecides
PROPERTIES
  OverridesAreAMap
  SnapshotRestores
