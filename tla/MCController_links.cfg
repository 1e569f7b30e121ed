SPECIFICATION Spec
CONSTANTS
  a0 = a0
  a1 = a1
  a2 = a2
  x1 = x1
  x2 = x2
  x3 = x3
  d1 = d1
  None = None
  Draw <- MCDraw
  MaxConn = 2
  Addrs = {a0, a1}
  AAs = {x1, x2}
  AdvChannels = 1
  Payloads = {d1}
  BdAddr = a0
  OwnTypes = {0}
  HostAdvTypes = {0}
  HostScanTypes = {0}
  HostRandoms = {a1}
  MaxDraws = 2
INVARIANTS
  HostViewAgrees
  StateMatchesEnables
  OwnAccessAddressesDiffer
PROPERTIES
  HandleIsStable
