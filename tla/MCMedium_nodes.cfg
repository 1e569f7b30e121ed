SPECIFICATION Spec
CONSTANTS
  n1 = n1
  n2 = n2
  n3 = n3
  z = z
  a1 = a1
  a2 = a2
  x1 = x1
  x2 = x2
  x3 = x3
  u1 = u1
  u2 = u2
  None = None
  MaxPeers = 3
  MaxNodes = 2
  MaxConns = 1
  MaxAddrs = 1
  FreshTTL = 1
  NodeIds = {n1, n2}
  AutoName <- MCAutoName
  Addrs = {z, a1}
  ZeroAddr = z
  AAs = {x1, x2}
  Upstreams = {}
  TcpListen = FALSE
  MaxOpened = 2
SYMMETRY MCSymmetry
INVARIANTS
  BoundSocketIsCurrent
  OnlineNodeIsBound
  AddressHasOneOwner
  InitiatorIsOnline
  StatsBalance
  DataReachesOneEndpoint
  DataFollowsReconnect
