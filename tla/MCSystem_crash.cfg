SPECIFICATION SysSpec
CONSTANTS
  n1 = n1
  n2 = n2
  n3 = n3
  z = z
  a1 = a1
  a2 = a2
  a3 = a3
  x1 = x1
  x2 = x2
  x3 = x3
  x4 = x4
  None = None
  MaxPeers = 3
  MaxNodes = 3
  MaxConns = 2
  MaxAddrs = 1
  FreshTTL = 1
  NodeIds = {n1, n2, n3}
  AutoName <- MCNoAuto
  Addrs = {z, a1, a2, a3}
  ZeroAddr = z
  AAs = {x1, x3}
  Upstreams = {}
  TcpListen = FALSE
  MaxOpened = 4
  Centrals = {n1, n3}
  Peripherals = {n2, n3}
  BdAddr <- MCBdAddr
  MaxConn = 2
  Draw <- MCDraw
  AdvChannels = 1
  Payloads = {}
  MaxDraws = 1
  MaxAcl <- MCAcl0
  MaxChan = 1
  MaxCrashes = 1
  HubMortal = TRUE
  HostStops = FALSE
  Mortal = {n2}
  HostEncrypts = FALSE
INVARIANTS
  AttachedNodeIsReachable
  
