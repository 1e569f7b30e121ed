SPECIFICATION FairSpec
CONSTANTS
  n1 = n1
  n2 = n2
  n3 = n3
  z = z
  a1 = a1
  a2 = a2
  a3 = a3
  x1 = x1
  x2 = x2
  x3 = x3
  x4 = x4
  None = None
  MaxPeers = 2
  MaxNodes = 3
  MaxConns = 2
  MaxAddrs = 1
  FreshTTL = 1
  NodeIds = {n1, n2}
  AutoName <- MCNoAuto
  Addrs = {z, a1, a2}
  ZeroAddr = z
  AAs = {x1, x2}
  Upstreams = {}
  TcpListen = FALSE
  MaxOpened = 4
  Centrals = {n1}
  Peripherals = {n2}
  BdAddr <- MCBdAddr2
  MaxConn = 1
  Draw <- MCDraw
  AdvChannels = 1
  Payloads = {}
  MaxDraws = 1
  MaxAcl <- MCAcl0
  MaxChan = 2
  MaxCrashes = 0
  HubMortal = FALSE
  HostStops = TRUE
  Mortal = {}
  HostEncrypts = TRUE
INVARIANTS
  EncryptionAgrees
PROPERTIES
  PeripheralFollowsCentral
  
