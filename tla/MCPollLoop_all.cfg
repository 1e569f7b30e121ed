SPECIFICATION Spec
CONSTANTS
  Conns = {1, 2, 3}
  Populations <- MCPopulations
  Stalled = {1}
  MaxPeers = 2
  MaxCtl = 2
  MaxMsgs = 1
  None = None
INVARIANTS
  TablesAgree
  HealthyAreKept
PROPERTIES
  EveryoneIsServed
