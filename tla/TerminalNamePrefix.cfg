SPECIFICATION Spec
CONSTANTS
  R1 = R1
  R10 = R10
  D1 = D1
  Bootstrap = Bootstrap
  None = None
  Name = {R1, R10}
  DiscoveryNames <- NoDiscovery
  Longer <- R10Longer
  Worker = {w1, w2}
  InitialServers <- R10Server
  MaxCalls = 2
PROPERTIES
  CommandsStayInTheirSession
CHECK_DEADLOCK FALSE
