SPECIFICATION FairSpec
CONSTANTS
  r1 = r1
  x1 = x1
  p1 = p1
  p2 = p2
  t1 = t1
  t2 = t2
  None = None
  Device = {r1, x1}
  DiscoveryDevice = {x1}
  Port = {p1, p2}
  Worker = {t1, t2}
  PortAttempts = 2
  InitialSessions <- SessionsBefore
  MaxCalls = 2
  MaxRestarts = 1
INVARIANTS
  CredentialsStayInTheTunnel
  PairsAreWhole
  InputGoesToProvenSession
PROPERTIES
  ImplementsLogicalSession
  CallsReturn
CONSTRAINT OneDeviceAtATime
CHECK_DEADLOCK FALSE
