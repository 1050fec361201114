SPECIFICATION FairSpec
CONSTANTS
  R1 = R1
  R10 = R10
  D1 = D1
  Bootstrap = Bootstrap
  None = None
  Name = {R1, D1}
  DiscoveryNames <- DiscoveryOfD1
  Longer <- NoneLonger
  Worker = {w1, w2}
  InitialServers <- Servers
  MaxCalls = 3
INVARIANTS
  InputReachesItsSession
  PasswordMeetsItsPrompt
  SessionsAreReady
PROPERTIES
  CallsReturn
CHECK_DEADLOCK FALSE
