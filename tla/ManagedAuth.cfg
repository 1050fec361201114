SPECIFICATION FairSpec
CONSTANTS
  Devices <- EveryKind
  Budget = 2
  MaxCalls = 3
  MaxTries = 2
  MaxNotes = 1
  MaxInputs = 1
INVARIANTS
  SecretsMeetTheirHop
  JumpRefusesOnce
PROPERTIES
  RefusalIsReported
  LoginEnds
CHECK_DEADLOCK FALSE
