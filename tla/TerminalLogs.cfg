CONSTANTS
  R1 = R1
  R2 = R2
  None = None
  Device = {R1, R2}
  Session <- Sessions
  MaxSecond = 1
  MaxNumber = 3
  MaxStarts = 2
  MaxCommands = 1
SPECIFICATION Spec
CHECK_DEADLOCK FALSE
CONSTRAINT UntilTheLastPrompt
INVARIANTS LiveLogsStay DeletionIsWhole
