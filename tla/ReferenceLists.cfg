SPECIFICATION OrderSpec
CONSTANTS
  Reference = {r1, r2, r3, r4}
  Unknown = {typo}
  NoKey = NoKey
  InitialSelections <- Settings
INVARIANTS
  NetZero
CHECK_DEADLOCK FALSE
