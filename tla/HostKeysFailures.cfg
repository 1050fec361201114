SPECIFICATION FairSpec
CONSTANTS
  jump = jump
  r1 = r1
  r2 = r2
  k1 = k1
  k2 = k2
  None = None
  Refused = Refused
  Key = {k1, k2}
  MaxRecoveries = 1
  Host = {r1, r2}
  Device = {r1}
  Hops <- HopsOfOne
  Targets <- OneTarget
  Terminal = {t1}
  Cli = {c1}
  Faults = {"append", "fsync", "keygen", "backup", "remove", "tidy", "restore", "crash"}
  InitialFiles <- FullFile
  MaxRekeys = 0
  MaxEdits = 1
INVARIANTS
  HolderIsLocked
PROPERTIES
  WritesOneHostUnderLock
  ReplacementIsExact
  CallsEnd
