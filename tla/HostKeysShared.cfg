SPECIFICATION Spec
CONSTANTS
  jump = jump
  r1 = r1
  r2 = r2
  k1 = k1
  k2 = k2
  None = None
  Refused = Refused
  Key = {k1, k2}
  MaxRecoveries = 1
  Host = {jump, r1}
  Device = {r1}
  Hops <- HopsOfProxyJump
  Targets <- OneTarget
  Terminal = {t1, t2}
  Cli = {c1}
  Faults = {"unreadable", "prepare", "append", "backup", "remove"}
  InitialFiles <- AnyFile
  MaxRekeys = 1
  MaxEdits = 0
SYMMETRY Threads
INVARIANTS
  OneEntryEach
  TrustedHopsAreRegistered
PROPERTIES
  ChangesNeedApproval
  RemovesWhatWasShown
  RestoredKeepsOld
