SPECIFICATION Spec
CONSTANTS
  lab = lab
  LAB = LAB
  lab2 = lab2
  sc = sc
  ref = ref
  REF = REF
  ai = ai
  ai2 = ai2
  v1 = v1
  v2 = v2
  bad = bad
  s2 = s2
  Absent = Absent
  NoDef = NoDef
  Session = {s1, s2}
  Def <- WriterDefs
  KindOf <- MCKindOf
  CaseVariants <- CasePair
  Folding = TRUE
  TopologyOf <- MCTopologyOf
  Body <- MCValid
  Valid <- MCValid
  NewBody = v1
  InitialLabs <- WriterLabs
  Selectable <- AccessInfos
  Describable <- Nothing
INVARIANTS
  NoAliasedPair
PROPERTIES
  CreateNeverOverwrites
  DiscoveryKeepsManualEdits
CONSTRAINT OneJob
CHECK_DEADLOCK TRUE
