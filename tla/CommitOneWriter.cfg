SPECIFICATION Spec
CONSTANTS
  lab = lab
  LAB = LAB
  lab2 = lab2
  sc = sc
  ref = ref
  REF = REF
  ai = ai
  ai2 = ai2
  v1 = v1
  v2 = v2
  bad = bad
  s2 = s2
  Absent = Absent
  NoDef = NoDef
  Session = {s1}
  Def <- CaseDefs
  KindOf <- MCKindOf
  CaseVariants <- CasePair
  Folding = TRUE
  TopologyOf <- MCTopologyOf
  Body <- MCBody
  Valid <- MCValid
  NewBody = v1
  InitialLabs <- CaseLabs
  Selectable <- CaseDefs
  Describable <- CaseDefs
INVARIANTS
  TypeOK
  KeptCandidateCommits
  OnlyValidStored
PROPERTIES
  NoNewDangling
  SuccessMeansPersisted
  ImplementsCommittedLab
CHECK_DEADLOCK TRUE
