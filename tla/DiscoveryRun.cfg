SPECIFICATION FairSpec
CONSTANTS
  d1 = d1
  d2 = d2
  d3 = d3
  d4 = d4
  None = None
  Device = {d1, d2, d3, d4}
  Name <- Names
  Interface <- Interfaces
  Spaced <- TwoWords
  Canonical <- FullName
  Lower <- InLowerCase
  Short <- BeforeDot
  Strange = "strange"
  Type <- Types
  Order <- Listed
  Outputs <- AllOutputs
  MaxWorkers = 2
  MaxRuns = 1
  MaxRekeys = 2
  MaxFaults = 1
INVARIANTS
  NothingLeftOpen
PROPERTIES
  CandidateIsOneAttempt
  LinksAreStated
  DiscoverEnds
CHECK_DEADLOCK FALSE
