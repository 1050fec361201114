SPECIFICATION Spec
CONSTANTS
  n1 = n1
  n2 = n2
  a1 = a1
  a2 = a2
  w1 = w1
  w2 = w2
  None = None
  Name = {n1, n2}
  Content <- SmallContent
  Labs <- TwoLabs
  Selections <- FewSelections
  Address = {a1, a2}
  Worker = {w1, w2}
  Serves <- Tools
  Requests <- FewRequests
  MaxCalls = 2
  MaxCommits = 2
INVARIANTS
  AnswersAreCurrent
PROPERTIES
  DrivenOnlyIfActive
CHECK_DEADLOCK FALSE
