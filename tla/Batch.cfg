SPECIFICATION FairSpec
CONSTANTS
  e1 = e1
  e2 = e2
  e3 = e3
  m1 = m1
  Callers = {e1, e2, e3}
  Models = {m1}
  ModelOf <- OneModel
  Local = {m1}
  NoModel = NoModel
  NoCaller = NoCaller
  MaxEvictions = 1
  Languages <- TwoLanguages
  Parallelism = 2
  Elsewhere = {e1}
INVARIANTS
  OneLoad
  OnlyFirstPays
  FailureIsShown
PROPERTIES
  BatchEnds
CHECK_DEADLOCK FALSE
