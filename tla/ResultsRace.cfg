SPECIFICATION Spec
CONSTANTS
  k1 = k1
  k2 = k2
  w1 = w1
  w2 = w2
  m1 = m1
  m2 = m2
  Keys = {k1, k2}
  ModelOf <- TwoModels
  Writers = {w1, w2}
  KeyOf <- SameFile
  Results <- SomeResults
  Truncated = {3}
  MaxRuns <- Runs
  MaxCrashes = 0
  MaxUnread = 0
INVARIANTS
  SuccessNotOverwritten
CHECK_DEADLOCK FALSE
