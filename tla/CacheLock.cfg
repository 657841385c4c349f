SPECIFICATION FairSpec
CONSTANTS
  Queries = {q1}
  Traces = {t1}
  Writers = {w1}
  MaxRows = 2
PROPERTIES
  QueriesAnswer
CHECK_DEADLOCK FALSE
