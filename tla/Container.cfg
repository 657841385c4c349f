SPECIFICATION FairSpec
CONSTANTS
  MaxLines = 2
  MaxRmFaults = 1
INVARIANTS
  TypeOK
  OutputComplete
PROPERTIES
  KeepsPromise
  AbortsForCause
  StopsWhenAsked
  EndsWithContainer
CHECK_DEADLOCK FALSE
