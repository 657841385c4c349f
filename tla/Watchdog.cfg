SPECIFICATION FairSpec
CONSTANTS
  Calls = {b1, b2, r1}
  Bash = {b1, b2}
  Found <- DistinctCommands
  ResultIds = TRUE
  Timeout = 2
INVARIANTS
  RunningCallIsWatched
PROPERTIES
  KillsOnlyOverdue
  HungCallIsKilled
CHECK_DEADLOCK FALSE
