SPECIFICATION FairSpec
CONSTANTS
  Keys = {k1}
  MaxItems = 2
  MaxRetries = 0
  Parallelism = 1
  Handlers = {h1}
  ClientOps = {"schedule", "cancel_session", "clear_all"}
  NoItem = NoItem
PROPERTIES
  FiredTokenHonoured
  RunsEnd
  BacklogDrains
CHECK_DEADLOCK FALSE
