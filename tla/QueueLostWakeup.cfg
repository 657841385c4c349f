SPECIFICATION FairSpec
CONSTANTS
  Keys = {k1}
  MaxItems = 1
  MaxRetries = 0
  Parallelism = 1
  Handlers = {h1}
  ClientOps = {"schedule"}
  NoItem = NoItem
PROPERTIES
  NewItemIsPickedUp
CHECK_DEADLOCK FALSE
