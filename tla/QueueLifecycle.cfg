SPECIFICATION Spec
CONSTANTS
  Keys = {k1}
  MaxItems = 1
  MaxRetries = 1
  Parallelism = 1
  Handlers = {h1, h2}
  ClientOps = {"schedule", "retry", "cancel_item", "clear_terminal", "shutdown"}
  NoItem = NoItem
INVARIANTS
  TypeOK
  PermitsConserved
  ExecuteLeavesTerminal
PROPERTIES
  ItemsFollowLifecycle
CHECK_DEADLOCK FALSE
