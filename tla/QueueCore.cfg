SPECIFICATION Spec
CONSTANTS
  Keys = {k1}
  MaxItems = 2
  MaxRetries = 0
  Parallelism = 2
  Handlers = {h1}
  ClientOps = {"schedule", "cancel_item", "clear_pending", "cancel_session", "clear_terminal"}
  NoItem = NoItem
INVARIANTS
  WorkersCounted
  QueueViewAgrees
  CancelledNeverRuns
  CurrentIsOwned
  OutcomeReflected
CHECK_DEADLOCK FALSE
