---------------------------- MODULE ItemLifecycle ----------------------------
(***************************************************************************)
(* What a queue item promises to whoever scheduled it, as long as nobody   *)
(* retries it: it is queued once, run at most once, cancelled only while   *)
(* it waits, and ends COMPLETED or FAILED.  An item may be cleared from    *)
(* the list in any state; "retried" is where the promise ends.  This is    *)
(* the lifecycle drawn in docs/ARCHITECTURE.md without its edge from       *)
(* RUNNING to CANCELLED, which the code does not have.                     *)
(***************************************************************************)
CONSTANT Ids

VARIABLE state

States == {"new", "PENDING", "RUNNING", "COMPLETED", "FAILED", "CANCELLED",
           "cleared", "retried"}

LifecycleTypeOK == state \in [Ids -> States]

LifecycleInit == state = [id \in Ids |-> "new"]

Move(ids, from, to) ==
  /\ \A id \in ids : state[id] \in from
  /\ state' = [id \in Ids |-> IF id \in ids THEN to ELSE state[id]]

Listed == {"PENDING", "RUNNING", "COMPLETED", "FAILED", "CANCELLED"}

LifecycleNext ==
  \/ \E ids \in SUBSET Ids : Move(ids, {"new"}, "PENDING") \/ Move(ids, Listed, "cleared")
  \/ \E id \in Ids :
       \/ Move({id}, {"PENDING"}, "RUNNING")
       \/ Move({id}, {"PENDING"}, "CANCELLED")
       \/ Move({id}, {"RUNNING"}, "COMPLETED")
       \/ Move({id}, {"RUNNING"}, "FAILED")
       \/ Move({id}, {"FAILED"}, "retried")

LifecycleSpec == LifecycleInit /\ [][LifecycleNext]_state
=============================================================================
