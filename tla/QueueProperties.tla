--------------------------- MODULE QueueProperties ---------------------------
(***************************************************************************)
(* What the queue, its dispatcher and its workers are to guarantee.        *)
(***************************************************************************)
EXTENDS QueueProcessor

IdsOf(vec) == {vec[n].id : n \in DOMAIN vec}
Status(id) == all_items[First(id)].status
HasStatus(id, status) == Listed(id) /\ Status(id) = status

\* Run r has been spawned and has not yet said so that it is over.
Live(r) == rpc[r] \notin {"none", "done"}
\* Run r has its item in hand and has not settled it.
Working(r) == Live(r) /\ rpc[r] \notin {"release_count", "release_permit", "notify"}

\* Runs that hold a permit, runs that are counted, the permit of the dispatcher.
HoldingRuns == {r \in Runs : Live(r) /\ rpc[r] # "notify"}
CountedRuns == {r \in HoldingRuns : rpc[r] # "release_permit"}
DispatcherHolds == dpc \in {"check_idle", "poll", "arm_item", "await_item", "increment", "spawn"}

-----------------------------------------------------------------------------
(* Safety of the worker pool. *)

\* At most Parallelism runs are ever between spawn and settling their item: the
\* limit the UI shows as parallelism_limit, kept by a semaphore whose permits
\* are forgotten by one task and added back by another (queue_processor.rs).
BoundedConcurrency == Cardinality({r \in Runs : Working(r)}) <= Parallelism

\* No permit is lost or made up: those available, those of the runs and that of
\* the dispatcher add up to Parallelism until the dispatcher is aborted, which
\* may take its own with it.
PermitsConserved ==
  LET inUse == Cardinality(HoldingRuns) + (IF DispatcherHolds THEN 1 ELSE 0)
  IN /\ permits + inUse <= Parallelism
     /\ dpc # "aborted" => permits + inUse = Parallelism

\* active_workers (a usize that workers decrement) counts the spawned runs that
\* have not decremented it, and the dispatcher's increment before its spawn.
WorkersCounted ==
  dpc # "aborted" =>
    active_workers = Cardinality(CountedRuns) + (IF dpc = "spawn" THEN 1 ELSE 0)

-----------------------------------------------------------------------------
(* Safety of the queue. *)

\* The deque and the list agree on an item nobody retried: it waits to be polled
\* exactly while it is listed as PENDING, whatever was cancelled or cleared.
QueueViewAgrees ==
  \A id \in 1..created \ retried : id \in IdsOf(inner) <=> HasStatus(id, "PENDING")

\* An item cancelled while it waited, and never retried, is not given to a run,
\* whatever the list says of it afterwards.
CancelledNeverRuns ==
  \A id \in withdrawn \ retried :
    /\ ditem # NoItem => ditem.id # id
    /\ \A r \in Runs : ritem[r] # NoItem => ritem[r].id # id

\* current_items holds only items in somebody's hands: the dispatcher's or a
\* run's that has yet to settle it.  (Only up to the first retry: retry_item
\* pushes a clone that no clear removes, and polling a clone whose entry is gone
\* puts an id in the map that a cancelled run does not take out again.)
CurrentIsOwned ==
  \A id \in current_items \ retried :
    \/ ditem # NoItem /\ ditem.id = id
    \/ \E r \in Runs : Working(r) /\ ritem[r].id = id

\* What a run found out about its item is what the list says once the run is
\* over, for an item that nobody cancelled, retried or cleared meanwhile.
OutcomeReflected ==
  \A r \in Runs :
    rpc[r] \in {"release_count", "release_permit", "notify", "done"} =>
      LET id == ritem[r].id
      IN id \in retried \cup cancelled \/ ~Listed(id) \/ Status(id) = rlocal[r]

\* execute always leaves a terminal status (or no session, after shutdown) in
\* the map, so process_queue_item never waits out its 65 minutes.
ExecuteLeavesTerminal ==
  \A r \in Runs : rpc[r] \in {"await", "settle"} => sessions[r] \notin Active

\* A fired token was fired by a cancel the run must honour: a run whose token is
\* fired when it finalizes ends CANCELLED in the session map.
FiredTokenHonoured ==
  \A r \in Runs :
    (tokens[r] = "fired" /\ rpc[r] \in {"link", "start", "check_cancel", "docker", "finalize"})
      ~> (rpc[r] = "done" /\ sessions[r] \in {"CANCELLED", Absent})

-----------------------------------------------------------------------------
(* Liveness. *)

\* A worker task ends, and with it gives back its permit.
RunsEnd == \A r \in Runs : (rpc[r] # "none") ~> (rpc[r] = "done")

\* A push that waits while some run is under way gets polled (or is cancelled or
\* cleared): the run's notify_capacity is stored for a dispatcher that is not
\* waiting yet, unlike the notification of the push itself.
BacklogDrains ==
  \A n \in Pushes :
    (n \in DOMAIN inner /\ \E r \in Runs : Live(r)) ~> (n \notin DOMAIN inner \/ spc # "up")

-----------------------------------------------------------------------------
(* The lifecycle an item goes through. *)

View == [id \in ItemIds |->
  IF id \in retried THEN "retried"
  ELSE IF Listed(id) THEN Status(id)
  ELSE IF id > created \/ \E h \in Handlers : \E k \in DOMAIN hbatch[h] : hbatch[h][k].id = id
       THEN "new" ELSE "cleared"]

Lifecycle == INSTANCE ItemLifecycle WITH Ids <- ItemIds, state <- View

\* The queue implements the lifecycle for every item, up to its first retry.
ItemsFollowLifecycle == Lifecycle!LifecycleSpec

-----------------------------------------------------------------------------
(* What the documents say and the code does not do. *)

\* queue.rs, add: "Wake the queue worker so it picks up the new item".
NewItemIsPickedUp ==
  \A n \in Pushes : n \in DOMAIN inner ~> (n \notin DOMAIN inner \/ spc # "up")
=============================================================================
