---------------------------- MODULE QueueProcessor ----------------------------
(***************************************************************************)
(* services/queue_processor.rs with the queue and the session manager it   *)
(* shares with the HTTP handlers.  The actors are the dispatcher task of   *)
(* start_queue_worker, one worker task per polled item (a "run"), the HTTP *)
(* handlers that schedule, cancel, clear and retry, and the shutdown       *)
(* sequence.  A step ends where an actor releases a lock or awaits, so     *)
(* everything the code lets happen in between can happen.                  *)
(***************************************************************************)
EXTENDS BenchmarkQueue, SessionManager, SequencesExt, FiniteSets

CONSTANTS
  Parallelism,  \* QueueConfig::parallelism
  Handlers,     \* HTTP handlers that may be in flight at once
  ClientOps,    \* which operations clients use in this instance
  NoItem

ASSUME PoolAssumption == Parallelism \in Nat \ {0} /\ NoItem \notin Item

Runs == Pushes

VARIABLES
  dpc,                \* where the dispatcher is
  ditem,              \* the item it has polled
  notified,           \* a permit stored in the Notify by notify_one
  permits,            \* available permits of worker_semaphore
  active_workers,     \* the counter of busy workers
  rpc, ritem,         \* per run: where its task is, the item it was given
  rlocal, rerr,       \* per run: status of its session copy, whether execute failed
  spawned,            \* worker tasks spawned so far
  succeeded,          \* keys with a successful result on disk
  hpc, hitem, hsess, hbatch,  \* per handler: where it is and its locals
  created, retries,   \* uuids created, retries accepted so far
  spc                 \* where the shutdown sequence is

dispatcherVars == <<dpc, ditem, notified>>
poolVars == <<permits, active_workers, spawned>>
runVars == <<rpc, ritem, rlocal, rerr, succeeded>>
handlerVars == <<hpc, hitem, hsess, hbatch, created, retries>>
vars == <<queueVars, sessionVars, dispatcherVars, poolVars, runVars, handlerVars, spc>>

DispatcherPC == {"not_started", "check_shutdown", "check_capacity", "arm_capacity",
  "await_capacity", "acquire", "backoff", "check_idle", "poll", "arm_item",
  "await_item", "increment", "spawn", "stopped", "aborted"}
RunPC == {"none", "insert_session", "insert_token", "link", "start", "check_cancel",
  "docker", "finalize", "publish", "await", "settle", "release_count",
  "release_permit", "notify", "done"}
HandlerPC == {"idle", "add", "cancel_item", "cancel_session", "clear_sessions"}

TypeOK ==
  /\ QueueTypeOK /\ SessionTypeOK
  /\ dpc \in DispatcherPC /\ ditem \in Item \cup {NoItem} /\ notified \in BOOLEAN
  /\ permits \in 0..Parallelism /\ active_workers \in 0..Parallelism
  /\ spawned \in 0..MaxPushes
  /\ rpc \in [Runs -> RunPC] /\ ritem \in [Runs -> Item \cup {NoItem}]
  /\ rlocal \in [Runs -> RunStatus] /\ rerr \in [Runs -> BOOLEAN]
  /\ succeeded \subseteq Keys
  /\ hpc \in [Handlers -> HandlerPC] /\ hitem \in [Handlers -> ItemIds]
  /\ hsess \in [Handlers -> SUBSET Sessions] /\ hbatch \in [Handlers -> Seq(Item)]
  /\ created \in 0..MaxItems /\ retries \in 0..MaxRetries
  /\ spc \in {"up", "sessions_cleared", "flagged", "down"}

Init ==
  /\ QueueInit /\ SessionInit
  /\ dpc = "not_started" /\ ditem = NoItem /\ notified = FALSE
  /\ permits = Parallelism /\ active_workers = 0 /\ spawned = 0
  /\ rpc = [r \in Runs |-> "none"] /\ ritem = [r \in Runs |-> NoItem]
  /\ rlocal = [r \in Runs |-> "PENDING"] /\ rerr = [r \in Runs |-> FALSE]
  /\ succeeded = {}
  /\ hpc = [h \in Handlers |-> "idle"] /\ hitem = [h \in Handlers |-> 1]
  /\ hsess = [h \in Handlers |-> {}] /\ hbatch = [h \in Handlers |-> <<>>]
  /\ created = 0 /\ retries = 0
  /\ spc = "up"

shutdown_requested == spc \in {"flagged", "down"}

-----------------------------------------------------------------------------
(* tokio's Notify.  The dispatcher is the only task that ever waits on it. *)

Woken == CASE dpc = "await_item" -> "check_idle"
           [] dpc = "await_capacity" -> "check_shutdown"
           [] OTHER -> dpc

\* Wakes who is waiting now; nothing is remembered for who is about to.
NotifyWaiters == dpc' = Woken /\ UNCHANGED notified

NotifyOneUnstored == NotifyWaiters  \* mutated: notify_waiters called instead

\* Wakes who is waiting now, else is stored for the next who waits.
NotifyOne == dpc' = Woken /\ notified' = (notified \/ Woken = dpc)

-----------------------------------------------------------------------------
(* The dispatcher. *)

DispatcherGoto(from, to) ==
  /\ dpc = from
  /\ dpc' = to

StartQueueWorker ==
  /\ DispatcherGoto("not_started", "check_shutdown")
  /\ UNCHANGED <<queueVars, sessionVars, ditem, notified, poolVars, runVars, handlerVars, spc>>

CheckShutdown ==
  /\ DispatcherGoto("check_shutdown", IF shutdown_requested THEN "stopped" ELSE "check_capacity")
  /\ UNCHANGED <<queueVars, sessionVars, ditem, notified, poolVars, runVars, handlerVars, spc>>

CheckCapacity ==
  /\ DispatcherGoto("check_capacity",
                    IF active_workers >= Parallelism THEN "arm_capacity" ELSE "acquire")
  /\ UNCHANGED <<queueVars, sessionVars, ditem, notified, poolVars, runVars, handlerVars, spc>>

\* notified() is created and first polled: it takes a stored permit or waits.
Arm(from, waiting, on) ==
  /\ DispatcherGoto(from, IF notified THEN on ELSE waiting)
  /\ notified' = FALSE
  /\ UNCHANGED <<queueVars, sessionVars, ditem, poolVars, runVars, handlerVars, spc>>

ArmCapacity == Arm("arm_capacity", "await_capacity", "check_shutdown")
ArmItem == Arm("arm_item", "await_item", "check_idle")

PermitGivenBack == permits  \* mutated: the owned permit is dropped, not forgotten
PermitForgotten == IF permits > 0 THEN permits - 1 ELSE permits

AcquirePermit ==
  /\ DispatcherGoto("acquire", IF permits > 0 THEN "check_idle" ELSE "backoff")
  /\ permits' = PermitForgotten
  /\ UNCHANGED <<queueVars, sessionVars, ditem, notified, active_workers, spawned,
                 runVars, handlerVars, spc>>

Backoff ==
  /\ DispatcherGoto("backoff", "check_shutdown")
  /\ UNCHANGED <<queueVars, sessionVars, ditem, notified, poolVars, runVars, handlerVars, spc>>

PermitNotReturned == permits  \* mutated: returns without add_permits
PermitReturned == IF shutdown_requested THEN permits + 1 ELSE permits

CheckIdle ==
  /\ DispatcherGoto("check_idle", IF shutdown_requested THEN "stopped" ELSE "poll")
  /\ permits' = PermitReturned
  /\ UNCHANGED <<queueVars, sessionVars, ditem, notified, active_workers, spawned,
                 runVars, handlerVars, spc>>

Poll ==
  /\ \/ /\ DispatcherGoto("poll", "increment")
        /\ PollNext
        /\ ditem' = Polled
     \/ /\ DispatcherGoto("poll", "arm_item")
        /\ DOMAIN inner = {}
        /\ UNCHANGED <<queueVars, ditem>>
  /\ UNCHANGED <<sessionVars, notified, poolVars, runVars, handlerVars, spc>>

IncrementWorkers ==
  /\ DispatcherGoto("increment", "spawn")
  /\ active_workers' = active_workers + 1
  /\ UNCHANGED <<queueVars, sessionVars, ditem, notified, permits, spawned,
                 runVars, handlerVars, spc>>

SpawnWorker ==
  /\ DispatcherGoto("spawn", "check_shutdown")
  /\ spawned < MaxPushes
  /\ spawned' = spawned + 1
  /\ rpc' = [rpc EXCEPT ![spawned + 1] = "insert_session"]
  /\ ritem' = [ritem EXCEPT ![spawned + 1] = ditem]
  /\ ditem' = NoItem
  /\ UNCHANGED <<queueVars, sessionVars, notified, permits, active_workers,
                 rlocal, rerr, succeeded, handlerVars, spc>>

DispatcherStep ==
  \/ CheckShutdown \/ CheckCapacity \/ ArmCapacity \/ AcquirePermit \/ Backoff
  \/ CheckIdle \/ Poll \/ ArmItem \/ IncrementWorkers \/ SpawnWorker

-----------------------------------------------------------------------------
(* A worker task: process_queue_item around BenchmarkExecutor::execute. *)

RunGoto(r, from, to) ==
  /\ rpc[r] = from
  /\ rpc' = [rpc EXCEPT ![r] = to]

CreateSession(r) ==
  /\ RunGoto(r, "insert_session", "insert_token")
  /\ InsertSession(r)
  /\ UNCHANGED <<queueVars, dispatcherVars, poolVars, ritem, rlocal, rerr, succeeded,
                 handlerVars, spc>>

RegisterToken(r) ==
  /\ RunGoto(r, "insert_token", "link")
  /\ InsertToken(r)
  /\ UNCHANGED <<queueVars, dispatcherVars, poolVars, ritem, rlocal, rerr, succeeded,
                 handlerVars, spc>>

LinkSession(r) ==
  /\ RunGoto(r, "link", "start")
  /\ SetSessionId(ritem[r].id, r)
  /\ UNCHANGED <<sessionVars, dispatcherVars, poolVars, ritem, rlocal, rerr, succeeded,
                 handlerVars, spc>>

StartSession(r) ==
  /\ RunGoto(r, "start", "check_cancel")
  /\ rlocal' = [rlocal EXCEPT ![r] = "RUNNING"]
  /\ UpdateSession(r, "RUNNING")
  /\ UNCHANGED <<queueVars, dispatcherVars, poolVars, ritem, rerr, succeeded, handlerVars, spc>>

CheckCancelled(r) ==
  /\ RunGoto(r, "check_cancel", IF tokens[r] = "fired" THEN "finalize" ELSE "docker")
  /\ UNCHANGED <<queueVars, sessionVars, dispatcherVars, poolVars, ritem, rlocal, rerr,
                 succeeded, handlerVars, spc>>

\* The container run ends: a successful result (saved, or the save fails and is
\* only logged), an unsuccessful one, or an error that execute returns.
RunExercise(r) ==
  /\ RunGoto(r, "docker", "finalize")
  /\ \/ /\ rlocal' = [rlocal EXCEPT ![r] = "COMPLETED"]
        /\ succeeded' \in {succeeded, succeeded \cup {ritem[r].key}}
        /\ UNCHANGED rerr
     \/ /\ rlocal' = [rlocal EXCEPT ![r] = "FAILED"]
        /\ rerr' \in {rerr, [rerr EXCEPT ![r] = TRUE]}
        /\ UNCHANGED succeeded
  /\ UNCHANGED <<queueVars, sessionVars, dispatcherVars, poolVars, ritem, handlerVars, spc>>

\* mutated: the local copy's status is trusted / the token is not looked at
FinalStatusTrusted(r) == rlocal[r]
FinalStatusUncancelled(r) == IF rlocal[r] = "FAILED" THEN "FAILED" ELSE "COMPLETED"

FinalStatus(r) ==
  IF tokens[r] = "fired" THEN "CANCELLED"
  ELSE IF rlocal[r] = "FAILED" THEN "FAILED" ELSE "COMPLETED"

Finalize(r) ==
  /\ RunGoto(r, "finalize", "publish")
  /\ rlocal' = [rlocal EXCEPT ![r] = FinalStatus(r)]
  /\ UNCHANGED <<queueVars, sessionVars, dispatcherVars, poolVars, ritem, rerr, succeeded,
                 handlerVars, spc>>

AfterPublishBailing(r) == IF rerr[r] THEN "done" ELSE "await"  \* mutated: Err ends the task
AfterPublish(r) == IF rerr[r] THEN "settle" ELSE "await"

\* execute's last update; an Err makes process_queue_item fail the item without
\* looking at the session.
PublishStatus(r) ==
  /\ RunGoto(r, "publish", AfterPublish(r))
  /\ rlocal' = IF rerr[r] THEN [rlocal EXCEPT ![r] = "FAILED"] ELSE rlocal
  /\ rerr' = [rerr EXCEPT ![r] = FALSE]
  /\ UpdateSession(r, rlocal[r])
  /\ UNCHANGED <<queueVars, dispatcherVars, poolVars, ritem, succeeded, handlerVars, spc>>

VerdictsWithoutFailed(r) == {sessions[r]} \ {"FAILED"}  \* mutated: FAILED not matched

\* The wait loop reads the session: a terminal status is the verdict; a missing
\* or still active session is given up on as FAILED (after 10 s, after 65 min).
Verdicts(r) == {IF sessions[r] \in Terminal THEN sessions[r] ELSE "FAILED"}

AwaitSession(r) ==
  /\ RunGoto(r, "await", "settle")
  /\ \E status \in Verdicts(r) : rlocal' = [rlocal EXCEPT ![r] = status]
  /\ UNCHANGED <<queueVars, sessionVars, dispatcherVars, poolVars, ritem, rerr, succeeded,
                 handlerVars, spc>>

SettleItem(r) ==
  /\ RunGoto(r, "settle", "release_count")
  /\ IF rlocal[r] = "CANCELLED"
     THEN IF Listed(ritem[r].id) THEN CancelItem(ritem[r].id) ELSE UNCHANGED queueVars
     ELSE FinishCurrent(ritem[r].id, rlocal[r])
  /\ UNCHANGED <<sessionVars, dispatcherVars, poolVars, ritem, rlocal, rerr, succeeded,
                 handlerVars, spc>>

ReleaseCount(r) ==
  /\ RunGoto(r, "release_count", "release_permit")
  /\ active_workers' = active_workers - 1
  /\ UNCHANGED <<queueVars, sessionVars, dispatcherVars, permits, spawned, ritem, rlocal, rerr,
                 succeeded, handlerVars, spc>>

ReleasePermit(r) ==
  /\ RunGoto(r, "release_permit", "notify")
  /\ permits' = permits + 1
  /\ UNCHANGED <<queueVars, sessionVars, dispatcherVars, active_workers, spawned, ritem, rlocal,
                 rerr, succeeded, handlerVars, spc>>

NotifyCapacity(r) ==
  /\ RunGoto(r, "notify", "done")
  /\ NotifyOne
  /\ UNCHANGED <<queueVars, sessionVars, ditem, poolVars, ritem, rlocal, rerr, succeeded,
                 handlerVars, spc>>

RunStep(r) ==
  \/ CreateSession(r) \/ RegisterToken(r) \/ LinkSession(r) \/ StartSession(r)
  \/ CheckCancelled(r) \/ RunExercise(r) \/ Finalize(r) \/ PublishStatus(r)
  \/ AwaitSession(r) \/ SettleItem(r) \/ ReleaseCount(r) \/ ReleasePermit(r)
  \/ NotifyCapacity(r)

-----------------------------------------------------------------------------
(* HTTP handlers.  A handler that takes two locks in turn keeps what it read *)
(* under the first in its locals.                                          *)

Call(h, op) == op \in ClientOps /\ hpc[h] = "idle" /\ spc # "down"

NewItem(id, key) == [id |-> id, key |-> key, status |-> "PENDING", session |-> NoSession]

\* schedule_batch up to add_all: the keys that survive the checks, in the order
\* asked for (any order when retry sorts by the durations found on disk).  Mode
\* "all" has no check against the queue; neither check is made when retry.
ScheduleBatch(h) ==
  /\ Call(h, "schedule")
  /\ \E requested \in SUBSET Keys, mode \in {"single", "all"}, retry \in BOOLEAN :
       LET skipped == IF retry THEN {}
                      ELSE succeeded \cup (IF mode = "single" THEN PendingKeys ELSE {})
           kept == requested \ skipped
       IN /\ created + Cardinality(kept) <= MaxItems
          /\ \E order \in (IF retry THEN SetToSeqs(kept) ELSE {SetToSeq(kept)}) :
               hbatch' = [hbatch EXCEPT ![h] =
                            [k \in DOMAIN order |-> NewItem(created + k, order[k])]]
          /\ created' = created + Cardinality(kept)
  /\ hpc' = [hpc EXCEPT ![h] = "add"]
  /\ UNCHANGED <<queueVars, sessionVars, dispatcherVars, poolVars, runVars, hitem, hsess,
                 retries, spc>>

\* retry_item up to the end of its locked block.
RetryItem(h) ==
  /\ Call(h, "retry") /\ retries < MaxRetries
  /\ \E id \in 1..created :
       /\ RetryReset(id)
       /\ hbatch' = [hbatch EXCEPT ![h] = <<RetryClone(id)>>]
  /\ retries' = retries + 1
  /\ hpc' = [hpc EXCEPT ![h] = "add"]
  /\ UNCHANGED <<sessionVars, dispatcherVars, poolVars, runVars, hitem, hsess, created, spc>>

\* add_all, and the add with which retry_item ends.
AddItems(h) ==
  /\ hpc[h] = "add"
  /\ AddAll(hbatch[h])
  /\ NotifyWaiters
  /\ hpc' = [hpc EXCEPT ![h] = "idle"]
  /\ hbatch' = [hbatch EXCEPT ![h] = <<>>]
  /\ UNCHANGED <<sessionVars, ditem, poolVars, runVars, hitem, hsess, created, retries, spc>>

\* cancel_queue_item reads the session id, then cancels the item, then the session.
CancelQueueItem(h) ==
  /\ Call(h, "cancel_item")
  /\ \E id \in 1..created :
       /\ hitem' = [hitem EXCEPT ![h] = id]
       /\ hsess' = [hsess EXCEPT ![h] = {SessionIdFor(id)} \ {NoSession}]
  /\ hpc' = [hpc EXCEPT ![h] = "cancel_item"]
  /\ UNCHANGED <<queueVars, sessionVars, dispatcherVars, poolVars, runVars, hbatch, created,
                 retries, spc>>

CancelTheItem(h) ==
  /\ hpc[h] = "cancel_item"
  /\ \/ /\ CancelItem(hitem[h])
        /\ hpc' = [hpc EXCEPT ![h] = IF hsess[h] = {} THEN "idle" ELSE "cancel_session"]
        /\ UNCHANGED hsess
     \/ /\ ~Listed(hitem[h])
        /\ hpc' = [hpc EXCEPT ![h] = "idle"]
        /\ hsess' = [hsess EXCEPT ![h] = {}]
        /\ UNCHANGED queueVars
  /\ UNCHANGED <<sessionVars, dispatcherVars, poolVars, runVars, hitem, hbatch, created,
                 retries, spc>>

CancelOrNot(s) == IF sessions[s] \in Active THEN CancelSession(s) ELSE UNCHANGED sessionVars

CancelTheSession(h) ==
  /\ hpc[h] = "cancel_session"
  /\ \E s \in hsess[h] : CancelOrNot(s)
  /\ hpc' = [hpc EXCEPT ![h] = "idle"]
  /\ hsess' = [hsess EXCEPT ![h] = {}]
  /\ UNCHANGED <<queueVars, dispatcherVars, poolVars, runVars, hitem, hbatch, created,
                 retries, spc>>

\* POST /api/benchmark/{id}/cancel when it answers "cancelled".
CancelBenchmark(h) ==
  /\ Call(h, "cancel_session")
  /\ \E s \in Sessions : CancelSession(s)
  /\ UNCHANGED <<queueVars, dispatcherVars, poolVars, runVars, handlerVars, spc>>

ClearPendingQueue(h) ==
  /\ Call(h, "clear_pending")
  /\ ClearPending
  /\ UNCHANGED <<sessionVars, dispatcherVars, poolVars, runVars, handlerVars, spc>>

ClearCompletedAndCancelled(h) ==
  /\ Call(h, "clear_terminal")
  /\ ClearTerminalItems
  /\ UNCHANGED <<sessionVars, dispatcherVars, poolVars, runVars, handlerVars, spc>>

\* clear_all: cancel the sessions that were active, one by one, then wipe.
ClearAll(h) ==
  /\ Call(h, "clear_all")
  /\ hsess' = [hsess EXCEPT ![h] = {s \in Sessions : sessions[s] \in Active}]
  /\ hpc' = [hpc EXCEPT ![h] = "clear_sessions"]
  /\ UNCHANGED <<queueVars, sessionVars, dispatcherVars, poolVars, runVars, hitem, hbatch,
                 created, retries, spc>>

ClearAllStep(h) ==
  /\ hpc[h] = "clear_sessions"
  /\ \/ \E s \in hsess[h] :
          /\ CancelOrNot(s)
          /\ hsess' = [hsess EXCEPT ![h] = @ \ {s}]
          /\ UNCHANGED <<queueVars, hpc>>
     \/ /\ hsess[h] = {}
        /\ ClearAllItems
        /\ hpc' = [hpc EXCEPT ![h] = "idle"]
        /\ UNCHANGED <<sessionVars, hsess>>
  /\ UNCHANGED <<dispatcherVars, poolVars, runVars, hitem, hbatch, created, retries, spc>>

HandlerCall(h) ==
  \/ ScheduleBatch(h) \/ RetryItem(h) \/ CancelQueueItem(h) \/ CancelBenchmark(h)
  \/ ClearPendingQueue(h) \/ ClearCompletedAndCancelled(h) \/ ClearAll(h)
HandlerStep(h) ==
  AddItems(h) \/ CancelTheItem(h) \/ CancelTheSession(h) \/ ClearAllStep(h)

-----------------------------------------------------------------------------
(* BenchmarkService::shutdown: the sessions first, then the flag, then abort. *)

ShutdownSessionManager ==
  /\ "shutdown" \in ClientOps /\ spc = "up"
  /\ ShutdownSessions
  /\ spc' = "sessions_cleared"
  /\ UNCHANGED <<queueVars, dispatcherVars, poolVars, runVars, handlerVars>>

RequestShutdown ==
  /\ spc = "sessions_cleared"
  /\ spc' = "flagged"
  /\ UNCHANGED <<queueVars, sessionVars, dispatcherVars, poolVars, runVars, handlerVars>>

\* An abort takes effect where the task awaits; what the task held is dropped
\* with it, a forgotten permit included.
AbortQueueTask ==
  /\ spc = "flagged"
  /\ dpc \notin {"acquire", "poll"}
  /\ spc' = "down"
  /\ dpc' = IF dpc \in {"not_started", "stopped"} THEN dpc ELSE "aborted"
  /\ UNCHANGED <<queueVars, sessionVars, ditem, notified, poolVars, runVars, handlerVars>>

ShutdownStep == RequestShutdown \/ AbortQueueTask

-----------------------------------------------------------------------------
Next ==
  \/ StartQueueWorker
  \/ DispatcherStep
  \/ \E r \in Runs : RunStep(r)
  \/ \E h \in Handlers : HandlerCall(h) \/ HandlerStep(h)
  \/ ShutdownSessionManager
  \/ ShutdownStep

(***************************************************************************)
(* tokio keeps polling a task that is ready, so every actor that can move  *)
(* does; that a container run ends is the business of its deadline.  What  *)
(* clients call, and whether they call at all, is theirs.                  *)
(***************************************************************************)
Fairness ==
  /\ WF_vars(StartQueueWorker)
  /\ WF_vars(DispatcherStep)
  /\ \A r \in Runs : WF_vars(RunStep(r))
  /\ \A h \in Handlers : WF_vars(HandlerStep(h))
  /\ WF_vars(ShutdownStep)

Spec == Init /\ [][Next]_vars
FairSpec == Spec /\ Fairness
=============================================================================
