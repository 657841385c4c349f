----------------------------- MODULE Queue_proofs -----------------------------
(***************************************************************************)
(* The workers, for every Parallelism, number of items and of handlers:    *)
(* permits are conserved, active_workers counts the workers, and never more*)
(* than Parallelism items are worked on at once; whatever clients cancel   *)
(* and shutdown clears, no waiter of BenchmarkExecutor::execute finds its  *)
(* session still active; and every variable of the queue processor keeps   *)
(* its type, the bounds of permits and of active_workers being those of    *)
(* the invariant of the worker pool.                                       *)
(***************************************************************************)
EXTENDS QueueProperties, FiniteSetTheorems, WellFoundedInduction, TLAPS

(* The worker pool. *)

PoolType ==
  /\ permits \in Nat /\ active_workers \in Int /\ spawned \in Nat
  /\ dpc \in DispatcherPC
  /\ rpc \in [Runs -> RunPC]

\* Worker tasks are numbered as they are spawned.
SpawnOrder == \A r \in Runs : rpc[r] = "none" <=> r > spawned

\* What WorkersCounted leaves of the counter once the dispatcher is aborted.
WorkersBounded ==
  /\ Cardinality(CountedRuns) <= active_workers
  /\ active_workers <= Parallelism

PoolInv == PoolType /\ SpawnOrder /\ PermitsConserved /\ WorkersCounted /\ WorkersBounded

poolView == <<permits, active_workers, spawned, dpc, rpc>>

-----------------------------------------------------------------------------
(* Runs are finitely many, so are the sets of them. *)

LEMMA RunsFinite == IsFiniteSet(Runs) /\ MaxPushes \in Nat /\ Runs \subseteq Nat
BY BoundsAssumption, FS_Interval DEF Runs, Pushes, MaxPushes

LEMMA RunSetFinite ==
  ASSUME NEW S, S \subseteq Runs
  PROVE  IsFiniteSet(S) /\ Cardinality(S) \in Nat
BY RunsFinite, FS_Subset, FS_CardinalityType

LEMMA HoldingFinite ==
  /\ HoldingRuns \subseteq Runs /\ CountedRuns \subseteq HoldingRuns
  /\ IsFiniteSet(HoldingRuns) /\ Cardinality(HoldingRuns) \in Nat
  /\ IsFiniteSet(CountedRuns) /\ Cardinality(CountedRuns) \in Nat
  /\ Cardinality(CountedRuns) <= Cardinality(HoldingRuns)
<1>1. HoldingRuns \subseteq Runs /\ CountedRuns \subseteq HoldingRuns
  BY DEF HoldingRuns, CountedRuns
<1>2. IsFiniteSet(HoldingRuns) /\ Cardinality(HoldingRuns) \in Nat
  BY <1>1, RunSetFinite
<1>3. IsFiniteSet(CountedRuns) /\ Cardinality(CountedRuns) \in Nat
  BY <1>1, RunSetFinite
<1>4. Cardinality(CountedRuns) <= Cardinality(HoldingRuns)
  BY <1>1, <1>2, FS_Subset
<1> QED BY <1>1, <1>2, <1>3, <1>4

-----------------------------------------------------------------------------
LEMMA PoolInit == Init => PoolInv
<1> SUFFICES ASSUME Init PROVE PoolInv
  OBVIOUS
<1>1. PoolType /\ SpawnOrder
  BY PoolAssumption, RunsFinite DEF Init, PoolType, SpawnOrder, DispatcherPC, RunPC
<1>2. HoldingRuns = {} /\ CountedRuns = {}
  BY DEF Init, HoldingRuns, CountedRuns, Live
<1>3. PermitsConserved /\ WorkersCounted /\ WorkersBounded
  BY <1>2, FS_EmptySet, PoolAssumption
     DEF Init, PermitsConserved, WorkersCounted, WorkersBounded, DispatcherHolds
<1> QED BY <1>1, <1>3 DEF PoolInv

\* A step that leaves the pool alone.
LEMMA PoolUnchanged == PoolInv /\ UNCHANGED poolView => PoolInv'
BY DEF PoolInv, poolView, PoolType, SpawnOrder, PermitsConserved, WorkersCounted,
   WorkersBounded, HoldingRuns, CountedRuns, Live, DispatcherHolds

-----------------------------------------------------------------------------
(* The dispatcher's moves. *)

Elsewhere == <<permits, active_workers, spawned, rpc>>

\* The dispatcher goes from one place to another without touching its permit.
LEMMA DispatcherMoves ==
  ASSUME PoolInv, dpc # "aborted", dpc' \in DispatcherPC \ {"aborted"},
         DispatcherHolds' = DispatcherHolds, dpc # "spawn", dpc' # "spawn",
         UNCHANGED Elsewhere
  PROVE  PoolInv'
<1>1. HoldingRuns' = HoldingRuns /\ CountedRuns' = CountedRuns
  BY DEF Elsewhere, HoldingRuns, CountedRuns, Live
<1> QED
  BY <1>1 DEF PoolInv, Elsewhere, PoolType, SpawnOrder, PermitsConserved, WorkersCounted,
     WorkersBounded

LEMMA PoolWoken ==
  ASSUME PoolInv, dpc' = Woken, UNCHANGED Elsewhere
  PROVE  PoolInv'
<1>1. CASE dpc' = dpc
  BY <1>1, PoolUnchanged DEF poolView, Elsewhere
<1>2. CASE dpc = "await_item"
  BY <1>2, DispatcherMoves DEF Woken, DispatcherHolds, DispatcherPC
<1>3. CASE dpc = "await_capacity"
  BY <1>3, DispatcherMoves DEF Woken, DispatcherHolds, DispatcherPC
<1> QED BY <1>1, <1>2, <1>3 DEF Woken

LEMMA PoolAcquire == PoolInv /\ AcquirePermit => PoolInv'
<1> SUFFICES ASSUME PoolInv, AcquirePermit PROVE PoolInv'
  OBVIOUS
<1>1. HoldingRuns' = HoldingRuns /\ CountedRuns' = CountedRuns
  BY DEF AcquirePermit, runVars, HoldingRuns, CountedRuns, Live
<1>2. PoolType' /\ SpawnOrder'
  BY DEF AcquirePermit, PermitForgotten, DispatcherGoto, runVars, PoolInv, PoolType,
     DispatcherPC, SpawnOrder
<1>3. PermitsConserved'
  BY <1>1, HoldingFinite DEF AcquirePermit, PermitForgotten, DispatcherGoto, DispatcherHolds,
     PoolInv, PoolType, PermitsConserved
<1>4. WorkersCounted' /\ WorkersBounded'
  BY <1>1 DEF AcquirePermit, DispatcherGoto, PoolInv, WorkersCounted, WorkersBounded
<1> QED BY <1>2, <1>3, <1>4 DEF PoolInv

LEMMA PoolCheckIdle == PoolInv /\ CheckIdle => PoolInv'
<1> SUFFICES ASSUME PoolInv, CheckIdle PROVE PoolInv'
  OBVIOUS
<1>1. HoldingRuns' = HoldingRuns /\ CountedRuns' = CountedRuns
  BY DEF CheckIdle, runVars, HoldingRuns, CountedRuns, Live
<1>2. PoolType' /\ SpawnOrder'
  BY DEF CheckIdle, PermitReturned, DispatcherGoto, runVars, PoolInv, PoolType,
     DispatcherPC, SpawnOrder
<1>3. PermitsConserved'
  BY <1>1, HoldingFinite DEF CheckIdle, PermitReturned, DispatcherGoto, DispatcherHolds,
     PoolInv, PoolType, PermitsConserved
<1>4. WorkersCounted' /\ WorkersBounded'
  BY <1>1 DEF CheckIdle, DispatcherGoto, PoolInv, WorkersCounted, WorkersBounded
<1> QED BY <1>2, <1>3, <1>4 DEF PoolInv

\* The permit the dispatcher holds leaves room for one more counted worker.
LEMMA PoolIncrement == PoolInv /\ IncrementWorkers => PoolInv'
<1> SUFFICES ASSUME PoolInv, IncrementWorkers PROVE PoolInv'
  OBVIOUS
<1>1. HoldingRuns' = HoldingRuns /\ CountedRuns' = CountedRuns
  BY DEF IncrementWorkers, runVars, HoldingRuns, CountedRuns, Live
<1>2. PoolType' /\ SpawnOrder'
  BY DEF IncrementWorkers, DispatcherGoto, runVars, PoolInv, PoolType, DispatcherPC, SpawnOrder
<1>3. PermitsConserved'
  BY <1>1 DEF IncrementWorkers, DispatcherGoto, DispatcherHolds, PoolInv, PermitsConserved
<1>4. WorkersCounted'
  BY <1>1, HoldingFinite DEF IncrementWorkers, DispatcherGoto, PoolInv, WorkersCounted
<1>5. WorkersBounded'
  BY <1>1, HoldingFinite, PoolAssumption
     DEF IncrementWorkers, DispatcherGoto, DispatcherHolds, PoolInv, PoolType, PermitsConserved,
         WorkersCounted, WorkersBounded
<1> QED BY <1>2, <1>3, <1>4, <1>5 DEF PoolInv

LEMMA PoolAbort == PoolInv /\ AbortQueueTask => PoolInv'
<1> SUFFICES ASSUME PoolInv, AbortQueueTask PROVE PoolInv'
  OBVIOUS
<1>1. HoldingRuns' = HoldingRuns /\ CountedRuns' = CountedRuns
  BY DEF AbortQueueTask, runVars, HoldingRuns, CountedRuns, Live
<1>2. UNCHANGED Elsewhere
  BY DEF AbortQueueTask, poolVars, runVars, Elsewhere
<1>3. CASE dpc' = dpc
  BY <1>2, <1>3, PoolUnchanged DEF Elsewhere, poolView
<1>4. CASE dpc' = "aborted"
  BY <1>1, <1>2, <1>4, HoldingFinite DEF Elsewhere, PoolInv, PoolType, SpawnOrder, DispatcherPC,
     DispatcherHolds, PermitsConserved, WorkersCounted, WorkersBounded
<1> QED BY <1>3, <1>4 DEF AbortQueueTask

-----------------------------------------------------------------------------
(* The runs' moves. *)

\* A run that holds and counts goes on doing so.
LEMMA RunMoves ==
  ASSUME PoolInv, NEW r \in Runs, NEW to,
         rpc[r] \in RunPC \ {"none", "release_count", "release_permit", "notify", "done"},
         to \in RunPC \ {"none", "release_permit", "notify", "done"},
         rpc' = [rpc EXCEPT ![r] = to],
         UNCHANGED <<permits, active_workers, spawned, dpc>>
  PROVE  PoolInv'
<1>1. HoldingRuns' = HoldingRuns /\ CountedRuns' = CountedRuns
  BY DEF HoldingRuns, CountedRuns, Live, PoolInv, PoolType
<1>2. PoolType' /\ SpawnOrder'
  BY DEF PoolInv, PoolType, SpawnOrder
<1> QED
  BY <1>1, <1>2 DEF PoolInv, PermitsConserved, WorkersCounted, WorkersBounded, DispatcherHolds

LEMMA PoolSpawn == PoolInv /\ SpawnWorker => PoolInv'
<1> SUFFICES ASSUME PoolInv, SpawnWorker PROVE PoolInv'
  OBVIOUS
<1> DEFINE r == spawned + 1
<1>1. r \in Runs /\ rpc[r] = "none"
  BY RunsFinite DEF SpawnWorker, PoolInv, PoolType, SpawnOrder, Runs, Pushes
<1>2. HoldingRuns' = HoldingRuns \cup {r} /\ r \notin HoldingRuns
  BY <1>1 DEF SpawnWorker, PoolInv, PoolType, HoldingRuns, Live
<1>3. CountedRuns' = CountedRuns \cup {r} /\ r \notin CountedRuns
  BY <1>1 DEF SpawnWorker, PoolInv, PoolType, HoldingRuns, CountedRuns, Live
<1>4. /\ Cardinality(HoldingRuns') = Cardinality(HoldingRuns) + 1
      /\ Cardinality(CountedRuns') = Cardinality(CountedRuns) + 1
  BY <1>2, <1>3, HoldingFinite, FS_AddElement
<1>5. PoolType'
  <2>1. rpc' \in [Runs -> RunPC]
    BY DEF SpawnWorker, PoolInv, PoolType, RunPC
  <2>2. spawned' \in Nat /\ UNCHANGED <<permits, active_workers>>
    BY DEF SpawnWorker, PoolInv, PoolType
  <2>3. dpc' \in DispatcherPC
    BY DEF SpawnWorker, DispatcherGoto, DispatcherPC
  <2> QED BY <2>1, <2>2, <2>3 DEF PoolInv, PoolType
<1>6. SpawnOrder'
  BY <1>1, RunsFinite DEF SpawnWorker, PoolInv, PoolType, SpawnOrder
<1>7. PermitsConserved'
  BY <1>4, HoldingFinite, PoolAssumption
     DEF SpawnWorker, DispatcherGoto, DispatcherHolds, PoolInv, PoolType, PermitsConserved
<1>8. WorkersCounted' /\ WorkersBounded'
  BY <1>4, HoldingFinite
     DEF SpawnWorker, DispatcherGoto, PoolInv, PoolType, WorkersCounted, WorkersBounded
<1> QED BY <1>5, <1>6, <1>7, <1>8 DEF PoolInv

LEMMA PoolReleaseCount == ASSUME NEW r \in Runs PROVE PoolInv /\ ReleaseCount(r) => PoolInv'
<1> SUFFICES ASSUME PoolInv, ReleaseCount(r) PROVE PoolInv'
  OBVIOUS
<1>1. HoldingRuns' = HoldingRuns
  BY DEF ReleaseCount, RunGoto, PoolInv, PoolType, HoldingRuns, Live
<1>2. CountedRuns' = CountedRuns \ {r} /\ r \in CountedRuns
  BY DEF ReleaseCount, RunGoto, PoolInv, PoolType, HoldingRuns, CountedRuns, Live
<1>3. Cardinality(CountedRuns') = Cardinality(CountedRuns) - 1
  BY <1>2, HoldingFinite, FS_RemoveElement
<1>4. PoolType' /\ SpawnOrder'
  BY DEF ReleaseCount, RunGoto, dispatcherVars, PoolInv, PoolType, SpawnOrder, RunPC
<1>5. PermitsConserved'
  BY <1>1 DEF ReleaseCount, dispatcherVars, DispatcherHolds, PoolInv, PermitsConserved
<1>6. WorkersCounted' /\ WorkersBounded'
  BY <1>3, HoldingFinite, PoolAssumption
     DEF ReleaseCount, dispatcherVars, PoolInv, PoolType, WorkersCounted, WorkersBounded
<1> QED BY <1>4, <1>5, <1>6 DEF PoolInv

LEMMA PoolReleasePermit == ASSUME NEW r \in Runs PROVE PoolInv /\ ReleasePermit(r) => PoolInv'
<1> SUFFICES ASSUME PoolInv, ReleasePermit(r) PROVE PoolInv'
  OBVIOUS
<1>1. HoldingRuns' = HoldingRuns \ {r} /\ r \in HoldingRuns
  BY DEF ReleasePermit, RunGoto, PoolInv, PoolType, HoldingRuns, Live
<1>2. CountedRuns' = CountedRuns
  BY DEF ReleasePermit, RunGoto, PoolInv, PoolType, HoldingRuns, CountedRuns, Live
<1>3. Cardinality(HoldingRuns') = Cardinality(HoldingRuns) - 1
  BY <1>1, HoldingFinite, FS_RemoveElement
<1>4. PoolType' /\ SpawnOrder'
  BY DEF ReleasePermit, RunGoto, dispatcherVars, PoolInv, PoolType, SpawnOrder, RunPC
<1>5. PermitsConserved'
  BY <1>3, HoldingFinite, PoolAssumption
     DEF ReleasePermit, dispatcherVars, DispatcherHolds, PoolInv, PoolType, PermitsConserved
<1>6. WorkersCounted' /\ WorkersBounded'
  BY <1>2 DEF ReleasePermit, dispatcherVars, PoolInv, WorkersCounted, WorkersBounded
<1> QED BY <1>4, <1>5, <1>6 DEF PoolInv

\* The run's own move changes nothing; the dispatcher may be woken by it.
LEMMA PoolNotifyCapacity == ASSUME NEW r \in Runs PROVE PoolInv /\ NotifyCapacity(r) => PoolInv'
<1> SUFFICES ASSUME PoolInv, NotifyCapacity(r) PROVE PoolInv'
  OBVIOUS
<1>1. HoldingRuns' = HoldingRuns /\ CountedRuns' = CountedRuns
  BY DEF NotifyCapacity, RunGoto, PoolInv, PoolType, HoldingRuns, CountedRuns, Live
<1>2. dpc' = Woken /\ UNCHANGED poolVars
  BY DEF NotifyCapacity, NotifyOne
<1>3. /\ DispatcherHolds' = DispatcherHolds
      /\ dpc' \in DispatcherPC
      /\ dpc' = "aborted" <=> dpc = "aborted"
      /\ dpc' = "spawn" <=> dpc = "spawn"
  BY <1>2 DEF Woken, DispatcherHolds, PoolInv, PoolType, DispatcherPC
<1>4. PoolType' /\ SpawnOrder'
  BY <1>2, <1>3 DEF NotifyCapacity, RunGoto, poolVars, PoolInv, PoolType, SpawnOrder, RunPC
<1>5. PermitsConserved' /\ WorkersCounted' /\ WorkersBounded'
  BY <1>1, <1>2, <1>3 DEF poolVars, PoolInv, PermitsConserved, WorkersCounted, WorkersBounded
<1> QED BY <1>4, <1>5 DEF PoolInv

-----------------------------------------------------------------------------
LEMMA PoolDispatcherStep == PoolInv /\ DispatcherStep => PoolInv'
<1> SUFFICES ASSUME PoolInv, DispatcherStep PROVE PoolInv'
  OBVIOUS
<1>1. CASE CheckShutdown
  BY <1>1, DispatcherMoves
     DEF CheckShutdown, DispatcherGoto, DispatcherHolds, DispatcherPC, Elsewhere, poolVars, runVars
<1>2. CASE CheckCapacity
  BY <1>2, DispatcherMoves
     DEF CheckCapacity, DispatcherGoto, DispatcherHolds, DispatcherPC, Elsewhere, poolVars, runVars
<1>3. CASE ArmCapacity
  BY <1>3, DispatcherMoves
     DEF ArmCapacity, Arm, DispatcherGoto, DispatcherHolds, DispatcherPC, Elsewhere, poolVars,
         runVars
<1>4. CASE AcquirePermit
  BY <1>4, PoolAcquire
<1>5. CASE Backoff
  BY <1>5, DispatcherMoves
     DEF Backoff, DispatcherGoto, DispatcherHolds, DispatcherPC, Elsewhere, poolVars, runVars
<1>6. CASE CheckIdle
  BY <1>6, PoolCheckIdle
<1>7. CASE Poll
  BY <1>7, DispatcherMoves
     DEF Poll, DispatcherGoto, DispatcherHolds, DispatcherPC, Elsewhere, poolVars, runVars
<1>8. CASE ArmItem
  BY <1>8, DispatcherMoves
     DEF ArmItem, Arm, DispatcherGoto, DispatcherHolds, DispatcherPC, Elsewhere, poolVars, runVars
<1>9. CASE IncrementWorkers
  BY <1>9, PoolIncrement
<1>10. CASE SpawnWorker
  BY <1>10, PoolSpawn
<1> QED
  BY <1>1, <1>2, <1>3, <1>4, <1>5, <1>6, <1>7, <1>8, <1>9, <1>10 DEF DispatcherStep

LEMMA PoolRunStep == ASSUME NEW r \in Runs PROVE PoolInv /\ RunStep(r) => PoolInv'
<1> SUFFICES ASSUME PoolInv, RunStep(r) PROVE PoolInv'
  OBVIOUS
<1> USE DEF RunGoto, RunPC, poolVars, dispatcherVars
<1>1. CASE CreateSession(r)
  BY <1>1, RunMoves DEF CreateSession
<1>2. CASE RegisterToken(r)
  BY <1>2, RunMoves DEF RegisterToken
<1>3. CASE LinkSession(r)
  BY <1>3, RunMoves DEF LinkSession
<1>4. CASE StartSession(r)
  BY <1>4, RunMoves DEF StartSession
<1>5. CASE CheckCancelled(r)
  BY <1>5, RunMoves DEF CheckCancelled
<1>6. CASE RunExercise(r)
  BY <1>6, RunMoves DEF RunExercise
<1>7. CASE Finalize(r)
  BY <1>7, RunMoves DEF Finalize
<1>8. CASE PublishStatus(r)
  BY <1>8, RunMoves DEF PublishStatus, AfterPublish
<1>9. CASE AwaitSession(r)
  BY <1>9, RunMoves DEF AwaitSession
<1>10. CASE SettleItem(r)
  BY <1>10, RunMoves DEF SettleItem
<1>11. CASE ReleaseCount(r)
  BY <1>11, PoolReleaseCount
<1>12. CASE ReleasePermit(r)
  BY <1>12, PoolReleasePermit
<1>13. CASE NotifyCapacity(r)
  BY <1>13, PoolNotifyCapacity
<1> QED
  BY <1>1, <1>2, <1>3, <1>4, <1>5, <1>6, <1>7, <1>8, <1>9, <1>10, <1>11, <1>12, <1>13
     DEF RunStep

\* Handlers leave the pool alone; the one that adds items may wake the dispatcher.
LEMMA PoolHandler ==
  ASSUME NEW h \in Handlers
  PROVE  PoolInv /\ (HandlerCall(h) \/ HandlerStep(h)) => PoolInv'
<1> SUFFICES ASSUME PoolInv, HandlerCall(h) \/ HandlerStep(h) PROVE PoolInv'
  OBVIOUS
<1>1. CASE AddItems(h)
  BY <1>1, PoolWoken DEF AddItems, NotifyWaiters, poolVars, runVars, Elsewhere
<1>2. CASE ~AddItems(h)
  <2>1. UNCHANGED poolView
    BY <1>2 DEF HandlerCall, HandlerStep, ScheduleBatch, RetryItem, CancelQueueItem,
       CancelBenchmark, ClearPendingQueue, ClearCompletedAndCancelled, ClearAll, CancelTheItem,
       CancelTheSession, ClearAllStep, poolView, poolVars, runVars, dispatcherVars
  <2> QED BY <2>1, PoolUnchanged
<1> QED BY <1>1, <1>2

LEMMA PoolNext == PoolInv /\ [Next]_vars => PoolInv'
<1> SUFFICES ASSUME PoolInv, [Next]_vars PROVE PoolInv'
  OBVIOUS
<1>1. CASE StartQueueWorker
  BY <1>1, DispatcherMoves
     DEF StartQueueWorker, DispatcherGoto, DispatcherHolds, DispatcherPC, Elsewhere, poolVars,
         runVars
<1>2. CASE DispatcherStep
  BY <1>2, PoolDispatcherStep
<1>3. CASE \E r \in Runs : RunStep(r)
  BY <1>3, PoolRunStep
<1>4. CASE \E h \in Handlers : HandlerCall(h) \/ HandlerStep(h)
  BY <1>4, PoolHandler
<1>5. CASE ShutdownSessionManager
  BY <1>5, PoolUnchanged
     DEF ShutdownSessionManager, poolView, poolVars, runVars, dispatcherVars
<1>6. CASE ShutdownStep
  BY <1>6, PoolUnchanged, PoolAbort
     DEF ShutdownStep, RequestShutdown, poolView, poolVars, runVars, dispatcherVars
<1>7. CASE UNCHANGED vars
  BY <1>7, PoolUnchanged DEF vars, poolView, poolVars, runVars, dispatcherVars
<1> QED BY <1>1, <1>2, <1>3, <1>4, <1>5, <1>6, <1>7 DEF Next

\* The inductive invariant of the pool holds in every reachable state.
THEOREM PoolInvariant == Spec => []PoolInv
<1>1. Init => PoolInv
  BY PoolInit
<1>2. PoolInv /\ [Next]_vars => PoolInv'
  BY PoolNext
<1> QED BY <1>1, <1>2, PTL DEF Spec

\* No permit of worker_semaphore is lost or made up between the dispatcher, which
\* forgets it, and the worker task, which adds it back.
THEOREM PermitsAreConserved == Spec => []PermitsConserved
BY PoolInvariant, PTL DEF PoolInv

\* active_workers is the number of workers, so its decrement never goes below zero.
THEOREM WorkersAreCounted == Spec => []WorkersCounted
BY PoolInvariant, PTL DEF PoolInv

\* Never more than Parallelism items are worked on at once, whatever is scheduled,
\* cancelled, cleared or shut down meanwhile.
THEOREM ConcurrencyIsBounded == Spec => []BoundedConcurrency
<1>1. PoolInv => BoundedConcurrency
  <2> SUFFICES ASSUME PoolInv PROVE BoundedConcurrency
    OBVIOUS
  <2> DEFINE W == {r \in Runs : Working(r)}
  <2>1. W \subseteq HoldingRuns
    BY DEF Working, HoldingRuns
  <2>2. IsFiniteSet(W) /\ Cardinality(W) \in Nat /\ Cardinality(W) <= Cardinality(HoldingRuns)
    BY <2>1, HoldingFinite, FS_Subset, FS_CardinalityType
  <2>3. Cardinality(HoldingRuns) <= Parallelism
    BY HoldingFinite, PoolAssumption DEF PoolInv, PoolType, PermitsConserved
  <2> HIDE DEF W
  <2>4. Cardinality(W) <= Parallelism
    BY <2>2, <2>3, HoldingFinite, PoolAssumption
  <2> QED BY <2>4 DEF W, BoundedConcurrency
<1> QED BY <1>1, PoolInvariant, PTL

-----------------------------------------------------------------------------
(* The session of a run. *)

\* The types the argument needs, and what a run is about to publish.
SessionInv ==
  /\ rpc \in [Runs -> RunPC]
  /\ rlocal \in [Runs -> RunStatus]
  /\ sessions \in [Sessions -> RunStatus \cup {Absent}]
  /\ \A r \in Runs : rpc[r] = "publish" => rlocal[r] \in Terminal
  /\ ExecuteLeavesTerminal

sessionView == <<rpc, rlocal, sessions>>

\* Statuses, whose names are all different from Absent.
LEMMA StatusFacts ==
  /\ Terminal = {"COMPLETED", "FAILED", "CANCELLED"}
  /\ Absent \notin RunStatus /\ Runs = Sessions
BY DEF Terminal, RunStatus, Active, Absent, Runs, Sessions

LEMMA SessionInitially == Init => SessionInv
BY DEF Init, SessionInit, SessionInv, ExecuteLeavesTerminal, RunPC, RunStatus

LEMMA SessionUnchanged == SessionInv /\ UNCHANGED sessionView => SessionInv'
BY DEF SessionInv, sessionView, ExecuteLeavesTerminal

\* Cancelling a session and clearing them all make none active.
LEMMA SessionCancelled ==
  ASSUME SessionInv, NEW s, CancelSession(s),
         UNCHANGED <<rpc, rlocal>>
  PROVE  SessionInv'
<1>1. sessions' = sessions \/ (s \in Sessions /\ sessions' = [sessions EXCEPT ![s] = "CANCELLED"])
  BY DEF SessionInv, CancelSession
<1> QED BY <1>1, StatusFacts DEF SessionInv, ExecuteLeavesTerminal, RunStatus, Active

LEMMA SessionShutdown ==
  ASSUME SessionInv, ShutdownSessions, UNCHANGED <<rpc, rlocal>>
  PROVE  SessionInv'
BY StatusFacts DEF SessionInv, ShutdownSessions, ExecuteLeavesTerminal, Active, RunStatus

LEMMA SessionSpawn == SessionInv /\ SpawnWorker => SessionInv'
<1> SUFFICES ASSUME SessionInv, SpawnWorker PROVE SessionInv'
  OBVIOUS
<1>1. UNCHANGED <<rlocal, sessions>>
  BY DEF SpawnWorker, sessionVars
<1>2. PICK r : rpc' = [rpc EXCEPT ![r] = "insert_session"]
  BY Zenon DEF SpawnWorker
<1> QED BY <1>1, <1>2 DEF SessionInv, ExecuteLeavesTerminal, RunPC

-----------------------------------------------------------------------------
\* A run writes only its own session; the others' places and sessions stay.
LEMMA OwnStep ==
  ASSUME SessionInv, NEW r \in Runs, NEW pc \in RunPC, NEW status \in RunStatus,
         NEW session \in RunStatus \cup {Absent},
         rpc' = [rpc EXCEPT ![r] = pc],
         rlocal' = [rlocal EXCEPT ![r] = status],
         sessions' = [sessions EXCEPT ![r] = session],
         pc = "publish" => status \in Terminal,
         pc \in {"await", "settle"} => session \notin Active
  PROVE  SessionInv'
BY StatusFacts DEF SessionInv, ExecuteLeavesTerminal

LEMMA SessionRunStep == ASSUME NEW r \in Runs PROVE SessionInv /\ RunStep(r) => SessionInv'
<1> SUFFICES ASSUME SessionInv, RunStep(r) PROVE SessionInv'
  OBVIOUS
<1> USE StatusFacts
<1>a. rlocal[r] \in RunStatus /\ sessions[r] \in RunStatus \cup {Absent}
  BY DEF SessionInv
<1>b. rlocal = [rlocal EXCEPT ![r] = rlocal[r]] /\ sessions = [sessions EXCEPT ![r] = sessions[r]]
  BY DEF SessionInv
<1>1. CASE CreateSession(r)
  <2>1. /\ rpc' = [rpc EXCEPT ![r] = "insert_token"] /\ rlocal' = rlocal
        /\ sessions' = [sessions EXCEPT ![r] = "PENDING"]
    BY <1>1, Zenon DEF CreateSession, RunGoto, InsertSession
  <2>2. "insert_token" \in RunPC /\ "PENDING" \in RunStatus \cup {Absent}
    BY DEF RunPC, RunStatus
  <2>3. /\ rlocal' = [rlocal EXCEPT ![r] = rlocal[r]]
        /\ "insert_token" # "publish" /\ "insert_token" \notin {"await", "settle"}
    BY <1>b, <2>1
  <2> QED BY <1>a, <2>1, <2>2, <2>3, OwnStep, Zenon
<1>2. CASE StartSession(r)
  <2>1. PICK new \in RunStatus \cup {Absent} : sessions' = [sessions EXCEPT ![r] = new]
    BY <1>2, <1>a, <1>b DEF StartSession, UpdateSession, RunStatus
  <2>2. /\ rpc' = [rpc EXCEPT ![r] = "check_cancel"]
        /\ rlocal' = [rlocal EXCEPT ![r] = "RUNNING"]
    BY <1>2, Zenon DEF StartSession, RunGoto
  <2>3. "check_cancel" \in RunPC /\ "RUNNING" \in RunStatus
    BY DEF RunPC, RunStatus
  <2>4. "check_cancel" # "publish" /\ "check_cancel" \notin {"await", "settle"}
    OBVIOUS
  <2> QED BY <2>1, <2>2, <2>3, <2>4, OwnStep, Zenon
<1>3. CASE RunExercise(r)
  <2>1. /\ rpc' = [rpc EXCEPT ![r] = "finalize"]
        /\ sessions' = [sessions EXCEPT ![r] = sessions[r]]
    BY <1>3, <1>b, Zenon DEF RunExercise, RunGoto, sessionVars
  <2>2. PICK status \in RunStatus : rlocal' = [rlocal EXCEPT ![r] = status]
    BY <1>3 DEF RunExercise, RunStatus
  <2>3. "finalize" \in RunPC /\ "finalize" # "publish" /\ "finalize" \notin {"await", "settle"}
    BY DEF RunPC
  <2> QED BY <1>a, <2>1, <2>2, <2>3, OwnStep, Zenon
<1>4. CASE Finalize(r)
  <2>1. FinalStatus(r) \in Terminal /\ FinalStatus(r) \in RunStatus
    BY DEF FinalStatus, RunStatus
  <2>2. /\ rpc' = [rpc EXCEPT ![r] = "publish"] /\ "publish" \in RunPC
        /\ rlocal' = [rlocal EXCEPT ![r] = FinalStatus(r)]
        /\ sessions' = [sessions EXCEPT ![r] = sessions[r]]
    BY <1>4, <1>b DEF Finalize, RunGoto, RunPC, sessionVars
  <2> QED BY <2>1, <2>2, <1>a, OwnStep
<1>5. CASE PublishStatus(r)
  <2>1. rlocal[r] \in Terminal
    BY <1>5 DEF PublishStatus, RunGoto, SessionInv
  <2>2. PICK new \in Terminal \cup {Absent} : sessions' = [sessions EXCEPT ![r] = new]
    BY <1>5, <2>1, <1>b DEF PublishStatus, UpdateSession
  <2>3. PICK status \in RunStatus : rlocal' = [rlocal EXCEPT ![r] = status]
    BY <1>5, <1>a, <1>b DEF PublishStatus, RunStatus
  <2>4. PICK pc \in {"await", "settle"} : rpc' = [rpc EXCEPT ![r] = pc]
    BY <1>5 DEF PublishStatus, AfterPublish, RunGoto
  <2>5. pc \in RunPC /\ new \in RunStatus \cup {Absent} /\ new \notin Active
    BY <2>2, <2>4 DEF RunPC, RunStatus, Active, Absent
  <2> QED BY <2>2, <2>3, <2>4, <2>5, OwnStep
<1>6. CASE AwaitSession(r)
  <2>1. sessions[r] \notin Active
    BY <1>6 DEF AwaitSession, RunGoto, SessionInv, ExecuteLeavesTerminal
  <2>2. PICK status \in RunStatus : rlocal' = [rlocal EXCEPT ![r] = status]
    BY <1>6, <1>a DEF AwaitSession, Verdicts, RunStatus
  <2> QED
    BY <1>6, <2>1, <2>2, <1>a, <1>b, OwnStep
       DEF AwaitSession, RunGoto, RunPC, sessionVars
<1>7. CASE \/ RegisterToken(r) \/ LinkSession(r) \/ CheckCancelled(r) \/ SettleItem(r)
           \/ ReleaseCount(r) \/ ReleasePermit(r) \/ NotifyCapacity(r)
  <2>1. UNCHANGED <<rlocal, sessions>>
    BY <1>7 DEF RegisterToken, InsertToken, LinkSession, CheckCancelled, SettleItem, ReleaseCount,
       ReleasePermit, NotifyCapacity, sessionVars
  <2>2. PICK pc \in RunPC \ {"publish", "await", "settle"} : rpc' = [rpc EXCEPT ![r] = pc]
    BY <1>7 DEF RegisterToken, LinkSession, CheckCancelled, SettleItem, ReleaseCount,
       ReleasePermit, NotifyCapacity, RunGoto, RunPC
  <2> QED BY <2>1, <2>2, <1>a, <1>b, OwnStep
<1> QED
  BY <1>1, <1>2, <1>3, <1>4, <1>5, <1>6, <1>7 DEF RunStep

LEMMA SessionHandler ==
  ASSUME NEW h \in Handlers
  PROVE  SessionInv /\ (HandlerCall(h) \/ HandlerStep(h)) => SessionInv'
<1> SUFFICES ASSUME SessionInv, HandlerCall(h) \/ HandlerStep(h) PROVE SessionInv'
  OBVIOUS
<1>1. UNCHANGED <<rpc, rlocal>>
  BY DEF HandlerCall, HandlerStep, ScheduleBatch, RetryItem, CancelQueueItem, CancelBenchmark,
     ClearPendingQueue, ClearCompletedAndCancelled, ClearAll, AddItems, CancelTheItem,
     CancelTheSession, ClearAllStep, runVars
<1>2. CASE UNCHANGED sessions
  BY <1>1, <1>2, SessionUnchanged DEF sessionView
<1>3. CASE \E s : CancelSession(s)
  BY <1>1, <1>3, SessionCancelled
<1>4. UNCHANGED sessions \/ \E s : CancelSession(s)
  BY DEF HandlerCall, HandlerStep, ScheduleBatch, RetryItem, CancelQueueItem, CancelBenchmark,
     ClearPendingQueue, ClearCompletedAndCancelled, ClearAll, AddItems, CancelTheItem,
     CancelTheSession, ClearAllStep, CancelOrNot, sessionVars
<1> QED BY <1>2, <1>3, <1>4

LEMMA SessionNext == SessionInv /\ [Next]_vars => SessionInv'
<1> SUFFICES ASSUME SessionInv, [Next]_vars PROVE SessionInv'
  OBVIOUS
<1>1. CASE StartQueueWorker
  BY <1>1, SessionUnchanged DEF StartQueueWorker, sessionView, sessionVars, runVars
<1>2. CASE DispatcherStep
  <2>1. CASE SpawnWorker
    BY <2>1, SessionSpawn
  <2>2. CASE ~SpawnWorker
    <3>1. UNCHANGED sessionView
      BY <1>2, <2>2 DEF DispatcherStep, CheckShutdown, CheckCapacity, ArmCapacity, ArmItem, Arm,
         AcquirePermit, Backoff, CheckIdle, Poll, IncrementWorkers, sessionView, sessionVars,
         runVars
    <3> QED BY <3>1, SessionUnchanged
  <2> QED BY <2>1, <2>2
<1>3. CASE \E r \in Runs : RunStep(r)
  BY <1>3, SessionRunStep
<1>4. CASE \E h \in Handlers : HandlerCall(h) \/ HandlerStep(h)
  BY <1>4, SessionHandler
<1>5. CASE ShutdownSessionManager
  BY <1>5, SessionShutdown DEF ShutdownSessionManager, runVars
<1>6. CASE ShutdownStep
  BY <1>6, SessionUnchanged
     DEF ShutdownStep, RequestShutdown, AbortQueueTask, sessionView, sessionVars, runVars
<1>7. CASE UNCHANGED vars
  BY <1>7, SessionUnchanged DEF vars, sessionView, sessionVars, runVars
<1> QED BY <1>1, <1>2, <1>3, <1>4, <1>5, <1>6, <1>7 DEF Next

\* When process_queue_item gets to its wait loop, or past it, the session is
\* terminal or has been removed by shutdown, so the loop never waits 65 minutes.
THEOREM ExecuteLeavesSessionTerminal == Spec => []ExecuteLeavesTerminal
<1>1. Init => SessionInv
  BY SessionInitially
<1>2. SessionInv /\ [Next]_vars => SessionInv'
  BY SessionNext
<1>3. SessionInv => ExecuteLeavesTerminal
  BY DEF SessionInv
<1> QED BY <1>1, <1>2, <1>3, PTL DEF Spec

-----------------------------------------------------------------------------
(* Types: the helpers of the model. *)

\* A set of pushes that is not empty has a first one.
LEMMA FirstExists ==
  ASSUME NEW S, S \subseteq Nat, S # {}
  PROVE  Min(S) \in S /\ \A n \in S : Min(S) <= n
<1>1. PICK x \in S : \A y \in S : ~(<<y, x>> \in OpToRel(<, Nat))
  BY NatLessThanWellFounded, WFMin
<1>2. \A y \in S : ~(y < x)
  BY <1>1 DEF OpToRel
<1>3. \A y \in S : x <= y
  BY <1>2
<1> QED BY <1>3 DEF Min

\* The orders in which a batch may be queued are sequences of its keys.
LEMMA OrderTyped ==
  ASSUME NEW S, IsFiniteSet(S), NEW order \in SetToSeqs(S) \cup {SetToSeq(S)}
  PROVE  Cardinality(S) \in Nat /\ order \in [1..Cardinality(S) -> S]
<1>1. Cardinality(S) \in Nat /\ ExistsBijection(1..Cardinality(S), S)
  BY FS_CardinalityType
<1>2. CASE order \in SetToSeqs(S)
  BY <1>1, <1>2 DEF SetToSeqs
<1>3. CASE order = SetToSeq(S)
  <2>1. PICK f \in [1..Cardinality(S) -> S] : IsInjective(f)
    BY <1>1 DEF ExistsBijection, Bijection, Injection, Surjection, IsInjective
  <2> QED BY <1>1, <1>3, <2>1 DEF SetToSeq
<1> QED BY <1>2, <1>3

-----------------------------------------------------------------------------
(* The methods of the queue keep its types. *)

LEMMA FirstListed ==
  ASSUME QueueTypeOK, NEW id, Listed(id)
  PROVE  First(id) \in DOMAIN all_items /\ all_items[First(id)] \in Item
BY FirstExists DEF QueueTypeOK, Listed, Entries, First

LEMMA WithFirstTyped ==
  ASSUME QueueTypeOK, NEW id, NEW item \in Item
  PROVE  WithFirst(id, item) \in [DOMAIN all_items -> Item]
BY FirstListed DEF QueueTypeOK, WithFirst

LEMMA ItemFields ==
  ASSUME NEW item \in Item, NEW status \in ItemStatus, NEW session \in Sessions \cup {NoSession}
  PROVE  /\ item.id \in ItemIds /\ item.key \in Keys
         /\ [item EXCEPT !.status = status] \in Item
         /\ [item EXCEPT !.session = session] \in Item
         /\ [item EXCEPT !.status = status, !.session = session] \in Item
BY DEF Item

LEMMA WithStatusTyped ==
  ASSUME QueueTypeOK, NEW id, NEW status \in ItemStatus
  PROVE  WithStatus(id, status) \in [DOMAIN all_items -> Item]
<1>1. CASE Listed(id)
  <2>1. [all_items[First(id)] EXCEPT !.status = status] \in Item
    BY <1>1, FirstListed DEF Item
  <2> QED BY <2>1, WithFirstTyped DEF WithStatus
<1>2. CASE ~Listed(id)
  BY <1>2 DEF WithStatus, WithFirst, QueueTypeOK
<1> QED BY <1>1, <1>2

LEMMA RetainTyped ==
  ASSUME NEW vec, vec \in [DOMAIN vec -> Item], NEW S \in SUBSET DOMAIN vec
  PROVE  Restrict(vec, S) \in [S -> Item] /\ DOMAIN Restrict(vec, S) = S
BY DEF Restrict

LEMMA ListRewritten ==
  ASSUME QueueTypeOK, all_items' \in [DOMAIN all_items -> Item],
         UNCHANGED <<pushes, inner, historyVars>>, current_items' \subseteq ItemIds
  PROVE  QueueTypeOK'
BY DEF QueueTypeOK, historyVars

LEMMA QueueUnchanged == QueueTypeOK /\ UNCHANGED queueVars => QueueTypeOK'
BY DEF QueueTypeOK, queueVars, historyVars

LEMMA PolledTyped ==
  ASSUME QueueTypeOK, DOMAIN inner # {}
  PROVE  Polled \in Item /\ Polled.id \in ItemIds /\ Min(DOMAIN inner) \in DOMAIN inner
<1>1. Min(DOMAIN inner) \in DOMAIN inner
  BY FirstExists DEF QueueTypeOK
<1>2. inner[Min(DOMAIN inner)] \in Item
  BY <1>1 DEF QueueTypeOK
<1>3. Polled \in Item
  <2>1. Polled = [inner[Min(DOMAIN inner)] EXCEPT !.status = "RUNNING"] /\ "RUNNING" \in ItemStatus
    BY DEF Polled, ItemStatus
  <2> QED BY <1>2, <2>1, ItemFields, Zenon
<1> QED BY <1>1, <1>3 DEF Item

LEMMA PollTyped == QueueTypeOK /\ PollNext => QueueTypeOK'
<1> SUFFICES ASSUME QueueTypeOK, PollNext PROVE QueueTypeOK'
  OBVIOUS
<1>1. Polled \in Item /\ Polled.id \in ItemIds
  BY PolledTyped DEF PollNext
<1>2. all_items' \in [DOMAIN all_items -> Item]
  BY <1>1, WithFirstTyped DEF PollNext
<1>3. inner' \in [DOMAIN inner' -> Item] /\ DOMAIN inner' \subseteq DOMAIN inner
  <2> DEFINE S == DOMAIN inner \ {Min(DOMAIN inner)}
  <2>1. inner' = Restrict(inner, S) /\ S \in SUBSET DOMAIN inner
    BY DEF PollNext
  <2> QED BY <2>1, RetainTyped DEF QueueTypeOK
<1> QED BY <1>1, <1>2, <1>3 DEF QueueTypeOK, PollNext, historyVars

LEMMA FinishTyped ==
  ASSUME QueueTypeOK, NEW id, NEW status \in ItemStatus, FinishCurrent(id, status)
  PROVE  QueueTypeOK'
<1>1. all_items' \in [DOMAIN all_items -> Item]
  BY WithStatusTyped DEF FinishCurrent, QueueTypeOK
<1> QED BY <1>1, ListRewritten DEF FinishCurrent, QueueTypeOK

\* A container that is filtered.
LEMMA Filtered ==
  ASSUME NEW vec, NEW S \in SUBSET DOMAIN vec, DOMAIN vec \subseteq 1..pushes,
         vec \in [DOMAIN vec -> Item]
  PROVE  /\ DOMAIN Restrict(vec, S) \subseteq 1..pushes
         /\ Restrict(vec, S) \in [DOMAIN Restrict(vec, S) -> Item]
BY RetainTyped

LEMMA CancelTyped ==
  ASSUME QueueTypeOK, NEW id \in ItemIds, CancelItem(id)
  PROVE  QueueTypeOK'
<1>1. all_items' \in [DOMAIN all_items -> Item]
  BY WithStatusTyped DEF CancelItem, QueueTypeOK, ItemStatus
<1>2. DOMAIN inner' \subseteq 1..pushes /\ inner' \in [DOMAIN inner' -> Item]
  BY Filtered DEF CancelItem, WithoutItem, QueueTypeOK
<1> QED BY <1>1, <1>2 DEF QueueTypeOK, CancelItem

LEMMA ClearTyped ==
  ASSUME QueueTypeOK, ClearPending \/ ClearTerminalItems \/ ClearAllItems
  PROVE  QueueTypeOK'
<1>1. PICK S \in SUBSET DOMAIN inner : inner' = Restrict(inner, S)
  BY DEF ClearPending, ClearTerminalItems, ClearAllItems, Retain
<1>2. PICK T \in SUBSET DOMAIN all_items : all_items' = Restrict(all_items, T)
  BY DEF ClearPending, ClearTerminalItems, ClearAllItems, Retain
<1>3. /\ DOMAIN inner' \subseteq 1..pushes /\ inner' \in [DOMAIN inner' -> Item]
      /\ DOMAIN all_items' \subseteq 1..pushes /\ all_items' \in [DOMAIN all_items' -> Item]
  BY <1>1, <1>2, Filtered DEF QueueTypeOK
<1>4. UNCHANGED <<pushes, historyVars>> /\ current_items' \subseteq current_items
  BY DEF ClearPending, ClearTerminalItems, ClearAllItems
<1>5. /\ UNCHANGED <<cancelled, withdrawn, retried>> /\ current_items' \subseteq ItemIds
  BY <1>4 DEF QueueTypeOK, historyVars
<1> QED BY ONLY QueueTypeOK, <1>3, <1>4, <1>5 DEF QueueTypeOK

LEMMA RetryTyped ==
  ASSUME QueueTypeOK, NEW id \in ItemIds, RetryReset(id)
  PROVE  QueueTypeOK' /\ RetryClone(id) \in Item
<1> DEFINE n == Min(FailedEntries(id))
<1>1. n \in DOMAIN all_items
  <2>1. FailedEntries(id) \subseteq DOMAIN all_items /\ FailedEntries(id) # {}
    BY DEF RetryReset, FailedEntries, Entries
  <2>2. DOMAIN all_items \subseteq 1..pushes /\ pushes \in Nat
    BY DEF QueueTypeOK
  <2>3. FailedEntries(id) \subseteq Nat
    BY ONLY <2>1, <2>2
  <2>4. n \in FailedEntries(id)
    BY <2>1, <2>3, FirstExists, Zenon
  <2> QED BY <2>1, <2>4
<1> HIDE DEF n
<1>2. all_items[n] \in Item
  <2>1. all_items \in [DOMAIN all_items -> Item]
    BY ONLY QueueTypeOK, Zenon DEF QueueTypeOK
  <2> QED BY ONLY <1>1, <2>1
<1>3. [all_items[n] EXCEPT !.status = "PENDING", !.session = NoSession] \in Item
  BY <1>2, ItemFields DEF ItemStatus
<1>4. all_items' \in [DOMAIN all_items -> Item]
  BY <1>3 DEF RetryReset, QueueTypeOK, n
<1> QED BY <1>2, <1>4 DEF RetryReset, RetryClone, QueueTypeOK, n

LEMMA LinkTyped ==
  ASSUME QueueTypeOK, NEW id, NEW s \in Sessions, SetSessionId(id, s)
  PROVE  QueueTypeOK'
<1>1. all_items' \in [DOMAIN all_items -> Item]
  <2>1. CASE Listed(id)
    <3>1. [all_items[First(id)] EXCEPT !.session = s] \in Item
      BY <2>1, FirstListed DEF Item
    <3> QED BY <3>1, WithFirstTyped DEF SetSessionId
  <2>2. CASE ~Listed(id)
    BY <2>2 DEF SetSessionId, WithFirst, QueueTypeOK
  <2> QED BY <2>1, <2>2
<1> QED BY <1>1, ListRewritten DEF SetSessionId, QueueTypeOK

LEMMA PushedTyped ==
  ASSUME QueueTypeOK, NEW items \in Seq(Item), NEW vec, DOMAIN vec \subseteq 1..pushes,
         vec \in [DOMAIN vec -> Item]
  PROVE  /\ DOMAIN Pushed(vec, items) \subseteq 1..(pushes + Len(items))
         /\ Pushed(vec, items) \in [DOMAIN Pushed(vec, items) -> Item]
<1>1. Len(items) \in Nat /\ pushes \in Nat
  BY DEF QueueTypeOK
<1>2. \A n \in (pushes + 1)..(pushes + Len(items)) : items[n - pushes] \in Item
  BY <1>1
<1>3. DOMAIN Pushed(vec, items) = DOMAIN vec \cup (pushes + 1)..(pushes + Len(items))
  BY DEF Pushed
<1>4. \A n \in DOMAIN Pushed(vec, items) : Pushed(vec, items)[n] \in Item
  BY <1>2, <1>3 DEF Pushed
<1>5. Pushed(vec, items) \in [DOMAIN Pushed(vec, items) -> Item]
  BY <1>3, <1>4 DEF Pushed
<1> QED BY <1>1, <1>3, <1>5

LEMMA AddTyped ==
  ASSUME QueueTypeOK, NEW items \in Seq(Item), AddAll(items)
  PROVE  QueueTypeOK'
<1>1. pushes' \in Nat /\ pushes' = pushes + Len(items)
  BY DEF QueueTypeOK, AddAll
<1>2. /\ DOMAIN inner' \subseteq 1..pushes' /\ inner' \in [DOMAIN inner' -> Item]
      /\ DOMAIN all_items' \subseteq 1..pushes' /\ all_items' \in [DOMAIN all_items' -> Item]
  BY <1>1, PushedTyped DEF QueueTypeOK, AddAll
<1> QED BY <1>1, <1>2 DEF QueueTypeOK, AddAll, historyVars

-----------------------------------------------------------------------------
(* The inductive invariant: the types, and who has an item in hand. *)

DispatcherTyped ==
  /\ ditem \in Item \cup {NoItem} /\ notified \in BOOLEAN
  /\ dpc \in {"increment", "spawn"} => ditem \in Item

RunsTyped ==
  /\ rpc \in [Runs -> RunPC] /\ ritem \in [Runs -> Item \cup {NoItem}]
  /\ rlocal \in [Runs -> RunStatus] /\ rerr \in [Runs -> BOOLEAN]
  /\ succeeded \subseteq Keys
  /\ \A r \in Runs : rpc[r] # "none" => ritem[r] \in Item

HandlersTyped ==
  /\ hpc \in [Handlers -> HandlerPC] /\ hitem \in [Handlers -> ItemIds]
  /\ hsess \in [Handlers -> SUBSET Sessions] /\ hbatch \in [Handlers -> Seq(Item)]
  /\ created \in 0..MaxItems /\ retries \in 0..MaxRetries

OthersTyped == spawned \in 0..MaxPushes /\ spc \in {"up", "sessions_cleared", "flagged", "down"}

TypeInv ==
  QueueTypeOK /\ SessionTypeOK /\ DispatcherTyped /\ RunsTyped /\ HandlersTyped /\ OthersTyped

LEMMA BoundFacts ==
  /\ MaxItems \in Nat \ {0} /\ MaxRetries \in Nat /\ MaxPushes \in Nat
  /\ Runs = Sessions /\ ItemStatus = RunStatus
BY BoundsAssumption DEF MaxPushes, Runs, Sessions, ItemStatus, RunStatus

LEMMA TypeInitially == Init => TypeInv
<1> SUFFICES ASSUME Init PROVE TypeInv
  OBVIOUS
<1> USE BoundFacts
<1>1. QueueTypeOK
  BY DEF Init, QueueInit, QueueTypeOK
<1>2. SessionTypeOK
  BY DEF Init, SessionInit, SessionTypeOK
<1>3. DispatcherTyped /\ RunsTyped
  BY DEF Init, DispatcherTyped, RunsTyped, RunPC, RunStatus
<1>4. HandlersTyped /\ OthersTyped
  BY DEF Init, HandlersTyped, OthersTyped, HandlerPC, ItemIds
<1> QED BY <1>1, <1>2, <1>3, <1>4 DEF TypeInv

\* What a step leaves alone keeps its types.
LEMMA TypesUnchanged ==
  /\ SessionTypeOK /\ UNCHANGED sessionVars => SessionTypeOK'
  /\ DispatcherTyped /\ UNCHANGED dispatcherVars => DispatcherTyped'
  /\ RunsTyped /\ UNCHANGED runVars => RunsTyped'
  /\ HandlersTyped /\ UNCHANGED handlerVars => HandlersTyped'
  /\ OthersTyped /\ UNCHANGED <<spawned, spc>> => OthersTyped'
<1>1. SessionTypeOK /\ UNCHANGED sessionVars => SessionTypeOK'
  BY DEF SessionTypeOK, sessionVars
<1>2. DispatcherTyped /\ UNCHANGED dispatcherVars => DispatcherTyped'
  BY DEF DispatcherTyped, dispatcherVars
<1>3. RunsTyped /\ UNCHANGED runVars => RunsTyped'
  BY DEF RunsTyped, runVars
<1>4. HandlersTyped /\ UNCHANGED handlerVars => HandlersTyped'
  BY DEF HandlersTyped, handlerVars
<1>5. OthersTyped /\ UNCHANGED <<spawned, spc>> => OthersTyped'
  BY DEF OthersTyped
<1> QED BY <1>1, <1>2, <1>3, <1>4, <1>5

\* Sessions under the session manager's methods.
LEMMA SessionsTyped ==
  ASSUME SessionTypeOK, NEW s, NEW status \in RunStatus,
         \/ InsertSession(s) \/ InsertToken(s) \/ CancelSession(s)
         \/ UpdateSession(s, status) \/ ShutdownSessions
  PROVE  SessionTypeOK'
BY DEF SessionTypeOK, InsertSession, InsertToken, CancelSession, UpdateSession, ShutdownSessions,
   RunStatus

-----------------------------------------------------------------------------
(* The dispatcher's steps. *)

\* Moves that leave the item in hand and every other actor alone.
LEMMA TypeDispatcherMoves ==
  ASSUME TypeInv, dpc' \in {"increment", "spawn"} => dpc \in {"increment", "spawn"},
         notified' \in BOOLEAN,
         UNCHANGED <<queueVars, sessionVars, ditem, spawned, runVars, handlerVars>>,
         spc' \in {spc, "down"}
  PROVE  TypeInv'
<1>1. QueueTypeOK' /\ SessionTypeOK' /\ RunsTyped' /\ HandlersTyped'
  BY QueueUnchanged, TypesUnchanged DEF TypeInv
<1>2. DispatcherTyped' /\ OthersTyped'
  BY DEF TypeInv, DispatcherTyped, OthersTyped
<1> QED BY <1>1, <1>2 DEF TypeInv

LEMMA TypePoll == TypeInv /\ Poll => TypeInv'
<1> SUFFICES ASSUME TypeInv, Poll PROVE TypeInv'
  OBVIOUS
<1>1. UNCHANGED <<sessionVars, notified, poolVars, runVars, handlerVars, spc>>
  BY DEF Poll
<1>2. SessionTypeOK' /\ RunsTyped' /\ HandlersTyped' /\ OthersTyped'
  BY <1>1, TypesUnchanged DEF TypeInv, poolVars
<1>3. CASE PollNext /\ ditem' = Polled
  BY <1>1, <1>2, <1>3, PollTyped, PolledTyped DEF PollNext, TypeInv, DispatcherTyped
<1>4. CASE UNCHANGED <<queueVars, ditem>> /\ dpc' = "arm_item"
  <2>1. QueueTypeOK'
    BY <1>4, QueueUnchanged DEF TypeInv
  <2>2. DispatcherTyped'
    BY <1>1, <1>4 DEF TypeInv, DispatcherTyped
  <2> QED BY <1>2, <2>1, <2>2 DEF TypeInv
<1> QED BY <1>3, <1>4 DEF Poll, DispatcherGoto

LEMMA TypeSpawn == TypeInv /\ PoolInv /\ SpawnWorker => TypeInv'
<1> SUFFICES ASSUME TypeInv, PoolInv, SpawnWorker PROVE TypeInv'
  OBVIOUS
<1>1. QueueTypeOK' /\ SessionTypeOK' /\ HandlersTyped'
  BY QueueUnchanged, TypesUnchanged DEF TypeInv, SpawnWorker
<1>2. spawned + 1 \in Runs /\ spawned' = spawned + 1 /\ spawned' \in 0..MaxPushes
  BY BoundFacts DEF SpawnWorker, PoolInv, PoolType, Runs, Pushes
<1>3. OthersTyped'
  BY <1>2 DEF SpawnWorker, TypeInv, OthersTyped
<1>4. ditem \in Item
  BY DEF SpawnWorker, DispatcherGoto, TypeInv, DispatcherTyped
<1>5. RunsTyped'
  <2>1. /\ rpc' = [rpc EXCEPT ![spawned + 1] = "insert_session"]
        /\ ritem' = [ritem EXCEPT ![spawned + 1] = ditem]
        /\ UNCHANGED <<rlocal, rerr, succeeded>>
    BY DEF SpawnWorker
  <2>2. rpc' \in [Runs -> RunPC] /\ ritem' \in [Runs -> Item \cup {NoItem}]
    BY <1>4, <2>1 DEF TypeInv, RunsTyped, RunPC
  <2>3. \A r \in Runs : rpc'[r] # "none" => ritem'[r] \in Item
    BY <1>4, <2>1 DEF TypeInv, RunsTyped
  <2> QED BY <2>1, <2>2, <2>3 DEF TypeInv, RunsTyped
<1>6. DispatcherTyped'
  BY DEF SpawnWorker, DispatcherGoto, TypeInv, DispatcherTyped
<1> QED BY <1>1, <1>3, <1>5, <1>6 DEF TypeInv

LEMMA TypeDispatcherStep == TypeInv /\ PoolInv /\ DispatcherStep => TypeInv'
<1> SUFFICES ASSUME TypeInv, PoolInv, DispatcherStep PROVE TypeInv'
  OBVIOUS
<1>1. CASE Poll
  BY <1>1, TypePoll
<1>2. CASE SpawnWorker
  BY <1>2, TypeSpawn
<1>3. CASE ~Poll /\ ~SpawnWorker
  <2>1. notified \in BOOLEAN
    BY DEF TypeInv, DispatcherTyped
  <2>2. /\ dpc' \in {"increment", "spawn"} => dpc \in {"increment", "spawn"}
        /\ notified' \in BOOLEAN
        /\ UNCHANGED <<queueVars, sessionVars, ditem, spawned, runVars, handlerVars, spc>>
    BY <1>3, <2>1 DEF DispatcherStep, CheckShutdown, CheckCapacity, ArmCapacity, ArmItem, Arm,
       AcquirePermit, Backoff, CheckIdle, IncrementWorkers, DispatcherGoto, poolVars
  <2> QED BY <2>2, TypeDispatcherMoves
<1> QED BY <1>1, <1>2, <1>3

-----------------------------------------------------------------------------
(* The runs' steps. *)

\* A step of a run moves it, and rewrites its locals within their types.
LEMMA RunsStepTyped ==
  ASSUME RunsTyped, NEW r \in Runs, rpc[r] # "none", NEW pc \in RunPC,
         rpc' = [rpc EXCEPT ![r] = pc], UNCHANGED ritem,
         rlocal' \in [Runs -> RunStatus], rerr' \in [Runs -> BOOLEAN], succeeded' \subseteq Keys
  PROVE  RunsTyped'
BY DEF RunsTyped

LEMMA TypeRunStep == ASSUME NEW r \in Runs PROVE TypeInv /\ RunStep(r) => TypeInv'
<1> SUFFICES ASSUME TypeInv, RunStep(r) PROVE TypeInv'
  OBVIOUS
<1>1. /\ r \in Sessions /\ rlocal[r] \in RunStatus /\ rlocal[r] \in ItemStatus
      /\ sessions[r] \in RunStatus \cup {Absent}
  BY BoundFacts DEF TypeInv, RunsTyped, SessionTypeOK
<1>2. rpc[r] # "none" /\ ritem[r] \in Item /\ ritem[r].id \in ItemIds /\ ritem[r].key \in Keys
  <2>1. rpc[r] # "none"
    BY DEF RunStep, CreateSession, RegisterToken, LinkSession, StartSession, CheckCancelled,
       RunExercise, Finalize, PublishStatus, AwaitSession, SettleItem, ReleaseCount, ReleasePermit,
       NotifyCapacity, RunGoto
  <2>2. ritem[r] \in Item
    BY <2>1 DEF TypeInv, RunsTyped
  <2> QED BY <2>1, <2>2 DEF Item
<1>3. QueueTypeOK'
  <2>1. CASE UNCHANGED queueVars
    BY <2>1, QueueUnchanged DEF TypeInv
  <2>2. CASE LinkSession(r)
    BY <2>2, <1>1, LinkTyped DEF LinkSession, TypeInv
  <2>3. CASE SettleItem(r) /\ CancelItem(ritem[r].id)
    BY <2>3, <1>2, CancelTyped DEF TypeInv
  <2>4. CASE SettleItem(r) /\ FinishCurrent(ritem[r].id, rlocal[r])
    BY <2>4, <1>1, FinishTyped DEF TypeInv
  <2>5. UNCHANGED queueVars \/ LinkSession(r) \/ SettleItem(r)
    BY DEF RunStep, CreateSession, RegisterToken, StartSession, CheckCancelled,
       RunExercise, Finalize, PublishStatus, AwaitSession, ReleaseCount, ReleasePermit,
       NotifyCapacity
  <2>6. SettleItem(r) => \/ UNCHANGED queueVars \/ CancelItem(ritem[r].id)
                         \/ FinishCurrent(ritem[r].id, rlocal[r])
    BY DEF SettleItem
  <2> QED BY <2>1, <2>2, <2>3, <2>4, <2>5, <2>6
<1>4. SessionTypeOK'
  <2>1. \/ UNCHANGED sessionVars \/ InsertSession(r) \/ InsertToken(r)
        \/ \E status \in RunStatus : UpdateSession(r, status)
    BY <1>1 DEF RunStep, CreateSession, RegisterToken, LinkSession, StartSession, CheckCancelled,
       RunExercise, Finalize, PublishStatus, AwaitSession, SettleItem, ReleaseCount, ReleasePermit,
       NotifyCapacity, RunStatus
  <2>2. CASE UNCHANGED sessionVars
    BY <2>2, TypesUnchanged DEF TypeInv
  <2>3. CASE InsertSession(r) \/ InsertToken(r)
    BY <2>3, SessionsTyped DEF TypeInv, RunStatus
  <2>4. CASE \E status \in RunStatus : UpdateSession(r, status)
    BY <2>4, SessionsTyped DEF TypeInv
  <2> QED BY <2>1, <2>2, <2>3, <2>4
<1>5. RunsTyped'
  <2>1. PICK pc \in RunPC : rpc' = [rpc EXCEPT ![r] = pc]
    BY DEF RunStep, CreateSession, RegisterToken, LinkSession, StartSession, CheckCancelled,
       RunExercise, Finalize, PublishStatus, AfterPublish, AwaitSession, SettleItem, ReleaseCount,
       ReleasePermit, NotifyCapacity, RunGoto, RunPC
  <2>2. UNCHANGED ritem
    BY DEF RunStep, CreateSession, RegisterToken, LinkSession, StartSession, CheckCancelled,
       RunExercise, Finalize, PublishStatus, AwaitSession, SettleItem, ReleaseCount, ReleasePermit,
       NotifyCapacity
  <2>3. rlocal' = rlocal \/ \E status \in RunStatus : rlocal' = [rlocal EXCEPT ![r] = status]
    <3>1. CASE StartSession(r) \/ RunExercise(r) \/ PublishStatus(r)
      BY <3>1 DEF StartSession, RunExercise, PublishStatus, RunStatus
    <3>2. CASE Finalize(r)
      BY <3>2 DEF Finalize, FinalStatus, RunStatus
    <3>3. CASE AwaitSession(r)
      BY <3>3, <1>1 DEF AwaitSession, Verdicts, RunStatus, Terminal
    <3>4. CASE \/ CreateSession(r) \/ RegisterToken(r) \/ LinkSession(r) \/ CheckCancelled(r)
               \/ SettleItem(r) \/ ReleaseCount(r) \/ ReleasePermit(r) \/ NotifyCapacity(r)
      BY <3>4 DEF CreateSession, RegisterToken, LinkSession, CheckCancelled, SettleItem,
         ReleaseCount, ReleasePermit, NotifyCapacity
    <3> QED BY <3>1, <3>2, <3>3, <3>4 DEF RunStep
  <2>4. rlocal' \in [Runs -> RunStatus]
    BY <2>3 DEF TypeInv, RunsTyped
  <2>5. rerr' \in [Runs -> BOOLEAN]
    <3>1. \/ rerr' = rerr \/ rerr' = [rerr EXCEPT ![r] = TRUE]
          \/ rerr' = [rerr EXCEPT ![r] = FALSE]
      BY DEF RunStep, CreateSession, RegisterToken, LinkSession, StartSession, CheckCancelled,
         RunExercise, Finalize, PublishStatus, AwaitSession, SettleItem, ReleaseCount,
         ReleasePermit, NotifyCapacity
    <3> QED BY <3>1 DEF TypeInv, RunsTyped
  <2>6. succeeded' \subseteq Keys
    <3>1. succeeded' = succeeded \/ succeeded' = succeeded \cup {ritem[r].key}
      BY DEF RunStep, CreateSession, RegisterToken, LinkSession, StartSession, CheckCancelled,
         RunExercise, Finalize, PublishStatus, AwaitSession, SettleItem, ReleaseCount,
         ReleasePermit, NotifyCapacity
    <3> QED BY <3>1, <1>2 DEF TypeInv, RunsTyped
  <2> QED BY <2>1, <2>2, <2>4, <2>5, <2>6, <1>2, RunsStepTyped DEF TypeInv
<1>6. DispatcherTyped'
  <2>1. CASE UNCHANGED dispatcherVars
    BY <2>1, TypesUnchanged DEF TypeInv
  <2>2. CASE NotifyCapacity(r)
    BY <2>2 DEF NotifyCapacity, NotifyOne, Woken, TypeInv, DispatcherTyped
  <2> QED
    BY <2>1, <2>2 DEF RunStep, CreateSession, RegisterToken, LinkSession, StartSession,
       CheckCancelled, RunExercise, Finalize, PublishStatus, AwaitSession, SettleItem,
       ReleaseCount, ReleasePermit
<1>7. HandlersTyped' /\ OthersTyped'
  <2>1. UNCHANGED <<handlerVars, spawned, spc>>
    BY DEF RunStep, CreateSession, RegisterToken, LinkSession, StartSession, CheckCancelled,
       RunExercise, Finalize, PublishStatus, AwaitSession, SettleItem, ReleaseCount, ReleasePermit,
       NotifyCapacity, poolVars
  <2> QED BY <2>1, TypesUnchanged DEF TypeInv
<1> QED BY <1>3, <1>4, <1>5, <1>6, <1>7 DEF TypeInv

-----------------------------------------------------------------------------
(* The handlers' steps. *)

LEMMA NewItemTyped ==
  ASSUME NEW id \in ItemIds, NEW key \in Keys
  PROVE  NewItem(id, key) \in Item
BY DEF NewItem, Item, ItemStatus

\* What schedule_batch leaves in the handler's locals.
LEMMA ScheduledOrder ==
  ASSUME NEW h \in Handlers, ScheduleBatch(h)
  PROVE  \E kept \in SUBSET Keys : \E order \in SetToSeqs(kept) \cup {SetToSeq(kept)} :
           /\ created + Cardinality(kept) <= MaxItems
           /\ created' = created + Cardinality(kept)
           /\ hbatch' = [hbatch EXCEPT ![h] =
                           [k \in DOMAIN order |-> NewItem(created + k, order[k])]]
<1>1. PICK requested \in SUBSET Keys, mode \in {"single", "all"}, retry \in BOOLEAN :
        LET skipped == IF retry THEN {}
                       ELSE succeeded \cup (IF mode = "single" THEN PendingKeys ELSE {})
            kept == requested \ skipped
        IN /\ created + Cardinality(kept) <= MaxItems
           /\ \E order \in (IF retry THEN SetToSeqs(kept) ELSE {SetToSeq(kept)}) :
                hbatch' = [hbatch EXCEPT ![h] =
                             [k \in DOMAIN order |-> NewItem(created + k, order[k])]]
           /\ created' = created + Cardinality(kept)
  BY DEF ScheduleBatch
<1> DEFINE skipped == IF retry THEN {}
                      ELSE succeeded \cup (IF mode = "single" THEN PendingKeys ELSE {})
           kept == requested \ skipped
           orders == IF retry THEN SetToSeqs(kept) ELSE {SetToSeq(kept)}
           batch(order) == [k \in DOMAIN order |-> NewItem(created + k, order[k])]
<1>2. kept \in SUBSET Keys
  OBVIOUS
<1>3. orders \subseteq SetToSeqs(kept) \cup {SetToSeq(kept)}
  BY Zenon
<1>4. /\ created + Cardinality(kept) <= MaxItems
      /\ \E order \in orders : hbatch' = [hbatch EXCEPT ![h] = batch(order)]
      /\ created' = created + Cardinality(kept)
  BY <1>1, Zenon
<1> HIDE DEF kept, orders
<1> QED BY <1>2, <1>3, <1>4

LEMMA TypeSchedule == ASSUME NEW h \in Handlers PROVE TypeInv /\ ScheduleBatch(h) => HandlersTyped'
<1> SUFFICES ASSUME TypeInv, ScheduleBatch(h) PROVE HandlersTyped'
  OBVIOUS
<1>1. PICK kept \in SUBSET Keys : \E order \in SetToSeqs(kept) \cup {SetToSeq(kept)} :
        /\ created + Cardinality(kept) <= MaxItems
        /\ created' = created + Cardinality(kept)
        /\ hbatch' = [hbatch EXCEPT ![h] =
                        [k \in DOMAIN order |-> NewItem(created + k, order[k])]]
  BY ScheduledOrder
<1>2. PICK order \in SetToSeqs(kept) \cup {SetToSeq(kept)} :
        /\ created + Cardinality(kept) <= MaxItems
        /\ created' = created + Cardinality(kept)
        /\ hbatch' = [hbatch EXCEPT ![h] =
                        [k \in DOMAIN order |-> NewItem(created + k, order[k])]]
  BY <1>1
<1>3. IsFiniteSet(kept)
  BY BoundsAssumption, FS_Subset
<1>4. Cardinality(kept) \in Nat /\ order \in [1..Cardinality(kept) -> kept]
  BY <1>3, OrderTyped
<1> DEFINE batch == [k \in DOMAIN order |-> NewItem(created + k, order[k])]
<1>5. created \in Nat /\ created' \in 0..MaxItems
  BY <1>2, <1>4, BoundFacts DEF TypeInv, HandlersTyped
<1>6. \A k \in 1..Cardinality(kept) : NewItem(created + k, order[k]) \in Item
  <2> SUFFICES ASSUME NEW k \in 1..Cardinality(kept)
               PROVE  NewItem(created + k, order[k]) \in Item
    OBVIOUS
  <2>1. created + k \in ItemIds
    BY <1>2, <1>4, <1>5, BoundFacts DEF ItemIds
  <2>2. order[k] \in Keys
    BY <1>4
  <2> QED BY <2>1, <2>2, NewItemTyped
<1>7. batch \in Seq(Item)
  <2>1. DOMAIN order = 1..Cardinality(kept)
    BY <1>4
  <2>2. batch \in [1..Cardinality(kept) -> Item]
    BY <1>6, <2>1
  <2> QED BY <1>4, <2>2
<1>8. hbatch' \in [Handlers -> Seq(Item)]
  <2> HIDE DEF batch
  <2>1. hbatch' = [hbatch EXCEPT ![h] = batch]
    BY <1>2 DEF batch
  <2> QED BY <1>7, <2>1 DEF TypeInv, HandlersTyped
<1>9. hpc' \in [Handlers -> HandlerPC] /\ UNCHANGED <<hitem, hsess, retries>>
  BY DEF ScheduleBatch, TypeInv, HandlersTyped, HandlerPC
<1> QED BY <1>5, <1>8, <1>9 DEF TypeInv, HandlersTyped

LEMMA TypeRetry ==
  ASSUME NEW h \in Handlers
  PROVE  TypeInv /\ RetryItem(h) => QueueTypeOK' /\ HandlersTyped'
<1> SUFFICES ASSUME TypeInv, RetryItem(h) PROVE QueueTypeOK' /\ HandlersTyped'
  OBVIOUS
<1>1. PICK id \in 1..created :
        RetryReset(id) /\ hbatch' = [hbatch EXCEPT ![h] = <<RetryClone(id)>>]
  BY DEF RetryItem
<1>2. id \in ItemIds
  BY BoundFacts DEF ItemIds, TypeInv, HandlersTyped
<1>3. QueueTypeOK' /\ RetryClone(id) \in Item
  BY <1>1, <1>2, RetryTyped DEF TypeInv
<1>4. hbatch' \in [Handlers -> Seq(Item)]
  <2>1. <<RetryClone(id)>> \in Seq(Item)
    BY <1>3
  <2> QED BY <1>1, <2>1 DEF TypeInv, HandlersTyped
<1>5. retries' \in 0..MaxRetries /\ hpc' \in [Handlers -> HandlerPC]
  BY BoundFacts DEF RetryItem, TypeInv, HandlersTyped, HandlerPC
<1> QED BY <1>3, <1>4, <1>5 DEF RetryItem, TypeInv, HandlersTyped

LEMMA SessionIdTyped ==
  ASSUME QueueTypeOK, NEW id
  PROVE  {SessionIdFor(id)} \ {NoSession} \subseteq Sessions
BY FirstListed DEF SessionIdFor, Item

LEMMA TypeHandlerLocals ==
  ASSUME NEW h \in Handlers
  PROVE  TypeInv /\ (HandlerCall(h) \/ HandlerStep(h)) => HandlersTyped'
<1> SUFFICES ASSUME TypeInv, HandlerCall(h) \/ HandlerStep(h) PROVE HandlersTyped'
  OBVIOUS
<1> USE DEF HandlerPC
<1>1. CASE ScheduleBatch(h)
  BY <1>1, TypeSchedule
<1>2. CASE RetryItem(h)
  BY <1>2, TypeRetry
<1>3. CASE CancelQueueItem(h)
  <2>1. PICK id \in 1..created : /\ hitem' = [hitem EXCEPT ![h] = id]
                                 /\ hsess' = [hsess EXCEPT ![h] = {SessionIdFor(id)} \ {NoSession}]
    BY <1>3 DEF CancelQueueItem
  <2>2. id \in ItemIds /\ {SessionIdFor(id)} \ {NoSession} \in SUBSET Sessions
    BY BoundFacts, SessionIdTyped DEF ItemIds, TypeInv, HandlersTyped
  <2>3. hitem' \in [Handlers -> ItemIds] /\ hsess' \in [Handlers -> SUBSET Sessions]
    BY <2>1, <2>2 DEF TypeInv, HandlersTyped
  <2> QED BY <1>3, <2>3 DEF CancelQueueItem, TypeInv, HandlersTyped
<1>4. CASE ClearAll(h)
  <2>1. hsess' \in [Handlers -> SUBSET Sessions]
    BY <1>4 DEF ClearAll, TypeInv, HandlersTyped
  <2> QED BY <1>4, <2>1 DEF ClearAll, TypeInv, HandlersTyped
<1>5. CASE CancelBenchmark(h) \/ ClearPendingQueue(h) \/ ClearCompletedAndCancelled(h)
  BY <1>5, TypesUnchanged
     DEF CancelBenchmark, ClearPendingQueue, ClearCompletedAndCancelled, TypeInv
<1>6. CASE AddItems(h)
  <2>1. hbatch' \in [Handlers -> Seq(Item)]
    <3>1. <<>> \in Seq(Item)
      OBVIOUS
    <3> QED BY <1>6, <3>1 DEF AddItems, TypeInv, HandlersTyped
  <2> QED BY <1>6, <2>1 DEF AddItems, TypeInv, HandlersTyped
<1>7. CASE CancelTheItem(h) \/ CancelTheSession(h)
  <2>1. hsess' \in [Handlers -> SUBSET Sessions]
    BY <1>7 DEF CancelTheItem, CancelTheSession, TypeInv, HandlersTyped
  <2>2. hpc' \in [Handlers -> HandlerPC]
    BY <1>7 DEF CancelTheItem, CancelTheSession, TypeInv, HandlersTyped
  <2> QED BY <1>7, <2>1, <2>2 DEF CancelTheItem, CancelTheSession, TypeInv, HandlersTyped
<1>8. CASE ClearAllStep(h)
  <2>1. hsess' \in [Handlers -> SUBSET Sessions] /\ hpc' \in [Handlers -> HandlerPC]
    BY <1>8 DEF ClearAllStep, TypeInv, HandlersTyped
  <2> QED BY <1>8, <2>1 DEF ClearAllStep, TypeInv, HandlersTyped
<1> QED
  BY <1>1, <1>2, <1>3, <1>4, <1>5, <1>6, <1>7, <1>8 DEF HandlerCall, HandlerStep

LEMMA TypeHandlerQueue ==
  ASSUME NEW h \in Handlers
  PROVE  TypeInv /\ (HandlerCall(h) \/ HandlerStep(h)) => QueueTypeOK'
<1> SUFFICES ASSUME TypeInv, HandlerCall(h) \/ HandlerStep(h) PROVE QueueTypeOK'
  OBVIOUS
<1>1. CASE UNCHANGED queueVars
  BY <1>1, QueueUnchanged DEF TypeInv
<1>2. CASE RetryItem(h)
  BY <1>2, TypeRetry
<1>3. CASE ClearPending \/ ClearTerminalItems \/ ClearAllItems
  BY <1>3, ClearTyped DEF TypeInv
<1>4. CASE AddItems(h)
  <2>1. hbatch[h] \in Seq(Item) /\ AddAll(hbatch[h])
    BY <1>4 DEF AddItems, TypeInv, HandlersTyped
  <2> QED BY <2>1, AddTyped DEF TypeInv
<1>5. CASE CancelTheItem(h)
  <2>1. hitem[h] \in ItemIds
    BY DEF TypeInv, HandlersTyped
  <2> QED BY <1>5, <1>1, <2>1, CancelTyped DEF CancelTheItem, TypeInv
<1> QED
  BY <1>1, <1>2, <1>3, <1>4, <1>5 DEF HandlerCall, HandlerStep, ScheduleBatch, CancelQueueItem,
     CancelBenchmark, ClearPendingQueue, ClearCompletedAndCancelled, ClearAll, CancelTheSession,
     ClearAllStep

LEMMA TypeHandler ==
  ASSUME NEW h \in Handlers
  PROVE  TypeInv /\ (HandlerCall(h) \/ HandlerStep(h)) => TypeInv'
<1> SUFFICES ASSUME TypeInv, HandlerCall(h) \/ HandlerStep(h) PROVE TypeInv'
  OBVIOUS
<1>1. QueueTypeOK' /\ HandlersTyped'
  BY TypeHandlerQueue, TypeHandlerLocals
<1>2. UNCHANGED <<runVars, spawned, spc, ditem>>
  BY DEF HandlerCall, HandlerStep, ScheduleBatch, RetryItem, CancelQueueItem, CancelBenchmark,
     ClearPendingQueue, ClearCompletedAndCancelled, ClearAll, AddItems, CancelTheItem,
     CancelTheSession, ClearAllStep, poolVars, dispatcherVars
<1>3. RunsTyped' /\ OthersTyped'
  BY <1>2, TypesUnchanged DEF TypeInv
<1>4. SessionTypeOK'
  <2>1. UNCHANGED sessionVars \/ \E s : CancelSession(s)
    BY DEF HandlerCall, HandlerStep, ScheduleBatch, RetryItem, CancelQueueItem, CancelBenchmark,
       ClearPendingQueue, ClearCompletedAndCancelled, ClearAll, AddItems, CancelTheItem,
       CancelTheSession, ClearAllStep, CancelOrNot
  <2> QED BY <2>1, TypesUnchanged, SessionsTyped DEF TypeInv, RunStatus
<1>5. DispatcherTyped'
  <2>1. CASE UNCHANGED dispatcherVars
    BY <2>1, TypesUnchanged DEF TypeInv
  <2>2. CASE AddItems(h)
    BY <2>2 DEF AddItems, NotifyWaiters, Woken, TypeInv, DispatcherTyped
  <2> QED
    BY <2>1, <2>2 DEF HandlerCall, HandlerStep, ScheduleBatch, RetryItem, CancelQueueItem,
       CancelBenchmark, ClearPendingQueue, ClearCompletedAndCancelled, ClearAll, CancelTheItem,
       CancelTheSession, ClearAllStep
<1> QED BY <1>1, <1>3, <1>4, <1>5 DEF TypeInv

-----------------------------------------------------------------------------
LEMMA TypeNext == TypeInv /\ PoolInv /\ [Next]_vars => TypeInv'
<1> SUFFICES ASSUME TypeInv, PoolInv, [Next]_vars PROVE TypeInv'
  OBVIOUS
<1>1. CASE StartQueueWorker
  BY <1>1, TypeDispatcherMoves
     DEF StartQueueWorker, DispatcherGoto, poolVars, TypeInv, DispatcherTyped
<1>2. CASE DispatcherStep
  BY <1>2, TypeDispatcherStep
<1>3. CASE \E r \in Runs : RunStep(r)
  BY <1>3, TypeRunStep
<1>4. CASE \E h \in Handlers : HandlerCall(h) \/ HandlerStep(h)
  BY <1>4, TypeHandler
<1>5. CASE ShutdownSessionManager \/ RequestShutdown
  <2>1. UNCHANGED <<queueVars, dispatcherVars, poolVars, runVars, handlerVars>>
    BY <1>5 DEF ShutdownSessionManager, RequestShutdown
  <2>2. QueueTypeOK' /\ DispatcherTyped' /\ RunsTyped' /\ HandlersTyped'
    BY <2>1, QueueUnchanged, TypesUnchanged DEF TypeInv
  <2>3. SessionTypeOK'
    BY <1>5, TypesUnchanged, SessionsTyped
       DEF ShutdownSessionManager, RequestShutdown, TypeInv, RunStatus
  <2>4. OthersTyped'
    BY <1>5, <2>1 DEF ShutdownSessionManager, RequestShutdown, poolVars, TypeInv, OthersTyped
  <2> QED BY <2>2, <2>3, <2>4 DEF TypeInv
<1>6. CASE AbortQueueTask
  BY <1>6, TypeDispatcherMoves DEF AbortQueueTask, poolVars, TypeInv, DispatcherTyped
<1>7. CASE UNCHANGED vars
  BY <1>7, QueueUnchanged, TypesUnchanged DEF vars, poolVars, TypeInv
<1> QED BY <1>1, <1>2, <1>3, <1>4, <1>5, <1>6, <1>7 DEF Next, ShutdownStep

\* Every variable of the queue processor keeps its type, and permits and
\* active_workers stay between 0 and Parallelism.
THEOREM TypeCorrect == Spec => []TypeOK
<1>1. Init => TypeInv
  BY TypeInitially
<1>2. TypeInv /\ PoolInv /\ [Next]_vars => TypeInv'
  BY TypeNext
<1>3. TypeInv /\ PoolInv => TypeOK
  <2> SUFFICES ASSUME TypeInv, PoolInv PROVE TypeOK
    OBVIOUS
  <2>1. permits \in 0..Parallelism /\ active_workers \in 0..Parallelism
    BY HoldingFinite, PoolAssumption
       DEF PoolInv, PoolType, PermitsConserved, WorkersBounded
  <2>2. dpc \in DispatcherPC
    BY DEF PoolInv, PoolType
  <2> QED
    BY <2>1, <2>2 DEF TypeOK, TypeInv, DispatcherTyped, RunsTyped, HandlersTyped, OthersTyped
<1> QED BY <1>1, <1>2, <1>3, PoolInvariant, PTL DEF Spec
=============================================================================
