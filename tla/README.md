# LLM benchmark: specifications and proofs

TLA+ specifications of this repository, the TLC runs that check them on small instances, and TLAPS
proofs that hold for every value of the constants. Paths below are relative to the repository root;
`web/` stands for `benchmark-web/src/`, `core/` for `crates/benchmark-core/src/`, `types/` for
`crates/benchmark-types/src/`.

## 1. The system and its parts

The web server takes requests to benchmark an agent and a model on exercises, queues one item per
exercise, and runs items in Docker containers, a bounded number at a time. Results are written to
JSON files and shown from a cache. A command line runs the same exercises without the queue.

| Component | Code | State | Operations | What makes it correct |
|---|---|---|---|---|
| Benchmark queue | `web/models/queue.rs`, `queue_item.rs` | list `all_items`, deque `inner`, map `current_items`, all under one mutex; a `Notify` | add, poll, complete, fail, cancel, clear (3 kinds), retry, link session | the containers agree; an item runs at most once per push; a cancelled item never starts |
| Session manager | `web/services/session_manager.rs`, `models/session.rs` | map of sessions, map of cancellation tokens (two locks), log and broadcast channel of each session | create, cancel, update, emit, shutdown | a cancel reaches the run; a session ends terminal |
| Queue processor | `web/services/queue_processor.rs` | semaphore, counter of busy workers, shutdown flag, dispatcher task | dispatcher loop, one worker task per item, schedule, cancel, clear, retry, shutdown | bounded concurrency, no permit lost, no lost wake-up, backlog drains |
| Benchmark executor | `web/services/benchmark_executor.rs` | its own copy of the session | execute: start, run, save, finalize | always publishes a terminal status; honours the token; a success is earned |
| Agents | `core/agent/*.rs`, `core/aoc_runner.rs` | a work directory | copy, run, patch tests, test, clean up | tests judge the solution; no directory is left |
| Routes, SSE stream | `web/routes/*.rs` | per request | schedule, cancel, clear, retry; stream of output | answers tell the truth; streams end |
| Container run | `core/docker/client.rs` | child process, readers, deadline, liveness task | run, kill, drain, clean up | a container never outlives its run; the outcome is the right one; no output is lost |
| Tool watchdog | `core/docker/watchdog.rs`, `stream_parser.rs` | timers per tool call | start, cancel, check, close | kills what is overdue and nothing else |
| Model load gate | `core/model_load.rs` | one lock per model server | probe, warm up, give up | one load at a time; never stuck |
| Exercise runner | `core/exercise_runner/mod.rs` | bounded stream of tasks | run all, cancel | bound respected, failures shown |
| Results | `core/persistence/mod.rs`, `web/services/result_service*` | files, in-memory cache behind an `RwLock` | save, load, refresh, update, query | a success is never overwritten by a failure; the cache converges to the files; queries answer |
| Views and reports | `web/services/result_service/*`, `benchmark-reporter`, `benchmark-token-report` | none | filter, group, score, compare, count tokens | sums add up; scores are fair; a trace belongs to its run |
| Settings | `types/config`, `types/reasoning.rs`, `core/endpoint.rs` | none | parse, validate, probe, match, map levels | the run gets what the user asked for |
| The rest | exercise packing, command line, templates, puzzle solvers | none that is shared | | left to the unit tests |

**How they interact.** HTTP handlers call the queue processor and the session manager directly,
from any tokio thread. The dispatcher task polls the queue and spawns worker tasks. A worker
creates a session, links it to its item, has the executor run it, and waits for the session to be
terminal before it settles the item. The dispatcher is woken through the queue's `Notify`: with
`notify_waiters` when items are added, with `notify_one` when a worker ends. The executor passes
the model gate, calls an agent, and the agent calls the container run, each line of which goes to
the watchdog, to the log of the session and through a broadcast channel to the SSE streams. A
cancel travels through the session manager's token to the executor and the container. The executor
writes its copy of the session back whole with `update_session`; a finished run is saved in its
file and then in the cache, beside loads that read all files again.

**What is hard.** Locks are released between the steps of one request (cancel: session id, item,
session; retry: reset, push; create session: session, token). A permit is taken by one task and
given back by another. The executor's copy of a session goes stale. The dispatcher can be aborted
wherever it awaits. `notify_waiters` remembers nothing. A container run races its CLI, deadline,
cancel and liveness check, and its pipe may never close. Start and end of a tool call are handled
by unordered tasks. Result files are read, judged and rewritten without a lock. The list of these
hazards, each at its line and with the properties that watch it, is in `PROJECT.json`.

## 2. The modules

| Module | Models | Role |
|---|---|---|
| `WebIdentifiers` | numbering of items, pushes and sessions | constants and bounds |
| `BenchmarkQueue` | `models/queue.rs`, `queue_item.rs` | state of the queue and its methods as action formulas |
| `SessionManager` | `services/session_manager.rs` | sessions and tokens |
| `QueueProcessor` | `services/queue_processor.rs`, `execute` of the executor, the handlers | composes the two; `Init`, `Next`, fairness, `Spec`, `FairSpec` |
| `ItemLifecycle` | the promise to who schedules an item | abstract specification |
| `QueueProperties` | | properties and refinement mapping of the queue |
| `SessionStream` | `models/session.rs`, SSE in `routes/benchmark.rs` | extends `SessionManager` with log, channel and viewers |
| `SessionRun` | `execute` with `execute_single_exercise` and `execute_aoc`, the three agents | composes executor, agents, stream, cancel and shutdown |
| `SessionProperties` | | properties of a session |
| `ContainerRun` | what a container run promises | abstract specification |
| `DockerRun` | `docker/client.rs` with CLI, daemon, readers, liveness task | detailed specification |
| `ContainerProperties` | | properties and refinement mapping of the container run |
| `ToolWatchdog`, `WatchdogProperties` | `docker/watchdog.rs` | timers, tasks, ticker, kills; their properties |
| `ModelLoadGate` | `model_load.rs` | lock, polling, warm-ups, the inference server |
| `ExerciseBatch`, `BatchProperties` | `execute_all_exercises`, `run_all_exercises` | composes the gate with a session over all exercises |
| `ResultStore`, `ResultProperties` | `persistence/mod.rs`, `update_single_result`, `result_service/load.rs` | files, cache, loads, crashes |
| `ResultCache` | the `RwLock` of `result_service` | readers that lock again, writers that wait |
| `ResultViews` | `query.rs`, `statistics.rs`, `scoring.rs`, `routes/compare.rs` | operators on a cache |
| `TraceReports` | `trace.rs`, the two reporters | operators on traces and directories |
| `Transcripts`, `TranscriptCases` | message processors, `stream_parser.rs`, `forward_line` | what a line is read as; the lines looked at and what is expected of them |
| `RunSettings`, `SettingsCases` | `reasoning.rs`, `config/mod.rs`, `endpoint.rs`, `pi.rs`, build tools, file names | operators; the settings looked at and what is expected |
| `Computations` | | one call of an operator per behaviour, over every input of a domain |
| `*_proofs` | | theorems |

### Correspondence of the core

*The queue.* Both containers are only appended to at the back, together, and filtered, so a push
gets a number and `all_items` and `inner` are functions from the numbers they still hold to items;
the order of the numbers is the order of the vector. `First(id)` is what the `for ... break` loops
of the code find. An item is its id, a key (agent, language, exercise), its status and its session;
timestamps and the other fields are left out. `cancelled`, `withdrawn` and `retried` are history: no action
reads them.

*Atomicity.* A step ends where the code releases a lock or awaits. `CreateSession` and
`RegisterToken` are two steps because `create_session` takes two locks; `RetryItem` and `AddItems`
are two because `retry_item` drops the lock; `CancelQueueItem`, `CancelTheItem`, `CancelTheSession`
are three. What a handler read under the first lock it keeps in `hitem`, `hsess`, `hbatch`.

*The dispatcher.* `dpc` follows `start_queue_worker`: check the flag, check the counter, take and forget a
permit (or back off 50 ms), then poll until there is an item, count it, spawn its worker. `Arm` is the creation
and first poll of `notified()`: it consumes a stored permit of the `Notify` or starts to wait. A batch that the
checks leave empty is added all the same, and notifies. `NotifyWaiters` and `NotifyOne` are the two calls of the
queue.

*A worker.* `rpc[r]` follows `process_queue_item` around `execute`. `rlocal[r]` is the status of the
executor's copy of the session. `RunExercise` is the whole container run with its possible
outcomes: a success (saved, or the save fails and is only logged), an unsuccessful result, an error.
The wait loop is one step, since `ExecuteLeavesTerminal` shows that it never really waits; a missing
session is given up on as failed, which is what the code does after 10 seconds.

*Shutdown.* `BenchmarkService::shutdown`: sessions cleared, flag raised, dispatcher aborted. The
abort takes effect at any await, and what the task held is dropped with it.

### Correspondence of the others

*`DockerRun`.* `pc` follows the call from the image check to the cleanup; every wait of the code is
a state of it, and the `select!` is the state `wait`, left by whichever of its branches is ready. A
timeout may fire whenever what it guards has not happened. The CLI, the daemon's container and the
program in it are apart, because they fail apart: the CLI may hang after the program ended, the
container may be created after the call gave up. Output is counted, in lines: written, in the pipe,
in the channel, collected. Removals that fail are bounded by `MaxRmFaults`.

*`ToolWatchdog`.* A line of interest is a task in `tasks`, a set, so the tasks run in any order.
The clock ticks one tick at a time; a timer that is due is taken out of the list with its
command and killed in two steps, as `pkill` is sent TERM and later KILL. The list is a function from
push numbers, so that removing an entry leaves the others where they are. `Found` is what `pkill -f`
finds by the first line of a call's command: other calls too whose command contains it, and not even
the call itself if the pattern, from which quotes are stripped (`watchdog.rs:198`), is not in its
process table entry. The run takes commands that are found by their own line alone. A `docker exec` may fail
or be given up on after 15 s (`docker_exec`): that is logged, the command is forgotten (its timer went
with the decision), and the client that was given up on may still deliver its signal later
(`LateSignal`). `givenUp` keeps the signals this happened to; only `LateSignal` reads it.

*`ModelLoadGate`.* `phase` follows one caller from the lock to the answer. The server holds one
model, loads on demand, and may drop a model for somebody else (`MaxEvictions`). A warm-up is a
request of its own that lives on when its caller gives up. `ExerciseBatch` has each exercise pass
the gate and be run, and the executor take a language after the other.

*`ResultStore`.* A writer's steps are the read of its file, the decision, the truncation and the write (a crash
may come between them), and the update of the cache and of the models. A load reads the files one at a time,
then replaces the cache. Any of these reads may fail: `save_result` then takes the file for a new one,
`load_cached_result` has no entry. A duration is written as seconds in a float and read back by truncation
(`ReadBack`), so that 1001 ms may come back as 1000; which durations lose a millisecond is the constant
`Truncated`. `best` and `tries` are history: what the file should say since it was begun; a save that could not
read the file begins it again (`blind`). The 5 s limit on refreshes is the choice whether one is due.

*`ResultCache`.* Only the lock. The standard library's `RwLock` on Linux lets no reader in while a
writer waits, which is what makes a second read by the same thread wait.

*`SessionRun`.* The work directory is what its solution is worth and which tests it will meet. A container here
is what `ContainerRun` promises. The test files are skipped in part, whole, marked in a form the patch does not
know, changed by the agent, or cut: copying and patching stop at the first file that cannot be read or written,
which is an error for pi and is dropped by the reference agent (`CopyReference`). The work directory is removed
before the result is returned, and the error of `remove_dir_all` is dropped (`RemoveWorkDir`). `judged` and
`leaked` are history: what a verdict of success stood for, and why a directory was left. `SessionStream` numbers
the lines by their push; what one step emits counts as one line.

*Computations.* `ResultViews`, `TraceReports`, `Transcripts` and `RunSettings` are operators, one per
function, over records that keep what the function looks at: a name is a sequence over two or three
letters where it is matched, a model value elsewhere; text is a number of characters, some of them
of several bytes where the code cuts at bytes; a score is an integer in thousandths; a time is a
small integer. `Computations` relates what they compute to what it is to mean. An entry of a trace says which of two
sets of types accept it: the lenient ones of the dashboard and the reporter (`plain`) or those of the token report
(`typed`), which know neither claude's `tool_result` blocks nor pi entries without a timestamp. It has the counts of
its `usage`, those written directly in the message, those of the server's tools, and those that stand outside any
message, which `extract_usage_from_json` picks up from what the types reject. The lines of tool calls
come in the forms agents print: in the content of messages with and without ids, as a message for each result, as pi's
events, and as both.

## 3. The runs

| Run | Instance | Shows |
|---|---|---|
| `core` | 2 items, 2 workers, 1 handler; schedule, cancel item, cancel session, clear pending, clear finished | the worker counter is exact; list and deque agree; cancelled items never run; `current_items` has an owner; the outcome of a run is what is listed |
| `lifecycle` | 1 item, 1 retry, 1 worker, 2 handlers at once; schedule, retry, cancel item, clear finished, shutdown | types; permits conserved; `execute` leaves a terminal session; the queue implements `ItemLifecycle` |
| `liveness` | 2 items, 1 worker, 1 handler; schedule, cancel session, clear all | runs end, a fired token is honoured, the backlog of a busy pool drains |
| `lost_wakeup` | 1 item | **violation**: an item added to an idle queue can be left waiting |
| `batch` | 2 languages, 3 exercises of one model, 2 at a time | one load at a time and paid once; failures shown; the session ends |
| `container` | 2 lines, 1 removal lost | implements `ContainerRun`; all output returned; aborted for a cause only; stops when asked; ends with its container |
| `watchdog` | 2 shell commands and another tool, results with ids; any `docker exec` fails, and may arrive late | running commands watched until a SIGKILL could not be sent, only overdue ones killed, hung ones killed unless it could not |
| `results` | 2 files, 2 writers (2 runs and 1), 1 crash, 1 read that fails, loads beside | a file holds the best result and all attempts since it was begun; the cache agrees with it |
| `results_race` | both writers on one file | **violation**: a failure overwrites a success |
| `session` | java then go, or a puzzle day; each agent; 1 viewer | a COMPLETED session was earned; only errors and failed removals leave a work directory; streams end at shutdown |
| `computations` | up to 4 results, 3 trace entries, 4 lines | statistics add up, scores are fair and models ranked, comparisons are symmetric, the readers of a trace agree, traces go to their own run, lines and settings mean what they are to mean |
| `cache_lock` | a query of 2 rows, a trace, a writer | **violation**: a query reads the lock again and waits for ever |

*Bounds of the queue.* `MaxItems` items are created, `MaxRetries` retries accepted, so there are at
most `MaxPushes` pushes and runs. One key is enough: the keys only meet in the duplicate check,
which needs two items with the same one. Two items and two workers make two runs overlap, with one
dispatcher between them; one worker and two pushes make the second wait for the first. Two handlers
are needed where one must act between two locked blocks of another (`lifecycle`); where the other
actor is a run or the dispatcher, one handler is enough.

*Other bounds.* Two lines let one be in the pipe and one in the channel when the run is killed. Three exercises
two at a time give two that wait at the gate while a third is still in the stream, and a second language behind
a failed first one; one eviction makes a second load necessary. A timeout of 2 ticks tells due from not due on
either side. Two runs of one writer and one of another make a success slower, equal or faster than the one
before it, and a failure after it; of the durations 1, 2 and 3 the last is read back as 2, so that a slower
success can look as fast as another; one crash comes at any step, and one read fails wherever it is made
(`MaxUnread`). Docker execs fail without a bound. A log of 2 lines with a channel of 1 is trimmed and lags. Four
results are enough for two models of which both ran two exercises, or three intervals of which two overlap and a
third does not; the domains of `Computations` hold every case of each function's branches. `CHECK_DEADLOCK
FALSE` is set because the system really comes to rest: clients may never call again.

*Fairness.* tokio polls every task that is ready, so the dispatcher, every worker task, a handler
that is between two locked blocks and the shutdown sequence are weakly fair, each as a whole. That
a container run ends, which the queue assumes, is what `StopsWhenAsked` shows of `DockerRun`.
There the call, its reader and liveness tasks are weakly fair; that the deadline passes is not
assumed, the properties start from it; the docker CLI is only assumed to die once it is killed, and the
daemon, the program and its pipe not to do anything. In `ExerciseBatch` the executor and the
end of an exercise that runs (its deadline) are weakly fair, taking the gate's lock is strongly fair
for each caller (tokio's mutex is first come, first served) and so
weakly are its timed requests to the server, and giving up once the deadline of the wait is reached is strongly
fair; the server itself is not fair. In
`ToolWatchdog` time passes and the tasks and the ticker run; neither that a docker exec works nor that a late signal
arrives is assumed. In `SessionRun` only the consumer of
the output and the stream handlers are fair: a stream ends although the run does not. Clients are not fair
anywhere. `NewItemIsPickedUp` fails under this fairness; `BacklogDrains`, which asks
only for a run under way when the item waits, holds, because `notify_one` is stored.

*Mutants.* Operators marked "mutated" sit before the definition they replace: each is a
plausible slip (a permit dropped instead of forgotten, a retain forgotten, a status not
matched, a lock not taken, tests patched before they are copied) and each breaks the property it is paired with in
`PROJECT.json`.

## 4. Where code and documents disagree

Shown by a run and quoted under `findings` in `PROJECT.json`: the lost wake-up (an `add` between
`poll_next` and `notified()`), the success overwritten by a run beside it, the query that waits for itself.

Seen while modelling; the model does what the code does, and no run is spent on them.

- *Queue and sessions.* A cancel between the executor's look at the token and its last update, or
  before the token exists, is overwritten, and the item of a cancelled run can stay RUNNING or be
  COMPLETED. A retried item is listed twice. `schedule_batch` queues again what is running. The
  number reported as cleared is counted in the deque. `queue.rs:152` says that FAILED items are
  cleared; the code keeps them, as its comment at line 158 explains. `lib.rs:174` says that stopping the queue
  processor comes first and prevents new sessions; in `BenchmarkService::shutdown` sessions are
  cleared first, and workers already spawned are not stopped.
- *Sessions and streams.* A stream ends when its session has been removed, so the SSE "complete" event
  falls back to COMPLETED (`routes/benchmark.rs:391`), whatever the session came to.
  Lines between the rendering of a page and its subscription are lost. The consumer of a session's
  output does not trim the log as `emit_output` does. `complete()` reports 0 % for a session over all
  exercises. `execute_all_exercises` overwrites the message of a failed save.
- *Agents.* The text of claude is shown twice (partial messages, then the whole). The reference agent looks for
  upper-case words in lower-cased output (`reference.rs:561`), so a failure that exits with 0 passes. A bare
  `@Disabled` and `#[ignore = ".."]` are not patched, and claude's tests never are; tests an agent has changed
  are the ones that are run. After a cancel the test container runs without a token. A test file that cannot be
  copied or patched is skipped over silently by the reference agent (`reference.rs:670`). A work directory that
  cannot be removed stays, silently. A java exercise with both build files is prepared by gradle and tested by
  mvn. The work directory is named by exercise and millisecond, without the language.
- *Watchdog.* A kill that fails is logged and never tried again, and its command runs on unwatched.
  `StreamParser` is not used in production, `forward_line` is. In the format without
  ids, the end of any tool cancels the oldest timer. Of several calls on one line only the first
  is timed.
- *Container.* A line that is not UTF-8 ends its reader. The second `docker rm` has no timeout.
- *Results.* `persistence/mod.rs:33` says that a success is never overwritten by a failure; a lone writer does
  that too when the existing file cannot be read (line 70 has no `else`), and the count of attempts then starts
  anew. `POST /api/results/refresh` always answers 0 loaded, against docs/API.md. A result saved while a refresh
  is reading is shown only after the next one. `result_count` is not updated by `update_single_result`.
- *Views.* `get_completeness_info` compares names without the language; `get_model_scores` counts
  successes outside the expected set; `calculate_scores` is documented as sorted and is not; a success
  whose duration is 0 can have a score above 100 % or none at all; durations
  without a unit are parsed; in a comparison an exercise that only B ran, with its count missing, is a
  win for B, one that only A ran a tie.
- *Reports.* The reporter leaves the cache out of pi's tokens and counts every result twice in its table of
  exercises. The token report's cost is always 0; it skips category directories; a trace is found by prefix and
  may be another exercise's, a `log_` file is taken for every exercise; a message without usage resets its
  differences. It alone adds what the server's tools used and takes counts beside the usage, and it skips
  claude's messages with tool results. Claude's input that stays equal counts as uncached.
- *Settings.* `reasoning.rs:477` says that patterns match in registration order; `register` puts the latest first, as its
  comment at line 485 says. A model whose name matches a registered pattern and contains an Anthropic keyword goes
  to that provider with another family's levels. The last part of a pattern may overlap the one before.
  `get_next_run_number` skips a character too many, and is not called. A retry's timeout is looked up
  without the category directory.

## 5. The proofs

Checked by TLAPS for every value of the constants that their assumptions allow: for the queue every
`Parallelism >= 1`, number of items, retries, keys and handlers (`BoundsAssumption`,
`PoolAssumption`); for the rest `DockerAssumption`, `GateAssumption`, `BatchAssumption`,
`StoreAssumption`, `RunAssumption`, `StreamAssumption`, `WatchdogAssumption`. A theorem that needs more
says so in its ASSUME; each such hypothesis is named below.

*`Queue_proofs`, the workers.* `PermitsAreConserved`, `WorkersAreCounted`, `ConcurrencyIsBounded`, from one
inductive invariant, `PoolInv`. `PermitsConserved` alone is not inductive: that a spawn adds a *new*
run to those that hold a permit needs `SpawnOrder` (worker tasks are numbered as they are
spawned), and that the counter stays within bounds after an abort needs `WorkersBounded`, because
`WorkersCounted` is silent once the dispatcher is gone. The argument is one of cardinalities: each
step moves one run in or out of `HoldingRuns` or `CountedRuns`, or the dispatcher in or out of
`DispatcherHolds`, and changes `permits` or `active_workers` by one accordingly; every other step
leaves the five variables of the invariant alone (`PoolUnchanged`, `RunMoves`, `DispatcherMoves`).
`BoundedConcurrency` follows: a run that works on its item holds a permit. It is stated
in no run, because the code enforces it twice (semaphore and counter).

*`Queue_proofs`, the sessions.* `ExecuteLeavesSessionTerminal`. `SessionInv` adds to the property that
what a run is about to publish is terminal. A run writes only its own session (`OwnStep`), a cancel
only makes sessions CANCELLED, shutdown only removes them.

*`Queue_proofs`, the types.* `TypeCorrect`. The types of the variables are not inductive alone. `TypeInv`
adds who holds an item: a run that was spawned, and a dispatcher that has polled and not yet
spawned, have one in hand. The bounds of `permits` and `active_workers` are those of `PoolInv`. That `First` and the
next push to poll exist is the well-foundedness of `<` on the naturals, and that a scheduled batch is a sequence of items
is where the set of keys must be finite (`BoundsAssumption`).

*`QueueContents_proofs`.* `ViewsAgree`, `CancelledItemsNeverRun`, `CurrentItemsAreOwned`,
`OutcomesReflected` from `ContentsInv`, and the refinement `QueueImplementsLifecycle`. None of the four
properties is inductive: each needs what the other holders of an item know of it, so the invariant is
per item. `ItemInv(id)` says that an item which is not queued yet is known only to the one handler about
to add it (`BatchPart`), that deque and list agree on it (`ViewPart`), that it is polled once, and never
after it was withdrawn (`PolledPart`), and how the map, its owner and its status go together
(`CurrentPart`). It is claimed of items that nobody retried: a retry pushes a clone with the old id, and
then two runs may own one id. Most steps leave an item alone (`ItemElsewhere`); the rest are the
methods of the queue, each described once by what it does to the entries of an item (`PolledView`,
`FinishedItem`, `CancelledItem`, `AddedView`, ...) and used for the invariant and for the refinement.
There, `StateOf(id)` is the abstract state, and a step moves one item (`OneMoves`), a set of them
(`StatesMove`, for an added batch and a cleared list) or none. `OutcomesAreFinal` is what the refinement
is worth to somebody who looks at an item: no step undoes an outcome or brings back what was cleared.

*`Batch_proofs`.* `BatchTypeCorrect`, `OneLoadAtATime`, `FailuresAreShown` from `BatchInv`. The gate
and the batch meet in `PhasesInRun`: a caller is between the gate's steps only while its language is run
and before it has a result. For the failures, `FailuresCounted` says where one can be (in the language that
is being run or counted, in the status, or behind a cancel), which needs `UnsavedCounted`: what is
counted is all the language has brought. `FirstPaysAlone` assumes that the callers ask for one model
(`SessionModel`), as those of a session do: `execute` reads it once. Otherwise two models could take
each other's place in the server, and each be loaded twice. `OnlyFirstPays` looks at two warm-ups; what
it needs of one is `WarmUpHelped`: a warm-up whose caller did not give up has made the model
resident by the time the lock is free, so that nobody sends a second.

*`Results_proofs`.* `StoreTypeCorrect` without further assumption; `FilesAreBest`, `SuccessesStay` and
`CacheShowsFiles` under `OneWriterPerFile`. `SuccessesStay` is the rule that `results_race` finds broken: the
run and the theorem together say that two writers of one file are what breaks it, as long as no file is begun
again. `FileIsBest` is not inductive: `DiskInv` adds that what a worker has decided to write is what the file is
to be then (for one that could not read it, the file begun again; `BlindDecided`), and that a file is unsound
only while it is being written. A save that cannot read its file begins it again, so `best` counts from there. A
duration is read back at most a millisecond short, and so a file is within that of the best, whichever durations
`Truncated` names. `CacheInv` says how far a load is with a file that nobody has saved since it began
(`LoadsAgree`), and what a save that met no load has left behind (`AloneAgree`); the cache agrees with the
settled files that are not marked stale (`SettledAgree`).

*`Container_proofs`.* `RunTypeCorrect`, `NoOutputLost`, `AbortedForCause` from `RunInv`:
what the call's place says of the CLI, which statuses go together, that the liveness task and the readers only
give up at the end of what they watch, and that after the join what was not read was not decodable.
`RunKeepsPromise` is the refinement, initial state and step by step, under `OneRemovalLost`: with
`RemovalInv`, a container that still runs at the end has cost the one removal that may be lost.
`NothingOutlivesTheCall` draws the caller's conclusion from it, by an invariant of `ContainerRun` alone.

*`Session_proofs`.* `CompletedWasEarned` and `ErrorsLeak` from `VerdictInv`: which places each agent and
category passes through, which tests its solution can meet there, what the languages that are
over stand for, and which status goes with a directory left behind (`LeakKnown`). The exemptions are those of `Earned`:
dropped errors of copy and patch, marks the patch does not know, tests an agent
changed, failures that exit with 0. No step of the file system is assumed to succeed. `SessionTypeCorrect` is proved from
`SessionInv`, which bounds the log by what was printed so far (`LogFits`, `Spent`): the bound of `TypeOK`,
over all languages, is not inductive, since a language that is over could print once more.

*`Watchdog_proofs`.* `WatchTypeCorrect`, `KillsAreOverdue` and `RunningCallsAreWatched` from `WatchInv`. A
kill is overdue because a timer is never ahead of its call (`TimersLag`), and that is because a timer is
started by the line of a call that has begun (`LinesTell`, `TimersTell`): a late line makes it lag more. It
takes the hypothesis that `pkill -f` finds no other command (`FindsNoOther`); a command that contains
another one's line is killed with it, however young. That a running call is watched takes two: that
results carry the ids of their calls (`ResultIds`), since in the other format the end of any tool removes
the oldest timer, and that a command is found by its own line (`FindsItsOwn`), since otherwise its timer
is used up by a kill that misses. `TickerBusy`: between the two signals there is a victim. Nothing is assumed of a docker
exec: `SignalsTell` says that one which was given up on was sent for an overdue call, so that its signal is not
premature however late it arrives; a call whose SIGKILL could not be sent is the one case in which a running call
is watched no more.

*`Computations_proofs`.* What the run checks for the results of a small pool, traces of three entries and two
run directories, for any finite set of results, any trace and any finite directories. The calls of the run are
typed (`CallsAreTyped`), so that `PagesAddUp`, `PagesAreFair`, `PagesCompare`, `TracesRead` and `TracesGiven` state
its invariants, for any of its bounds; each rests on a theorem about the operators alone.
A loop of the code that adds up is a fold over a set in the model. `FoldExists` unfolds one by induction over
the finite subsets, as the well-foundedness of strict inclusion (`SmallestSet`, `SubsetInduction`): the library's
induction takes an operator and cannot be used here, a set of subsets can. From it follow sums in any order
(`SumMore`), by groups (`GroupsSum`), and compared with each other (`SumRises`, `SumPart`).
- `WallClockCovers`: merging sorted intervals measures the moments that some interval covers (`MergedMore` is one
  step). `NumbersAddUp` adds the groupings, which are sums by groups, and the parts of a duration.
- `MarksWithinBounds` and `LessIsNeverWorse` assume that every success took time (`Measured`), which the code does not
  enforce: a success with duration 0 is compared with bounds it is not among, and `ScoresAreFair` says nothing of it.
  With it, a success is among those it is measured against (`WithinBounds`), so that every quotient is a part of a
  whole (`PerMille`). Of the power law, whose stand-in is `Power`, the proofs use that it rises from 0 to 1.
- `ModelsCompare` counts the tasks each side wins; `ComparisonIsSymmetric` needs every count to be there.
- `TracesReadAlike` compares the readers place by place: the dashboard's split loses nothing (`ClaudeSplits`), what the
  token report takes for growth is never more than the dashboard's output and what the server's tools wrote
  (`OutputGrows`) or, when both count the same messages and no server tool was used, its uncached input (`InputGrows`);
  of pi it tells no more, and the same if its types reject no message (`PiAgree`). These comparisons
  take counts that stand in the usage of messages alone (`ToldOnce`): with counts beside the usage or outside any
  message the readers do differ. Of a trace it assumes only that counts are numbers and that only
  the assistant calls tools (`IsTrace`).
- `RunsAttributed`: the walk over a directory gives each result the traces between it and the result before it
  (`WalkedMore` is one step), so that the rows add up to the traces that some result is newer than. It takes results
  of different modification times (`IsRun`), as the run does: of two written at once, whichever sorts first takes all.
  `OwnTraceFound` holds for any names.

`TypeOK` of the watchdog and of the gate with its batch is in no run: `WatchTypeCorrect` and `BatchTypeCorrect` prove it.

Only model-checked: `ModelsAreRanked`, whose ranking is a sorted sequence and whose means of thousandths may
round to nothing for many results; `LinesAreUnderstood` and `SettingsResolve`, which are about strings as sequences
with recursive definitions; and all liveness, since neither fairness nor ENABLED is in the prover's reach:
`FiredTokenHonoured`, `RunsEnd`, `BacklogDrains`, `BatchEnds`, `StopsWhenAsked`, `EndsWithContainer`,
`HungCallIsKilled`, `StreamsEnd`.

## 6. What is not modelled

- In the queue: modes `quick` and `slow` of `schedule_batch` (their checks are those of `single`),
  `schedule_aoc`, a panic in a worker task, several models per key, a parallelism of 0 (the
  dispatcher would wait for ever).
- In the container run: building the image, the arguments of `docker run`. Lengths of time are left
  out everywhere but in the watchdog.
- The command line writes results through the same persister; `ResultStore` has the server's writers only.
- Exercise packing, templates, assets, metrics, argument parsing and the puzzle solvers: pure
  functions of their input or output, without shared state; the tests reach them.
- `parallel/mod.rs` and `get_next_run_number`: nothing calls them.
