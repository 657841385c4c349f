------------------------------ MODULE SessionRun ------------------------------
(***************************************************************************)
(* The run of a session that names its exercise: execute of                *)
(* services/benchmark_executor.rs with execute_single_exercise (the        *)
(* exercise in each language of the session) or execute_aoc (one puzzle    *)
(* day), down to the steps of the agent that it calls: agent/claude.rs,    *)
(* pi.rs or reference.rs.  A container is what ContainerRun promises: its  *)
(* run ends by itself or is aborted, and the call succeeds only for exit   *)
(* status 0.  Beside it the session's log and its viewers (SessionStream), *)
(* a user who cancels, and the server's shutdown.                          *)
(*                                                                         *)
(* The files of a work directory are: what the solution is worth and which *)
(* tests it will meet.                                                     *)
(***************************************************************************)
EXTENDS SessionStream

CONSTANTS
  Languages,  \* the languages of the session, in order
  Agents,     \* the agents an instance looks at
  Categories, \* and the categories
  MaxLines    \* bound: lines an agent's container prints

ASSUME RunAssumption ==
  /\ Languages \in Seq({"java", "rust", "javascript", "go"}) /\ Languages # <<>>
  /\ Agents \subseteq {"claude", "pi", "reference"}
  /\ Categories \subseteq {"polyglot", "aoc"} /\ MaxLines \in Nat

VARIABLES
  pc,         \* where the executor, or the agent it awaits, is
  agent, category,
  lang,       \* the language it is at
  workdir,    \* is there a work directory?
  leaked,     \* why directories stayed behind: their call ended "with_error", they are
              \* "unremovable", or nobody removed them ("silently")
  solution,   \* what the work directory holds: "stub", "partial", "whole"
  tests,      \* the tests that would run: "all"; "some", or "odd" where the rest is
              \* marked in a form the patch does not know; what an error has left of
              \* them ("cut"); the agent's own ("altered")
  agentOk, testOk, \* completed && exit_code == 0 of the agent, t.success of the tests
  printed,    \* lines of the agent's container
  quiet,      \* did the tests fail with exit status 0?
  status,     \* of the executor's copy of the session
  judged,     \* language -> what its result stands for (Worth)
  down        \* the shutdown sequence: "no", "cleared", "over"

agentVars == <<workdir, solution, tests, agentOk, testOk, printed>>
execVars == <<pc, agent, category, lang, agentVars, leaked, quiet, status, judged>>
vars == <<sessionVars, streamVars, flag, local, execVars, down>>

Suites == {"some", "odd", "all", "cut", "altered"}
Worths == {"stub", "partial", "whole", "odd", "cut", "altered", "quietly"}

\* What a verdict of success stands for: the worth of the solution, or what was
\* the matter with the tests.
Worth ==
  CASE quiet -> "quietly"
    [] ~quiet /\ tests \in {"cut", "altered"} -> tests
    [] ~quiet /\ tests = "odd" /\ solution = "partial" -> "odd"
    [] OTHER -> solution

Containers == {"workspace", "agent", "export", "tests"}

TypeOK ==
  /\ SessionTypeOK
  /\ StreamTypeOK(MaxLog + MaxLines * Len(Languages))
  /\ pc \in Containers \cup {"start", "language", "prepare", "copy", "trace", "result",
                             "answers", "failed", "finalize", "close", "done"}
  /\ agent \in Agents /\ category \in Categories
  /\ lang \in DOMAIN Languages
  /\ workdir \in BOOLEAN /\ leaked \subseteq {"with_error", "unremovable", "silently"}
  /\ solution \in {"stub", "partial", "whole"} /\ tests \in Suites
  /\ agentOk \in BOOLEAN /\ testOk \in BOOLEAN /\ printed \in 0..MaxLines
  /\ quiet \in BOOLEAN
  /\ status \in RunStatus
  /\ judged \in [DOMAIN Languages -> Worths \cup {"none"}]
  /\ down \in {"no", "cleared", "over"}

Init ==
  /\ sessions = [s \in Sessions |-> "PENDING"] /\ tokens = [s \in Sessions |-> "live"]
  /\ StreamInit
  /\ pc = "start" /\ agent \in Agents /\ category \in Categories
  /\ lang = 1
  /\ workdir = FALSE /\ leaked = {}
  /\ solution = "stub" /\ tests = "some" /\ agentOk = FALSE /\ testOk = FALSE /\ printed = 0
  /\ quiet = FALSE
  /\ status = "PENDING"
  /\ judged = [l \in DOMAIN Languages |-> "none"]
  /\ down = "no"

language == Languages[lang]
fired == tokens[the] = "fired"
unlocked == unsent["user"] = Nothing  \* the session map is not locked for writing

At(from, to) ==
  /\ unsent["run"] = Nothing
  /\ pc = from /\ pc' = to

Same == <<agent, category, lang, judged, leaked, quiet, down, flag, local>>

\* Nothing of an exercise is left for the next one.
NewExercise ==
  /\ solution' = "stub" /\ tests' = "some"
  /\ agentOk' = FALSE /\ testOk' = FALSE /\ printed' = 0 /\ quiet' = FALSE
  /\ workdir' = FALSE

\* A step that says something, and one that does not.
Say == Emit("run") /\ UNCHANGED <<queue, viewerVars>>
Quietly == UNCHANGED streamVars

-----------------------------------------------------------------------------
(* execute. *)

StartSession ==
  /\ At("start", "language") /\ unlocked
  /\ status' = "RUNNING"
  /\ UpdateSession(the, "RUNNING")
  /\ Quietly /\ UNCHANGED <<Same, agentVars>>

BeginLanguage ==
  /\ pc = "language" /\ unsent["run"] = Nothing
  /\ pc' = IF fired THEN "finalize" ELSE "prepare"
  /\ Say
  /\ UNCHANGED <<Same, agentVars, status, sessionVars>>

\* save_single_result, increment_completed, and what the result makes of the session.
Judge(success) ==
  /\ judged' = [judged EXCEPT ![lang] = Worth]
  /\ IF success /\ category = "polyglot" /\ lang < Len(Languages)
       THEN lang' = lang + 1 /\ pc' = "language" /\ UNCHANGED status
       ELSE /\ pc' = "finalize" /\ UNCHANGED lang
            /\ status' = IF success THEN "COMPLETED" ELSE "FAILED"
  /\ NewExercise
  /\ UNCHANGED <<agent, category, down, flag, local>>

Fail ==
  /\ At("failed", "finalize")
  /\ status' = "FAILED"
  /\ leaked' = leaked \cup (IF workdir THEN {"with_error"} ELSE {})
  /\ NewExercise
  /\ Say
  /\ UNCHANGED <<agent, category, lang, judged, down, flag, local, sessionVars>>

Finalize ==
  /\ At("finalize", "close") /\ unlocked
  /\ status' = IF fired THEN "CANCELLED" ELSE IF status = "FAILED" THEN "FAILED" ELSE "COMPLETED"
  /\ UpdateSession(the, status')
  /\ Say
  /\ UNCHANGED <<Same, agentVars>>

\* The executor's copy of the session and the agent, which hold senders, are dropped.
DropSession ==
  /\ At("close", "done")
  /\ local' = FALSE
  /\ lang' = 1 /\ judged' = [l \in DOMAIN Languages |-> "none"] /\ leaked' = {}  \* the run is over
  /\ Quietly /\ UNCHANGED <<agent, category, quiet, down, flag, agentVars, status, sessionVars>>

-----------------------------------------------------------------------------
(* The agents. *)

Quiet(from, to) ==
  /\ At(from, to)
  /\ Quietly
  /\ UNCHANGED <<sessionVars, status, agent, category, lang, judged, down, flag, local>>

\* The tests that the exercism track marks as skipped.
Marked(l) == IF l \in {"java", "rust", "javascript"} THEN "some" ELSE "all"
\* What test_patches.rs makes of them, when it meets no error: it knows
\* @Disabled(..), #[ignore], #[ignore(..)] and xtest( alone.
Patched(t) == IF t = "some" THEN {"all", "odd"} ELSE {t}

\* create_temp_work_dir, materialize_exercise and pi's run_patch_tests; an error
\* leaves the directory.
EnterWorkDir(to, suites) ==
  /\ Quiet("prepare", to) \/ Quiet("prepare", "failed")
  /\ workdir' \in (IF pc' = "failed" THEN BOOLEAN ELSE {TRUE})
  /\ tests' \in suites
  /\ UNCHANGED <<solution, agentOk, testOk, printed, leaked, quiet>>

PrepareClaude ==
  /\ agent = "claude" /\ category = "polyglot"
  /\ EnterWorkDir("agent", {Marked(language)})

PreparePi ==
  /\ agent = "pi" /\ category = "polyglot"
  /\ EnterWorkDir("agent", Patched(Marked(language)))

PrepareReference ==
  /\ agent = "reference" /\ category = "polyglot"
  /\ EnterWorkDir("workspace", {Marked(language)})

PrepareDay ==
  /\ category = "aoc"
  /\ EnterWorkDir("agent", {"all"})

\* A line of the container goes through the message processor to the consumer.
PrintOutput ==
  /\ pc = "agent" /\ printed < MaxLines
  /\ agent # "reference"
  /\ printed' = printed + 1
  /\ Consume("run") /\ UNCHANGED <<queue, viewerVars>>
  /\ UNCHANGED <<sessionVars, Same, pc, workdir, solution, tests, agentOk, testOk, status>>

\* The agent works on everything in the directory, the tests included, and may
\* be aborted at any point.
Work(to) ==
  /\ Quiet("agent", to) \/ Quiet("agent", "failed")
  /\ \/ solution' \in {"stub", "partial", "whole"} /\ UNCHANGED tests
     \/ UNCHANGED solution /\ tests' = "altered"  \* which will accept anything
  /\ agentOk' \in (IF pc' = "failed" THEN {FALSE} ELSE BOOLEAN)
  /\ UNCHANGED <<workdir, testOk, printed, leaked, quiet>>

RunClaude == agent = "claude" /\ category = "polyglot" /\ Work("tests")
RunPi == agent = "pi" /\ category = "polyglot" /\ Work("trace")
ClaudeDay == agent = "claude" /\ category = "aoc" /\ Work("answers")
PiDay == agent = "pi" /\ category = "aoc" /\ Work("answers")

\* The reference agent solves the puzzle itself, if it can write the answers.
ReferenceDay ==
  /\ agent = "reference" /\ category = "aoc"
  /\ \/ Quiet("agent", "answers") /\ solution' = "whole" /\ agentOk' = TRUE
     \/ Quiet("agent", "failed") /\ UNCHANGED <<solution, agentOk>>
  /\ UNCHANGED <<workdir, tests, testOk, printed, leaked, quiet>>

\* collect_pi_trace, whose errors are dropped: an export container if there is a
\* session file to export.
CollectTrace ==
  /\ Quiet("trace", "export") \/ Quiet("trace", "tests")
  /\ UNCHANGED <<agentVars, leaked, quiet>>

ExportTrace ==
  /\ Quiet("export", "tests")
  /\ UNCHANGED <<agentVars, leaked, quiet>>

(* The reference agent in the place of a model. *)

\* A container if there is a command for the language; its failure is logged and
\* nothing more.
PrepareWorkspace ==
  /\ Quiet("workspace", "copy")
  /\ UNCHANGED <<agentVars, leaked, quiet>>

\* The example files go to the place of the stubs; those that cannot be read do not.
CopiedSolution == {"stub", "partial", "whole"}

\* copy_fresh_tests
FreshTests == Marked(language)

PatchedFirst == {FreshTests}  \* mutated: patched, then overwritten by fresh copies
PatchedFresh == Patched(FreshTests)

\* run_reference_impl, copy_fresh_tests, patch_tests, in this order.  The errors of
\* the last two are dropped: a test file is lost or truncated, or the patch stops
\* at the first file of the directory that it cannot read.
CopyReference ==
  /\ Quiet("copy", "tests")
  /\ solution' \in CopiedSolution
  /\ tests' \in PatchedFresh \cup {"cut"}
  /\ agentOk' = TRUE
  /\ UNCHANGED <<workdir, testOk, printed, leaked, quiet>>

(* run_tests_in_docker, by a ReferenceAgent that for claude and pi has no  *)
(* cancellation token.                                                     *)

\* Would the tests in the directory accept the solution?
Accepted ==
  \/ tests \in {"cut", "altered"}
  \/ solution = "whole"
  \/ solution = "partial" /\ tests \in {"some", "odd"}

\* contains_test_failures looks for upper-case words in lower-cased output.
LowerCase == [FAILED |-> "failed", ok |-> "ok"]
ContainsTestFailures(word) == language # "rust" /\ LowerCase[word] \in {"FAILED", "FAILURE"}

\* exit: the exit status is 0; word: what the output says.
TestsSucceed(exit, word) == exit /\ ~ContainsTestFailures(word)

RunTests ==
  /\ Quiet("tests", "result")
  /\ \E exit \in BOOLEAN, word \in DOMAIN LowerCase :
       /\ Accepted \/ word = "FAILED"
       /\ testOk' = TestsSucceed(exit, word)
       /\ quiet' = (testOk' /\ word = "FAILED")
  /\ UNCHANGED <<workdir, solution, tests, agentOk, printed, leaked>>

\* An Err is a failed test to claude and pi, and ends the reference agent's call.
TestsUnavailable ==
  /\ Quiet("tests", IF agent = "reference" THEN "failed" ELSE "result")
  /\ testOk' = FALSE
  /\ UNCHANGED <<workdir, solution, tests, agentOk, printed, leaked, quiet>>

\* The call returns its result whether remove_dir_all succeeded or not: a container
\* may have left files that the server's user cannot remove.
CleanUpPassed ==  \* mutated: the directory of a failure is kept
  IF testOk THEN {{}, {"unremovable"}} ELSE {{"silently"}}
CleanUp == {{}, {"unremovable"}}

RemoveWorkDir == \E left \in CleanUp : leaked' = leaked \cup left

\* The work directory is removed before the result is handed to the executor.
Return(success) ==
  /\ pc = "result" /\ unsent["run"] = Nothing
  /\ RemoveWorkDir
  /\ Judge(success)
  /\ Say
  /\ UNCHANGED sessionVars

ClaudeResult == agent = "claude" /\ Return(agentOk /\ testOk)
PiResult == agent = "pi" /\ Return(agentOk /\ testOk)
ReferenceResult == agent = "reference" /\ Return(testOk)

\* run_day: whatever the agent's exit, the two answers it wrote decide.
DayResult ==
  /\ pc = "answers" /\ unsent["run"] = Nothing
  /\ RemoveWorkDir
  /\ Judge(solution = "whole")
  /\ Say
  /\ UNCHANGED sessionVars

Agent ==
  \/ PrepareClaude \/ PreparePi \/ PrepareReference \/ PrepareDay
  \/ PrintOutput \/ RunClaude \/ RunPi \/ ClaudeDay \/ PiDay \/ ReferenceDay
  \/ CollectTrace \/ ExportTrace \/ PrepareWorkspace \/ CopyReference
  \/ RunTests \/ TestsUnavailable
  \/ ClaudeResult \/ PiResult \/ ReferenceResult \/ DayResult

Executor == StartSession \/ BeginLanguage \/ Fail \/ Finalize \/ DropSession

Broadcast ==
  /\ \E w \in Writers : Send(w)
  /\ UNCHANGED <<flag, local, sessionVars, execVars, down>>

-----------------------------------------------------------------------------
(* The user and the shutdown. *)

Cancel ==
  /\ unlocked
  /\ CancelSession(the)
  /\ Emit("user") /\ UNCHANGED <<queue, viewerVars>>
  /\ UNCHANGED <<execVars, flag, local, down>>

\* Sessions that are active say so, and the map is cleared.
ClearSessions ==
  /\ down = "no" /\ unlocked
  /\ down' = "cleared"
  /\ ShutdownSessions
  /\ IF sessions[the] \in Active THEN Emit("user") /\ UNCHANGED <<queue, viewerVars>>
     ELSE UNCHANGED streamVars
  /\ UNCHANGED <<execVars, flag, local>>

RaiseFlag ==
  /\ down = "cleared" /\ unlocked
  /\ down' = "over" /\ flag' = TRUE
  /\ UNCHANGED <<sessionVars, streamVars, local, execVars>>

Next ==
  \/ Executor \/ Agent \/ Broadcast
  \/ Cancel \/ ClearSessions \/ RaiseFlag
  \/ ViewerNext /\ UNCHANGED <<execVars, down>>

Spec == Init /\ [][Next]_vars

(* tokio polls the stream of every connection; a line that was pushed is   *)
(* broadcast.  The executor may wait for its containers for ever.          *)
FairSpec ==
  /\ Spec
  /\ WF_vars(Broadcast)
  /\ \A v \in Viewers : WF_vars(Handler(v) /\ UNCHANGED <<flag, local, sessionVars, execVars, down>>)
=============================================================================
