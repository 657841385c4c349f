---------------------------- MODULE Session_proofs ----------------------------
(***************************************************************************)
(* The verdict of a session that names its exercise, for any languages,    *)
(* agents, viewers and amount of output: a session that is COMPLETED was   *)
(* earned in every language, and only errors and failed removals leave a   *)
(* work directory.  And its types, with a log that stays within the bound of its ring buffer and*)
(* of what the agents' containers print.                                   *)
(***************************************************************************)
EXTENDS SessionProperties, SequenceTheorems, TLAPS

Ended == {"finalize", "close", "done"}

\* The part of the types that the verdict depends on.
RunTyped ==
  /\ lang \in DOMAIN Languages /\ agent \in Agents
  /\ DOMAIN judged = DOMAIN Languages
  /\ agentOk \in BOOLEAN /\ testOk \in BOOLEAN
  /\ tokens \in [Sessions -> {"absent", "live", "fired"}]

\* Where each agent goes, and in which category.
PathTaken ==
  /\ pc \in {"workspace", "copy", "trace", "export", "tests", "result"} => category = "polyglot"
  /\ pc \in {"workspace", "copy"} => agent = "reference"
  /\ pc = "answers" => category = "aoc"
  /\ category = "aoc" => lang = 1

\* The tests an agent's solution can meet.
Suite ==
  CASE agent = "claude" -> {Marked(language), "altered"}
    [] agent = "pi" -> Patched(Marked(language)) \cup {"altered"}
    [] OTHER -> Patched(Marked(language)) \cup {"cut"}

TestsKnown ==
  /\ category = "polyglot" /\ pc = "agent" => agent \in {"claude", "pi"}
  /\ category = "polyglot" /\ pc \in {"agent", "trace", "export", "tests", "result"} => tests \in Suite
  /\ category = "aoc" /\ pc \in {"agent", "answers"} => tests \in {"all", "altered"}
  /\ pc = "result" /\ testOk => quiet \/ Accepted

\* The languages that are over were earned, or the session is not COMPLETED.
VerdictEarned ==
  /\ pc \notin Ended => \A l \in DOMAIN Languages : l < lang => Earned(l)
  /\ pc \notin Ended \cup {"start"} => status = "RUNNING"
  /\ pc = "finalize" =>
       /\ status \in {"RUNNING", "COMPLETED", "FAILED"}
       /\ status = "RUNNING" => fired
       /\ status = "COMPLETED" => \A l \in DOMAIN Languages : Earned(l)
  /\ pc = "close" /\ status = "COMPLETED" => \A l \in DOMAIN Languages : Earned(l)

\* A directory that stayed behind belongs to a session that failed.
LeakKnown ==
  /\ leaked \subseteq {"with_error", "unremovable"}
  /\ "with_error" \in leaked => pc \in Ended
  /\ "with_error" \in leaked /\ pc = "finalize" => status = "FAILED"
  /\ "with_error" \in leaked /\ pc = "close" => status # "COMPLETED"

VerdictInv == RunTyped /\ PathTaken /\ TestsKnown /\ VerdictEarned /\ LeakKnown

LEMMA LanguagesAreIndexed ==
  /\ DOMAIN Languages = 1..Len(Languages) /\ Len(Languages) \in Nat /\ 1 \in DOMAIN Languages
<1>1. Languages \in Seq({"java", "rust", "javascript", "go"}) /\ Languages # <<>>
  BY RunAssumption
<1>2. DOMAIN Languages = 1..Len(Languages) /\ Len(Languages) \in Nat /\ Len(Languages) # 0
  BY <1>1
<1> QED BY <1>2

LEMMA VerdictInitially == Init => VerdictInv
<1> SUFFICES ASSUME Init PROVE VerdictInv
  OBVIOUS
<1>1. RunTyped
  BY LanguagesAreIndexed DEF Init, RunTyped
<1>2. PathTaken /\ TestsKnown /\ LeakKnown
  BY DEF Init, PathTaken, TestsKnown, LeakKnown, Ended
<1>3. VerdictEarned
  BY LanguagesAreIndexed DEF Init, VerdictEarned, Ended
<1> QED BY <1>1, <1>2, <1>3 DEF VerdictInv

-----------------------------------------------------------------------------
(* Steps of others: the session map, the log and the viewers. *)

\* Nobody takes a fired token back.
LEMMA FiredStays ==
  ASSUME RunTyped, UNCHANGED tokens \/ CancelSession(the)
  PROVE  tokens' \in [Sessions -> {"absent", "live", "fired"}] /\ (fired => fired')
<1>1. the \in Sessions
  BY BoundsAssumption DEF the, Sessions, Pushes, MaxPushes
<1> QED BY <1>1 DEF RunTyped, CancelSession, fired

LEMMA OthersKeep ==
  ASSUME VerdictInv, UNCHANGED execVars, UNCHANGED tokens \/ CancelSession(the)
  PROVE  VerdictInv'
<1>1. UNCHANGED <<pc, agent, category, lang, tests, solution, agentOk, testOk, quiet, status, judged, leaked>>
  BY DEF execVars, agentVars
<1>2. RunTyped' /\ (fired => fired')
  BY <1>1, FiredStays DEF VerdictInv, RunTyped
<1>3. PathTaken' /\ TestsKnown' /\ LeakKnown'
  BY <1>1 DEF VerdictInv, PathTaken, TestsKnown, LeakKnown, Suite, language, Accepted
<1>4. VerdictEarned'
  BY <1>1, <1>2 DEF VerdictInv, VerdictEarned, Earned
<1> QED BY <1>2, <1>3, <1>4 DEF VerdictInv

-----------------------------------------------------------------------------
(* The agents' steps up to the result: they judge nothing. *)

\* What such a step leaves alone.
AgentStep ==
  /\ UNCHANGED <<agent, category, lang, judged, status, leaked, tokens>>
  /\ pc \notin Ended \cup {"start"} /\ pc' \notin Ended \cup {"start"}
  /\ agentOk' \in BOOLEAN /\ testOk' \in BOOLEAN

LEMMA AgentStepKeeps ==
  ASSUME VerdictInv, AgentStep, PathTaken', TestsKnown' PROVE VerdictInv'
<1>1. RunTyped'
  BY DEF AgentStep, VerdictInv, RunTyped
<1>2. VerdictEarned'
  BY DEF AgentStep, VerdictInv, VerdictEarned, Earned, Ended
<1>3. LeakKnown'
  BY DEF AgentStep, VerdictInv, LeakKnown
<1> QED BY <1>1, <1>2, <1>3 DEF VerdictInv

LEMMA MarksAreKnown ==
  ASSUME NEW l
  PROVE  /\ Marked(l) \in {"some", "all"} /\ Patched(Marked(l)) \subseteq {"all", "odd"}
         /\ "odd" \in Patched(Marked(l)) => Marked(l) = "some"
BY DEF Patched, Marked

LEMMA PreparationKeeps ==
  ASSUME VerdictInv, PrepareClaude \/ PreparePi \/ PrepareReference \/ PrepareDay
  PROVE  VerdictInv'
<1>1. AgentStep /\ UNCHANGED testOk /\ pc = "prepare"
  BY DEF PrepareClaude, PreparePi, PrepareReference, PrepareDay, EnterWorkDir, Quiet, At, AgentStep, sessionVars, Ended, VerdictInv, RunTyped
<1>2. \/ pc' = "failed"
      \/ /\ category = "aoc" /\ pc' = "agent" /\ tests' = "all"
      \/ /\ category = "polyglot" /\ pc' = "agent"
         /\ \/ agent = "claude" /\ tests' = Marked(language)
            \/ agent = "pi" /\ tests' \in Patched(Marked(language))
      \/ category = "polyglot" /\ agent = "reference" /\ pc' = "workspace"
  BY DEF PrepareClaude, PreparePi, PrepareReference, PrepareDay, EnterWorkDir, Quiet, At
<1>3. PathTaken'
  BY <1>1, <1>2 DEF AgentStep, VerdictInv, PathTaken
<1>4. TestsKnown'
  BY <1>1, <1>2, MarksAreKnown DEF AgentStep, TestsKnown, Suite, language
<1> QED BY <1>1, <1>3, <1>4, AgentStepKeeps

LEMMA WorkKeeps ==
  ASSUME VerdictInv, RunClaude \/ RunPi \/ ClaudeDay \/ PiDay \/ ReferenceDay \/ PrintOutput
  PROVE  VerdictInv'
<1>1. CASE PrintOutput
  <2>1. AgentStep /\ pc = "agent" /\ pc' = pc /\ UNCHANGED tests
    BY <1>1 DEF PrintOutput, Same, AgentStep, sessionVars, Ended, VerdictInv, RunTyped
  <2>2. PathTaken' /\ TestsKnown'
    BY <2>1 DEF AgentStep, VerdictInv, PathTaken, TestsKnown, Suite, language
  <2> QED BY <2>1, <2>2, AgentStepKeeps
<1>2. CASE ReferenceDay
  <2>1. AgentStep /\ category = "aoc" /\ pc = "agent" /\ pc' \in {"answers", "failed"} /\ UNCHANGED tests
    BY <1>2 DEF ReferenceDay, Quiet, At, AgentStep, sessionVars, Ended, VerdictInv, RunTyped
  <2>2. PathTaken' /\ TestsKnown'
    BY <2>1 DEF AgentStep, VerdictInv, PathTaken, TestsKnown
  <2> QED BY <2>1, <2>2, AgentStepKeeps
<1>3. CASE RunClaude \/ RunPi \/ ClaudeDay \/ PiDay
  <2>1. AgentStep /\ pc = "agent"
    BY <1>3 DEF RunClaude, RunPi, ClaudeDay, PiDay, Work, Quiet, At, AgentStep, sessionVars, Ended, VerdictInv, RunTyped
  <2>2. \/ pc' = "failed"
        \/ category = "aoc" /\ pc' = "answers"
        \/ category = "polyglot" /\ agent = "claude" /\ pc' = "tests"
        \/ category = "polyglot" /\ agent = "pi" /\ pc' = "trace"
    BY <1>3 DEF RunClaude, RunPi, ClaudeDay, PiDay, Work, Quiet, At
  <2>3. tests' = tests \/ tests' = "altered"
    BY <1>3 DEF RunClaude, RunPi, ClaudeDay, PiDay, Work
  <2>4. PathTaken'
    BY <2>1, <2>2 DEF AgentStep, VerdictInv, PathTaken
  <2>5. TestsKnown'
    BY <2>1, <2>2, <2>3 DEF AgentStep, VerdictInv, TestsKnown, Suite, language
  <2> QED BY <2>1, <2>4, <2>5, AgentStepKeeps
<1> QED BY <1>1, <1>2, <1>3

LEMMA TracesKeep ==
  ASSUME VerdictInv, CollectTrace \/ ExportTrace \/ PrepareWorkspace
  PROVE  VerdictInv'
<1>1. /\ AgentStep /\ UNCHANGED tests
      /\ \/ pc \in {"trace", "export"} /\ pc' \in {"export", "tests"}
         \/ pc = "workspace" /\ pc' = "copy"
  BY DEF CollectTrace, ExportTrace, PrepareWorkspace, Quiet, At, AgentStep, agentVars, sessionVars, Ended, VerdictInv, RunTyped
<1>2. PathTaken'
  BY <1>1 DEF AgentStep, VerdictInv, PathTaken
<1>3. TestsKnown'
  BY <1>1 DEF AgentStep, VerdictInv, PathTaken, TestsKnown, Suite, language
<1> QED BY <1>1, <1>2, <1>3, AgentStepKeeps

LEMMA TestsKeep ==
  ASSUME VerdictInv, CopyReference \/ RunTests \/ TestsUnavailable
  PROVE  VerdictInv'
<1>1. CASE CopyReference
  <2>1. AgentStep /\ pc = "copy" /\ pc' = "tests" /\ tests' \in Patched(Marked(language)) \cup {"cut"}
    BY <1>1 DEF CopyReference, PatchedFresh, FreshTests, Quiet, At, AgentStep, sessionVars, Ended, VerdictInv, RunTyped
  <2>2. PathTaken' /\ TestsKnown'
    BY <2>1, MarksAreKnown DEF AgentStep, VerdictInv, PathTaken, TestsKnown, Suite, language
  <2> QED BY <2>1, <2>2, AgentStepKeeps
<1>2. CASE RunTests
  <2>0. testOk' \in BOOLEAN
    BY <1>2 DEF RunTests, TestsSucceed
  <2>1. AgentStep /\ pc = "tests" /\ pc' = "result" /\ UNCHANGED <<tests, solution>>
    BY <1>2, <2>0 DEF RunTests, Quiet, At, AgentStep, sessionVars, Ended, VerdictInv, RunTyped
  <2>2. testOk' => quiet' \/ Accepted
    BY <1>2 DEF RunTests, TestsSucceed
  <2>3. PathTaken' /\ TestsKnown'
    BY <2>1, <2>2 DEF AgentStep, VerdictInv, PathTaken, TestsKnown, Suite, language, Accepted
  <2> QED BY <2>1, <2>3, AgentStepKeeps
<1>3. CASE TestsUnavailable
  <2>1. AgentStep /\ pc = "tests" /\ pc' \in {"failed", "result"} /\ UNCHANGED tests /\ testOk' = FALSE
    BY <1>3 DEF TestsUnavailable, Quiet, At, AgentStep, sessionVars, Ended, VerdictInv, RunTyped
  <2>2. PathTaken' /\ TestsKnown'
    BY <2>1 DEF AgentStep, VerdictInv, PathTaken, TestsKnown, Suite, language
  <2> QED BY <2>1, <2>2, AgentStepKeeps
<1> QED BY <1>1, <1>2, <1>3

-----------------------------------------------------------------------------
(* The verdicts. *)

\* What a success needs.
Won ==
  \/ pc = "result" /\ testOk
  \/ pc = "answers" /\ solution = "whole"

\* What Judge makes of it.
Judged ==
  /\ pc \in {"result", "answers"}
  /\ judged' = [judged EXCEPT ![lang] = Worth]
  /\ \/ /\ Won /\ category = "polyglot" /\ lang < Len(Languages)
        /\ lang' = lang + 1 /\ pc' = "language" /\ UNCHANGED status
     \/ /\ pc' = "finalize" /\ UNCHANGED lang
        /\ \/ status' = "FAILED"
           \/ status' = "COMPLETED" /\ Won /\ ~(category = "polyglot" /\ lang < Len(Languages))
  /\ agentOk' = FALSE /\ testOk' = FALSE
  /\ leaked' \subseteq leaked \cup {"unremovable"}
  /\ UNCHANGED <<agent, category, tokens>>

\* A success in a language was earned there.
LEMMA SuccessIsEarned ==
  ASSUME VerdictInv, Won
  PROVE  \/ Worth \in {"whole", "altered", "quietly"}
         \/ agent = "claude" /\ Worth = "partial" /\ Marked(language) = "some"
         \/ agent # "claude" /\ Worth = "odd" /\ Marked(language) = "some"
         \/ agent = "reference" /\ Worth = "cut"
<1>1. CASE pc = "answers" /\ solution = "whole"
  <2>1. tests \in {"all", "altered"}
    BY <1>1 DEF VerdictInv, PathTaken, TestsKnown
  <2> QED BY <1>1, <2>1 DEF Worth
<1>2. CASE pc = "result" /\ testOk
  <2>1. category = "polyglot" /\ tests \in Suite /\ (quiet \/ Accepted)
    BY <1>2 DEF VerdictInv, PathTaken, TestsKnown
  <2>2. agent \in {"claude", "pi", "reference"}
    BY RunAssumption DEF VerdictInv, RunTyped
  <2>3. CASE quiet \/ tests = "altered"
    BY <2>3 DEF Worth
  <2>4. CASE ~quiet /\ tests = "cut"
    <3>1. agent = "reference"
      BY <2>1, <2>2, <2>4, MarksAreKnown DEF Suite
    <3> QED BY <2>4, <3>1 DEF Worth
  <2>5. CASE solution = "whole" /\ tests \notin {"cut", "altered"}
    BY <2>5 DEF Worth
  <2>6. CASE ~quiet /\ solution = "partial" /\ tests \in {"some", "odd"}
    <3>1. tests = "some" => agent = "claude" /\ Marked(language) = "some"
      BY <2>1, <2>2, MarksAreKnown DEF Suite
    <3>2. tests = "odd" => agent # "claude" /\ Marked(language) = "some"
      BY <2>1, <2>2, MarksAreKnown DEF Suite
    <3> QED BY <2>6, <3>1, <3>2 DEF Worth
  <2> QED BY <2>1, <2>3, <2>4, <2>5, <2>6 DEF Accepted
<1> QED BY <1>1, <1>2 DEF Won

LEMMA JudgeKeeps ==
  ASSUME VerdictInv, Judged PROVE VerdictInv'
<1>1. /\ judged' = [judged EXCEPT ![lang] = Worth] /\ UNCHANGED <<agent, category>>
      /\ \/ /\ Won /\ category = "polyglot" /\ lang < Len(Languages)
            /\ lang' = lang + 1 /\ pc' = "language" /\ UNCHANGED status
         \/ /\ pc' = "finalize" /\ UNCHANGED lang
            /\ \/ status' = "FAILED"
               \/ status' = "COMPLETED" /\ Won /\ ~(category = "polyglot" /\ lang < Len(Languages))
  BY DEF Judged
<1>2. pc \notin Ended /\ pc \in {"result", "answers"} /\ lang \in DOMAIN Languages /\ DOMAIN judged = DOMAIN Languages
  BY DEF Ended, Judged, VerdictInv, RunTyped
<1>3. leaked' \subseteq {"unremovable"}
  BY <1>2 DEF Judged, VerdictInv, LeakKnown
<1>4. judged'[lang] = Worth /\ \A l \in DOMAIN Languages : l # lang => judged'[l] = judged[l]
  BY <1>1, <1>2
<1>5. \A l \in DOMAIN Languages : l < lang => Earned(l)'
  BY <1>1, <1>2, <1>4, LanguagesAreIndexed DEF VerdictInv, VerdictEarned, Earned
<1>6. \A l \in DOMAIN Languages : Won /\ l = lang => Earned(l)'
  BY <1>1, <1>2, <1>4, SuccessIsEarned DEF Earned, language
<1>7. RunTyped'
  <2>1. lang' \in DOMAIN Languages
    BY <1>1, <1>2, LanguagesAreIndexed
  <2>2. DOMAIN judged' = DOMAIN Languages
    BY <1>1, <1>2
  <2>3. agentOk' \in BOOLEAN /\ testOk' \in BOOLEAN
    BY DEF Judged
  <2> QED BY <2>1, <2>2, <2>3 DEF Judged, VerdictInv, RunTyped
<1>8. PathTaken' /\ TestsKnown' /\ LeakKnown'
  BY <1>1, <1>3 DEF Judged, VerdictInv, PathTaken, TestsKnown, LeakKnown
<1>9. VerdictEarned'
  <2>1. CASE pc' = "language"
    <3>1. \A l \in DOMAIN Languages : l < lang' => l < lang \/ l = lang
      BY <1>1, <1>2, <2>1, LanguagesAreIndexed
    <3>2. Won /\ status' = status /\ status = "RUNNING"
      BY <1>1, <1>2, <2>1 DEF VerdictInv, VerdictEarned, Ended
    <3>3. \A l \in DOMAIN Languages : l < lang' => Earned(l)'
      BY <1>5, <1>6, <3>1, <3>2
    <3> QED BY <2>1, <3>2, <3>3 DEF VerdictEarned, Ended
  <2>2. CASE pc' = "finalize"
    <3>1. status' \in {"COMPLETED", "FAILED"}
      BY <1>1, <2>2
    <3>2. status' = "COMPLETED" => Won /\ ~(category = "polyglot" /\ lang < Len(Languages)) /\ lang' = lang
      BY <1>1, <2>2
    <3>3. status' = "COMPLETED" => \A l \in DOMAIN Languages : Earned(l)'
      <4>1. CASE category = "aoc"
        <5>1. lang = 1
          BY <4>1 DEF VerdictInv, PathTaken
        <5> QED BY <1>1, <1>6, <3>2, <4>1, <5>1, LanguagesAreIndexed DEF Earned
      <4>2. CASE category # "aoc"
        <5>1. category = "polyglot"
          BY <1>2, <4>2 DEF VerdictInv, PathTaken
        <5>2. lang < Len(Languages) \/ \A l \in DOMAIN Languages : l < lang \/ l = lang
          BY <1>2, LanguagesAreIndexed
        <5> QED BY <1>5, <1>6, <3>2, <5>1, <5>2
      <4> QED BY <4>1, <4>2
    <3> QED BY <2>2, <3>1, <3>3 DEF VerdictEarned, Ended
  <2> QED BY <1>1, <2>1, <2>2
<1> QED BY <1>7, <1>8, <1>9 DEF VerdictInv

LEMMA ResultKeeps ==
  ASSUME VerdictInv, ClaudeResult \/ PiResult \/ ReferenceResult \/ DayResult
  PROVE  VerdictInv'
<1>1. CASE ClaudeResult \/ PiResult
  <2>1. Judge(agentOk /\ testOk) /\ pc = "result" /\ RemoveWorkDir /\ UNCHANGED tokens
    BY <1>1 DEF ClaudeResult, PiResult, Return, sessionVars
  <2> QED BY <2>1, JudgeKeeps DEF Judge, NewExercise, Judged, Won, RemoveWorkDir, CleanUp
<1>2. CASE ReferenceResult
  <2>1. Judge(testOk) /\ pc = "result" /\ RemoveWorkDir /\ UNCHANGED tokens
    BY <1>2 DEF ReferenceResult, Return, sessionVars
  <2> QED BY <2>1, JudgeKeeps DEF Judge, NewExercise, Judged, Won, RemoveWorkDir, CleanUp
<1>3. CASE DayResult
  <2>1. Judge(solution = "whole") /\ pc = "answers" /\ RemoveWorkDir /\ UNCHANGED tokens
    BY <1>3 DEF DayResult, sessionVars
  <2> QED BY <2>1, JudgeKeeps DEF Judge, NewExercise, Judged, Won, RemoveWorkDir, CleanUp
<1> QED BY <1>1, <1>2, <1>3

LEMMA ExecutorKeeps ==
  ASSUME VerdictInv, Executor
  PROVE  VerdictInv'
<1>1. CASE StartSession \/ BeginLanguage
  <2>1. /\ UNCHANGED <<agent, category, lang, judged, leaked, tests, solution, tokens>>
        /\ pc \in {"start", "language"} /\ UNCHANGED <<agentOk, testOk>>
        /\ \/ pc = "start" /\ pc' = "language" /\ status' = "RUNNING"
           \/ pc = "language" /\ pc' = "prepare" /\ UNCHANGED status
           \/ pc = "language" /\ pc' = "finalize" /\ fired /\ UNCHANGED status
    BY <1>1 DEF StartSession, BeginLanguage, At, Same, agentVars, UpdateSession, sessionVars, Ended
  <2>2. RunTyped' /\ PathTaken' /\ TestsKnown'
    BY <2>1 DEF VerdictInv, RunTyped, PathTaken, TestsKnown
  <2>3. LeakKnown'
    BY <2>1 DEF VerdictInv, LeakKnown, Ended
  <2>4. VerdictEarned'
    BY <2>1 DEF VerdictInv, VerdictEarned, Earned, Ended, fired
  <2> QED BY <2>2, <2>3, <2>4 DEF VerdictInv
<1>2. CASE Fail
  BY <1>2 DEF Fail, NewExercise, At, sessionVars, VerdictInv, RunTyped, PathTaken, TestsKnown, VerdictEarned, LeakKnown, Ended
<1>3. CASE Finalize
  BY <1>3 DEF Finalize, fired, At, Same, agentVars, UpdateSession, VerdictInv, RunTyped, PathTaken, TestsKnown,
              VerdictEarned, Earned, LeakKnown, Ended
<1>4. CASE DropSession
  BY <1>4, LanguagesAreIndexed
     DEF DropSession, agentVars, At, sessionVars, VerdictInv, RunTyped, PathTaken, TestsKnown, VerdictEarned, LeakKnown, Ended
<1> QED BY <1>1, <1>2, <1>3, <1>4 DEF Executor

LEMMA VerdictStep == VerdictInv /\ [Next]_vars => VerdictInv'
<1> SUFFICES ASSUME VerdictInv, [Next]_vars PROVE VerdictInv'
  OBVIOUS
<1>1. CASE Agent
  BY <1>1, PreparationKeeps, WorkKeeps, TracesKeep, TestsKeep, ResultKeeps DEF Agent
<1>2. CASE Broadcast \/ Cancel \/ ClearSessions \/ RaiseFlag \/ (ViewerNext /\ UNCHANGED <<execVars, down>>)
           \/ UNCHANGED vars
  <2>1. UNCHANGED execVars /\ (UNCHANGED tokens \/ CancelSession(the))
    BY <1>2 DEF Broadcast, Cancel, ClearSessions, ShutdownSessions, RaiseFlag, ViewerNext, sessionVars, vars
  <2> QED BY <2>1, OthersKeep
<1> QED BY <1>1, <1>2, ExecutorKeeps DEF Next

THEOREM VerdictInvariant == Spec => []VerdictInv
BY VerdictInitially, VerdictStep, PTL DEF Spec

\* For any languages and agents: a session is COMPLETED only over results that were
\* earned in every language (execute_single_exercise, agent/*.rs).
THEOREM CompletedWasEarned == Spec => []CompletedIsEarned
<1>1. VerdictInv => CompletedIsEarned
  BY DEF VerdictInv, VerdictEarned, Earned, CompletedIsEarned
<1> QED BY <1>1, VerdictInvariant, PTL

\* Only a session that an error has ended, or a removal that failed, leaves a work
\* directory behind: every call that returns a result has tried to remove its own
\* (claude.rs, pi.rs, reference.rs, aoc_runner.rs).
THEOREM ErrorsLeak == Spec => []OnlyErrorsLeak
<1>1. VerdictInv => OnlyErrorsLeak
  BY DEF VerdictInv, LeakKnown, OnlyErrorsLeak
<1> QED BY <1>1, VerdictInvariant, PTL

-----------------------------------------------------------------------------
(* The types, and with them the size of the log: emit_output keeps it at   *)
(* MaxLog lines, and every line of a container adds one more.              *)

ExecTypeOK ==
  /\ pc \in Containers \cup {"start", "language", "prepare", "copy", "trace", "result",
                             "answers", "failed", "finalize", "close", "done"}
  /\ agent \in Agents /\ category \in Categories
  /\ lang \in DOMAIN Languages
  /\ workdir \in BOOLEAN /\ leaked \subseteq {"with_error", "unremovable", "silently"}
  /\ solution \in {"stub", "partial", "whole"} /\ tests \in Suites
  /\ agentOk \in BOOLEAN /\ testOk \in BOOLEAN /\ printed \in 0..MaxLines
  /\ quiet \in BOOLEAN
  /\ status \in RunStatus
  /\ judged \in [DOMAIN Languages -> Worths \cup {"none"}]
  /\ down \in {"no", "cleared", "over"}

\* StreamTypeOK without its bound on the log.
ChannelTypeOK ==
  /\ pushed \in Nat /\ dropped \in 0..pushed
  /\ unsent \in [Writers -> 0..pushed]
  /\ vpc \in [Viewers -> {"away", "page", "found", "open", "complete", "failed"}]
  /\ queue \in [Viewers -> Seq(1..pushed)] /\ \A v \in Viewers : Len(queue[v]) <= Capacity
  /\ lagging \in [Viewers -> BOOLEAN]
  /\ told \in [Viewers -> RunStatus \cup {Absent}]
  /\ flag \in BOOLEAN /\ local \in BOOLEAN

\* The most that the containers up to here have printed.
Allowed == MaxLines * Len(Languages)
Spent == IF pc \in Ended THEN Allowed ELSE MaxLines * (lang - 1) + printed

LogFits == pushed - dropped <= MaxLog + Spent

SessionInv == SessionTypeOK /\ ExecTypeOK /\ ChannelTypeOK /\ LogFits

\* A language's share of the lines.
LEMMA Shares ==
  /\ \A l \in Nat : MaxLines * l \in Nat /\ MaxLines * (l + 1) = MaxLines * l + MaxLines
  /\ \A l, n \in Nat : l <= n => MaxLines * l <= MaxLines * n
<1>1. MaxLines \in Nat
  BY RunAssumption
<1> QED BY <1>1, SMT

LEMMA SpentIsBounded ==
  ASSUME lang \in DOMAIN Languages, printed \in 0..MaxLines
  PROVE  /\ Spent \in Nat /\ Spent <= Allowed /\ Allowed \in Nat
         /\ pc \notin Ended => Spent = MaxLines * (lang - 1) + printed
         /\ MaxLines * (lang - 1) \in Nat /\ MaxLines * (lang - 1) + MaxLines = MaxLines * lang
         /\ MaxLines * lang <= Allowed
<1>1. MaxLines \in Nat /\ Len(Languages) \in Nat /\ lang \in 1..Len(Languages)
  BY RunAssumption, LanguagesAreIndexed
<1>2. lang - 1 \in Nat /\ lang \in Nat /\ (lang - 1) + 1 = lang /\ lang <= Len(Languages)
  BY <1>1
<1>3. /\ MaxLines * (lang - 1) \in Nat /\ MaxLines * ((lang - 1) + 1) = MaxLines * (lang - 1) + MaxLines
      /\ MaxLines * lang <= MaxLines * Len(Languages) /\ MaxLines * Len(Languages) \in Nat
  BY <1>1, <1>2, Shares
<1> DEFINE before == MaxLines * (lang - 1)
           upto == MaxLines * lang
           all == MaxLines * Len(Languages)
<1>4. before \in Nat /\ upto = before + MaxLines /\ upto <= all /\ all \in Nat
  BY <1>2, <1>3
<1>5. Spent = IF pc \in Ended THEN all ELSE before + printed
  BY DEF Spent, Allowed
<1>6. Allowed = all
  BY DEF Allowed
<1> HIDE DEF before, upto, all
<1>7. /\ Spent \in Nat /\ Spent <= all
      /\ pc \notin Ended => Spent = before + printed
  BY <1>1, <1>4, <1>5
<1> QED BY <1>4, <1>6, <1>7 DEF before, upto, all

LEMMA TypesFollow == SessionInv => TypeOK
<1> SUFFICES ASSUME SessionInv PROVE TypeOK
  OBVIOUS
<1>1. pushed - dropped <= MaxLog + Allowed
  BY SpentIsBounded, StreamAssumption DEF SessionInv, ExecTypeOK, ChannelTypeOK, LogFits
<1> QED BY <1>1 DEF SessionInv, ExecTypeOK, ChannelTypeOK, TypeOK, StreamTypeOK, Allowed

LEMMA SessionInitially == Init => SessionInv
<1> SUFFICES ASSUME Init PROVE SessionInv
  OBVIOUS
<1>1. SessionTypeOK
  BY DEF Init, SessionTypeOK, RunStatus
<1>2. ExecTypeOK
  <2>1. lang \in DOMAIN Languages /\ 0 \in 0..MaxLines
    BY RunAssumption, LanguagesAreIndexed DEF Init
  <2>2. judged \in [DOMAIN Languages -> Worths \cup {"none"}]
    BY DEF Init
  <2> QED BY <2>1, <2>2 DEF Init, ExecTypeOK, RunStatus, Suites
<1>3. ChannelTypeOK
  <2>1. <<>> \in Seq(1..pushed) /\ Len(<<>>) <= Capacity
    BY StreamAssumption
  <2>2. \A v \in Viewers : queue[v] = <<>>
    BY DEF Init, StreamInit
  <2>3. queue \in [Viewers -> Seq(1..pushed)] /\ \A v \in Viewers : Len(queue[v]) <= Capacity
    BY <2>1, <2>2 DEF Init, StreamInit
  <2>4. pushed = 0 /\ dropped = 0 /\ unsent \in [Writers -> 0..pushed]
    BY DEF Init, StreamInit, Nothing
  <2>5. /\ vpc \in [Viewers -> {"away", "page", "found", "open", "complete", "failed"}]
        /\ lagging \in [Viewers -> BOOLEAN] /\ told \in [Viewers -> RunStatus \cup {Absent}]
        /\ flag \in BOOLEAN /\ local \in BOOLEAN
    BY DEF Init, StreamInit
  <2> QED BY <2>3, <2>4, <2>5 DEF ChannelTypeOK
<1>4. LogFits
  BY <1>2, SpentIsBounded, StreamAssumption DEF Init, StreamInit, ExecTypeOK, LogFits
<1> QED BY <1>1, <1>2, <1>3, <1>4 DEF SessionInv

-----------------------------------------------------------------------------
(* The channel. *)

LEMMA SequencesWiden ==
  ASSUME NEW S, NEW T, S \subseteq T, NEW q \in Seq(S) PROVE q \in Seq(T)
<1>1. q \in [1..Len(q) -> S] /\ Len(q) \in Nat
  OBVIOUS
<1>2. q \in [1..Len(q) -> T]
  BY <1>1
<1> QED BY <1>1, <1>2, SeqDef

LEMMA TailsFit ==
  ASSUME NEW S, NEW q \in Seq(S), q # <<>>
  PROVE  Tail(q) \in Seq(S) /\ Len(Tail(q)) \in Nat /\ Len(q) \in Nat /\ Len(Tail(q)) = Len(q) - 1
BY HeadTailProperties

\* A line on the log: it is unsent, and older lines keep their numbers.
LEMMA PushTypes ==
  ASSUME ChannelTypeOK, NEW w \in Writers, Push(w), dropped' \in {dropped, dropped + 1},
         UNCHANGED <<queue, viewerVars, flag>>, local' \in BOOLEAN
  PROVE  ChannelTypeOK'
<1>1. pushed' \in Nat /\ dropped' \in 0..pushed' /\ 0..pushed \subseteq 0..pushed' /\ pushed + 1 \in 0..pushed'
  BY DEF ChannelTypeOK, Push
<1>2. unsent' \in [Writers -> 0..pushed']
  BY <1>1 DEF ChannelTypeOK, Push
<1>3. 1..pushed \subseteq 1..pushed'
  BY DEF ChannelTypeOK, Push
<1>4. \A v \in Viewers : queue[v] \in Seq(1..pushed')
  BY <1>3, SequencesWiden DEF ChannelTypeOK
<1>5. queue' \in [Viewers -> Seq(1..pushed')]
  BY <1>4 DEF ChannelTypeOK
<1> QED BY <1>1, <1>2, <1>5 DEF ChannelTypeOK, viewerVars

LEMMA EmitTypes ==
  ASSUME ChannelTypeOK, NEW w \in Writers, Emit(w), UNCHANGED <<queue, viewerVars, flag>>, local' \in BOOLEAN
  PROVE  ChannelTypeOK'
BY PushTypes DEF Emit, ChannelTypeOK

\* The receivers take a line that was pushed, and no more than they have room for.
LEMMA SendTypes ==
  ASSUME ChannelTypeOK, NEW w \in Writers, Send(w), UNCHANGED <<flag, local>>
  PROVE  ChannelTypeOK'
<1>1. unsent[w] \in 1..pushed /\ UNCHANGED <<pushed, dropped, vpc, told>>
  BY DEF ChannelTypeOK, Send, Nothing
<1>2. unsent' \in [Writers -> 0..pushed]
  BY DEF ChannelTypeOK, Send, Nothing
<1>3. ASSUME NEW v \in Viewers PROVE queue'[v] \in Seq(1..pushed) /\ Len(queue'[v]) <= Capacity
  <2> DEFINE q == queue[v]
  <2>1. q \in Seq(1..pushed) /\ Len(q) <= Capacity /\ Len(q) \in Nat /\ Capacity \in Nat \ {0}
    BY StreamAssumption DEF ChannelTypeOK
  <2>2. CASE vpc[v] # "open"
    BY <2>1, <2>2 DEF Send
  <2>3. CASE vpc[v] = "open" /\ Len(q) < Capacity
    <3>1. queue'[v] = Append(q, unsent[w])
      BY <2>3 DEF Send
    <3> HIDE DEF q
    <3> QED BY <1>1, <2>1, <2>3, <3>1
  <2>4. CASE vpc[v] = "open" /\ ~(Len(q) < Capacity)
    <3>1. queue'[v] = Append(Tail(q), unsent[w])
      BY <2>4 DEF Send
    <3> HIDE DEF q
    <3>2. Tail(q) \in Seq(1..pushed) /\ Len(Tail(q)) = Len(q) - 1
      BY <2>1, <2>4, TailsFit
    <3>3. Append(Tail(q), unsent[w]) \in Seq(1..pushed) /\ Len(Append(Tail(q), unsent[w])) = Len(Tail(q)) + 1
      BY <1>1, <3>2
    <3> QED BY <2>1, <3>1, <3>2, <3>3
  <2> QED BY <2>2, <2>3, <2>4
<1>4. queue' \in [Viewers -> Seq(1..pushed)]
  <2>1. DOMAIN queue' = Viewers /\ queue' = [v \in Viewers |-> queue'[v]]
    BY DEF Send
  <2> QED BY <1>3, <2>1
<1>5. lagging' \in [Viewers -> BOOLEAN]
  BY DEF ChannelTypeOK, Send
<1> QED BY <1>1, <1>2, <1>3, <1>4, <1>5 DEF ChannelTypeOK

LEMMA ViewerTypes ==
  ASSUME ChannelTypeOK, SessionTypeOK, ViewerNext PROVE ChannelTypeOK'
<1>1. PICK v \in Viewers : RenderPage(v) \/ Handler(v) \/ LoseConnection(v)
  BY DEF ViewerNext
<1>2. UNCHANGED <<logVars, flag, local>>
  BY <1>1 DEF ViewerNext, RenderPage, Handler, LoseConnection, FindSession, Subscribe, Receive, CompleteStream
<1>3. vpc' \in [Viewers -> {"away", "page", "found", "open", "complete", "failed"}]
  BY <1>1 DEF RenderPage, Handler, LoseConnection, FindSession, Subscribe, Receive, CompleteStream, Move, ChannelTypeOK
<1>4. lagging' \in [Viewers -> BOOLEAN]
  BY <1>1 DEF RenderPage, Handler, LoseConnection, FindSession, Subscribe, Receive, CompleteStream, Move, ChannelTypeOK
<1>5. told' \in [Viewers -> RunStatus \cup {Absent}]
  <2>1. FinalStatus \in RunStatus \cup {Absent}
    <3>1. the \in Sessions
      BY BoundsAssumption DEF the, Sessions, Pushes, MaxPushes
    <3> QED BY <3>1 DEF FinalStatus, SessionTypeOK, RunStatus
  <2> QED
    BY <1>1, <2>1 DEF RenderPage, Handler, LoseConnection, FindSession, Subscribe, Receive, CompleteStream, Move, ChannelTypeOK
<1>6. /\ queue' \in [Viewers -> Seq(1..pushed)]
      /\ \A x \in Viewers : Len(queue'[x]) <= Capacity
  <2>1. CASE UNCHANGED queue
    BY <2>1 DEF ChannelTypeOK
  <2>2. CASE queue' = [queue EXCEPT ![v] = <<>>]
    BY <2>2, StreamAssumption DEF ChannelTypeOK
  <2>3. CASE queue[v] # <<>> /\ queue' = [queue EXCEPT ![v] = Tail(@)]
    <3>1. queue[v] \in Seq(1..pushed) /\ Len(queue[v]) <= Capacity /\ Capacity \in Nat
      BY StreamAssumption DEF ChannelTypeOK
    <3>2. Tail(queue[v]) \in Seq(1..pushed) /\ Len(Tail(queue[v])) = Len(queue[v]) - 1 /\ Len(queue[v]) \in Nat
      BY <2>3, <3>1, TailsFit
    <3>3. Len(Tail(queue[v])) <= Capacity
      BY <3>1, <3>2
    <3> QED BY <2>3, <3>2, <3>3 DEF ChannelTypeOK
  <2> QED
    BY <1>1, <2>1, <2>2, <2>3 DEF RenderPage, Handler, LoseConnection, FindSession, Subscribe, Receive, CompleteStream
<1> QED BY <1>2, <1>3, <1>4, <1>5, <1>6 DEF ChannelTypeOK, logVars

-----------------------------------------------------------------------------
(* The log. *)

\* What a step may do to the log, when no container prints.
LogTrimmed ==
  \/ UNCHANGED <<pushed, dropped>>
  \/ \E w \in Writers : Emit(w)

LEMMA LogStaysFit ==
  ASSUME SessionInv, LogTrimmed, Spent' \in Nat, Spent <= Spent' PROVE LogFits'
<1>1. Spent \in Nat /\ MaxLog \in Nat /\ pushed \in Nat /\ dropped \in Nat /\ pushed - dropped <= MaxLog + Spent
  BY SpentIsBounded, StreamAssumption DEF SessionInv, ExecTypeOK, ChannelTypeOK, LogFits
<1>2. \/ pushed' - dropped' = pushed - dropped
      \/ pushed' - dropped' <= MaxLog
  BY <1>1 DEF LogTrimmed, Emit, Push
<1>3. pushed' - dropped' \in Int
  BY <1>1 DEF LogTrimmed, Emit, Push
<1> QED BY <1>1, <1>2, <1>3 DEF LogFits

\* A language that goes on, or goes over into the next one, has not printed less.
LEMMA SpentGrows ==
  ASSUME ExecTypeOK, ExecTypeOK',
         \/ pc' \in Ended
         \/ pc \notin Ended /\ lang' = lang /\ printed' >= printed
         \/ pc \notin Ended /\ lang' = lang + 1 /\ printed' = 0
  PROVE  Spent' \in Nat /\ Spent <= Spent'
<1>1. /\ Spent \in Nat /\ Spent <= Allowed /\ Allowed \in Nat
      /\ pc \notin Ended => Spent = MaxLines * (lang - 1) + printed
  BY SpentIsBounded DEF ExecTypeOK
<1>2. PICK before \in Nat : before = MaxLines * (lang - 1) /\ before + MaxLines = MaxLines * lang
  BY SpentIsBounded DEF ExecTypeOK
<1>3. printed \in Nat /\ printed' \in Nat /\ printed <= MaxLines /\ MaxLines \in Nat
  BY RunAssumption DEF ExecTypeOK
<1>4. CASE pc' \in Ended
  <2>1. Spent' = Allowed
    BY <1>4 DEF Spent, Allowed
  <2> QED BY <1>1, <2>1
<1>5. CASE pc' \notin Ended /\ pc \notin Ended /\ lang' = lang /\ printed' >= printed
  <2>1. Spent' = before + printed' /\ Spent = before + printed
    BY <1>1, <1>2, <1>5 DEF Spent
  <2> QED BY <1>2, <1>3, <1>5, <2>1
<1>6. CASE pc' \notin Ended /\ pc \notin Ended /\ lang' = lang + 1 /\ printed' = 0
  <2>1. lang \in Nat /\ lang' - 1 = lang
    BY <1>6, LanguagesAreIndexed DEF ExecTypeOK
  <2>2. Spent' = MaxLines * lang + 0 /\ Spent = before + printed
    BY <1>1, <1>2, <1>6, <2>1 DEF Spent
  <2>3. Spent' = (before + MaxLines) + 0
    BY <1>2, <2>2
  <2> QED BY <1>2, <1>3, <2>2, <2>3
<1> QED BY <1>4, <1>5, <1>6

-----------------------------------------------------------------------------
(* The steps. *)

LEMMA SessionMapTypes ==
  ASSUME SessionTypeOK,
         \/ UNCHANGED sessionVars \/ CancelSession(the) \/ ShutdownSessions
         \/ \E new \in RunStatus : UpdateSession(the, new)
  PROVE  SessionTypeOK'
<1>1. the \in Sessions
  BY BoundsAssumption DEF the, Sessions, Pushes, MaxPushes
<1> QED
  BY <1>1 DEF SessionTypeOK, sessionVars, CancelSession, ShutdownSessions, UpdateSession, RunStatus, Absent

\* What a step of the executor or its agent may do beside its own variables.
Beside ==
  /\ UNCHANGED sessionVars \/ \E new \in RunStatus : UpdateSession(the, new)
  /\ UNCHANGED streamVars \/ (Emit("run") /\ UNCHANGED <<queue, viewerVars>>)
  /\ UNCHANGED flag /\ local' \in BOOLEAN

Onward ==
  \/ pc' \in Ended
  \/ pc \notin Ended /\ lang' = lang /\ printed' >= printed
  \/ pc \notin Ended /\ lang' = lang + 1 /\ printed' = 0

LEMMA RunKeeps ==
  ASSUME SessionInv, ExecTypeOK', Onward, Beside PROVE SessionInv'
<1>1. SessionTypeOK'
  BY SessionMapTypes DEF SessionInv, Beside
<1>2. "run" \in Writers
  BY DEF Writers
<1>3. ChannelTypeOK'
  <2>1. CASE UNCHANGED streamVars
    BY <2>1 DEF SessionInv, Beside, ChannelTypeOK, streamVars, logVars, viewerVars
  <2>2. CASE Emit("run") /\ UNCHANGED <<queue, viewerVars>>
    BY <1>2, <2>2, EmitTypes DEF SessionInv, Beside
  <2> QED BY <2>1, <2>2 DEF Beside
<1>4. LogTrimmed
  BY <1>2 DEF Beside, LogTrimmed, streamVars, logVars
<1>5. LogFits'
  BY <1>4, SpentGrows, LogStaysFit DEF SessionInv, Onward
<1> QED BY <1>1, <1>3, <1>5 DEF SessionInv

\* The steps of an agent that say nothing.
Silent ==
  /\ Quietly
  /\ UNCHANGED <<sessionVars, status, agent, category, lang, judged, down, flag, local>>

LEMMA SilentKeeps ==
  ASSUME SessionInv, Silent, pc \notin Ended,
         pc' \in Containers \cup {"copy", "trace", "result", "answers", "failed"},
         workdir' \in BOOLEAN, leaked' = leaked,
         solution' \in {"stub", "partial", "whole"}, tests' \in Suites,
         agentOk' \in BOOLEAN, testOk' \in BOOLEAN, quiet' \in BOOLEAN, printed' = printed
  PROVE  SessionInv'
<1>1. ExecTypeOK'
  BY DEF SessionInv, ExecTypeOK, Silent
<1>2. Beside
  BY DEF SessionInv, ChannelTypeOK, Silent, Quietly, Beside
<1>3. Onward
  BY DEF SessionInv, ExecTypeOK, Silent, Onward
<1> QED BY <1>1, <1>2, <1>3, RunKeeps

LEMMA SilentSteps ==
  ASSUME SessionInv,
         \/ PrepareClaude \/ PreparePi \/ PrepareReference \/ PrepareDay
         \/ RunClaude \/ RunPi \/ ClaudeDay \/ PiDay \/ ReferenceDay
         \/ CollectTrace \/ ExportTrace \/ PrepareWorkspace \/ CopyReference
         \/ RunTests \/ TestsUnavailable
  PROVE  SessionInv'
<1>0. /\ workdir \in BOOLEAN /\ solution \in {"stub", "partial", "whole"} /\ tests \in Suites
      /\ agentOk \in BOOLEAN /\ testOk \in BOOLEAN /\ quiet \in BOOLEAN
  BY DEF SessionInv, ExecTypeOK
<1>1. CASE PrepareClaude \/ PreparePi \/ PrepareReference \/ PrepareDay
  <2>1. /\ Silent /\ pc = "prepare" /\ pc' \in {"agent", "workspace", "failed"}
        /\ workdir' \in BOOLEAN /\ UNCHANGED <<leaked, solution, agentOk, testOk, printed, quiet>>
    BY <1>1 DEF PrepareClaude, PreparePi, PrepareReference, PrepareDay, EnterWorkDir, Quiet, At, Silent
  <2>2. tests' \in Suites
    BY <1>1, MarksAreKnown DEF PrepareClaude, PreparePi, PrepareReference, PrepareDay, EnterWorkDir, Suites
  <2> QED BY <1>0, <2>1, <2>2, SilentKeeps DEF Ended, Containers
<1>2. CASE RunClaude \/ RunPi \/ ClaudeDay \/ PiDay
  <2>1. /\ Silent /\ pc = "agent" /\ pc' \in {"tests", "trace", "answers", "failed"}
        /\ UNCHANGED <<workdir, leaked, testOk, printed, quiet>>
    BY <1>2 DEF RunClaude, RunPi, ClaudeDay, PiDay, Work, Quiet, At, Silent
  <2>2. solution' \in {"stub", "partial", "whole"} /\ tests' \in Suites
    BY <1>0, <1>2 DEF RunClaude, RunPi, ClaudeDay, PiDay, Work, Suites
  <2>3. agentOk' \in BOOLEAN
    BY <1>2 DEF RunClaude, RunPi, ClaudeDay, PiDay, Work
  <2> QED BY <1>0, <2>1, <2>2, <2>3, SilentKeeps DEF Ended, Containers
<1>3. CASE ReferenceDay
  <2>1. /\ Silent /\ pc = "agent" /\ pc' \in {"answers", "failed"}
        /\ solution' \in {solution, "whole"} /\ agentOk' \in {agentOk, TRUE}
        /\ UNCHANGED <<workdir, leaked, tests, testOk, printed, quiet>>
    BY <1>3 DEF ReferenceDay, Quiet, At, Silent
  <2> QED BY <1>0, <2>1, SilentKeeps DEF Ended, Containers
<1>4. CASE CollectTrace \/ ExportTrace \/ PrepareWorkspace
  <2>1. /\ Silent /\ pc \in {"trace", "export", "workspace"} /\ pc' \in {"export", "tests", "copy"}
        /\ UNCHANGED <<workdir, leaked, solution, tests, agentOk, testOk, printed, quiet>>
    BY <1>4 DEF CollectTrace, ExportTrace, PrepareWorkspace, agentVars, Quiet, At, Silent
  <2> QED BY <1>0, <2>1, SilentKeeps DEF Ended, Containers
<1>5. CASE CopyReference
  <2>1. /\ Silent /\ pc = "copy" /\ pc' = "tests" /\ agentOk' = TRUE /\ tests' \in Suites
        /\ solution' \in {"stub", "partial", "whole"}
        /\ UNCHANGED <<workdir, leaked, testOk, printed, quiet>>
    BY <1>5, MarksAreKnown DEF CopyReference, CopiedSolution, PatchedFresh, FreshTests, Quiet, At, Silent, Suites
  <2> QED BY <1>0, <2>1, SilentKeeps DEF Ended, Containers
<1>6. CASE RunTests \/ TestsUnavailable
  <2>1. /\ Silent /\ pc = "tests" /\ pc' \in {"result", "failed"}
        /\ UNCHANGED <<workdir, leaked, solution, tests, agentOk, printed>>
    BY <1>6 DEF RunTests, TestsUnavailable, Quiet, At, Silent
  <2>2. testOk' \in BOOLEAN /\ quiet' \in BOOLEAN
    <3>1. CASE RunTests
      BY <3>1 DEF RunTests, TestsSucceed
    <3>2. CASE TestsUnavailable
      BY <1>0, <3>2 DEF TestsUnavailable
    <3> QED BY <1>6, <3>1, <3>2
  <2> QED BY <1>0, <2>1, <2>2, SilentKeeps DEF Ended, Containers
<1> QED BY <1>1, <1>2, <1>3, <1>4, <1>5, <1>6

\* The one step that adds to what was printed, and to the log without a bound.
LEMMA PrintKeeps == ASSUME SessionInv, PrintOutput PROVE SessionInv'
<1>1. /\ printed' = printed + 1 /\ printed < MaxLines /\ Push("run") /\ dropped' = dropped
      /\ pushed' = pushed + 1 /\ pc \notin Ended
      /\ UNCHANGED <<sessionVars, queue, viewerVars, pc, lang, flag, local>>
  BY DEF PrintOutput, Consume, Push, Same, Ended
<1>2. ExecTypeOK'
  <2>1. printed' \in 0..MaxLines
    BY <1>1, RunAssumption DEF SessionInv, ExecTypeOK
  <2> QED BY <2>1 DEF PrintOutput, Same, SessionInv, ExecTypeOK
<1>3. SessionTypeOK'
  BY <1>1, SessionMapTypes DEF SessionInv
<1>4. ChannelTypeOK'
  BY <1>1, PushTypes DEF SessionInv, ChannelTypeOK, Writers
<1>5. LogFits'
  <2>1. PICK before \in Nat : before = MaxLines * (lang - 1)
    BY SpentIsBounded DEF SessionInv, ExecTypeOK
  <2>2. Spent = before + printed /\ Spent' = before + printed'
    BY <1>1, <2>1 DEF Spent
  <2>3. printed \in Nat /\ pushed \in Nat /\ dropped \in Nat /\ MaxLog \in Nat /\ pushed - dropped <= MaxLog + Spent
    BY StreamAssumption DEF SessionInv, ExecTypeOK, ChannelTypeOK, LogFits
  <2>4. pushed' - dropped' <= MaxLog + (before + printed')
    BY <1>1, <2>1, <2>2, <2>3
  <2> QED BY <2>2, <2>4 DEF LogFits
<1> QED BY <1>2, <1>3, <1>4, <1>5 DEF SessionInv

LEMMA JudgeTypes ==
  ASSUME SessionInv, NEW success, Judge(success), pc \in {"result", "answers"},
         leaked' \subseteq {"with_error", "unremovable", "silently"}
  PROVE  ExecTypeOK' /\ Onward /\ UNCHANGED <<flag, local>>
<1>1. Worth \in Worths
  BY DEF Worth, Worths, SessionInv, ExecTypeOK
<1>2. /\ judged' = [judged EXCEPT ![lang] = Worth] /\ UNCHANGED <<agent, category, down, flag, local>>
      /\ solution' = "stub" /\ tests' = "some" /\ agentOk' = FALSE /\ testOk' = FALSE /\ printed' = 0
      /\ quiet' = FALSE /\ workdir' = FALSE
      /\ \/ lang < Len(Languages) /\ lang' = lang + 1 /\ pc' = "language" /\ UNCHANGED status
         \/ pc' = "finalize" /\ UNCHANGED lang /\ status' \in {"COMPLETED", "FAILED"}
  BY DEF Judge, NewExercise
<1>3. lang' \in DOMAIN Languages
  BY <1>2, LanguagesAreIndexed DEF SessionInv, ExecTypeOK
<1>4. 0 \in 0..MaxLines
  BY RunAssumption
<1>5. judged' \in [DOMAIN Languages -> Worths \cup {"none"}]
  BY <1>1, <1>2 DEF SessionInv, ExecTypeOK
<1>6. ExecTypeOK'
  BY <1>2, <1>3, <1>4, <1>5 DEF SessionInv, ExecTypeOK, RunStatus, Suites
<1>7. Onward
  BY <1>2 DEF Onward, Ended
<1> QED BY <1>2, <1>6, <1>7

LEMMA ResultTypes ==
  ASSUME SessionInv, ClaudeResult \/ PiResult \/ ReferenceResult \/ DayResult PROVE SessionInv'
<1>1. /\ \E success : Judge(success)
      /\ pc \in {"result", "answers"} /\ RemoveWorkDir /\ UNCHANGED sessionVars /\ Say
  BY DEF ClaudeResult, PiResult, ReferenceResult, DayResult, Return
<1>2. leaked' \subseteq {"with_error", "unremovable", "silently"}
  BY <1>1 DEF RemoveWorkDir, CleanUp, SessionInv, ExecTypeOK
<1>3. ExecTypeOK' /\ Onward /\ UNCHANGED <<flag, local>>
  BY <1>1, <1>2, JudgeTypes
<1>4. Beside
  BY <1>1, <1>3 DEF Beside, Say, SessionInv, ChannelTypeOK
<1> QED BY <1>3, <1>4, RunKeeps

LEMMA ExecutorTypes == ASSUME SessionInv, Executor PROVE SessionInv'
<1>1. CASE StartSession \/ BeginLanguage
  <2>1. /\ pc \in {"start", "language"} /\ pc' \in {"language", "prepare", "finalize"}
        /\ status' \in {status, "RUNNING"} /\ UNCHANGED <<Same, agentVars>>
        /\ UNCHANGED sessionVars \/ UpdateSession(the, "RUNNING")
        /\ Say \/ Quietly
    BY <1>1 DEF StartSession, BeginLanguage, At
  <2>2. ExecTypeOK'
    BY <2>1 DEF SessionInv, ExecTypeOK, Same, agentVars, RunStatus
  <2>3. Onward
    BY <2>1 DEF Onward, Ended, Same, agentVars, SessionInv, ExecTypeOK
  <2>4. Beside
    BY <2>1 DEF Beside, Say, Quietly, Same, RunStatus, SessionInv, ChannelTypeOK
  <2> QED BY <2>2, <2>3, <2>4, RunKeeps
<1>2. CASE Fail
  <2>1. 0 \in 0..MaxLines
    BY RunAssumption
  <2>2. ExecTypeOK'
    BY <1>2, <2>1 DEF Fail, At, NewExercise, SessionInv, ExecTypeOK, RunStatus, Suites
  <2>3. Onward /\ Beside
    BY <1>2 DEF Fail, At, Onward, Ended, Beside, Say, SessionInv, ChannelTypeOK
  <2> QED BY <2>2, <2>3, RunKeeps
<1>3. CASE Finalize
  <2>1. status' \in RunStatus
    BY <1>3 DEF Finalize, RunStatus
  <2>2. ExecTypeOK'
    BY <1>3, <2>1 DEF Finalize, At, Same, agentVars, SessionInv, ExecTypeOK
  <2>3. Onward /\ Beside
    BY <1>3, <2>1 DEF Finalize, At, Onward, Ended, Beside, Say, Same, SessionInv, ChannelTypeOK
  <2> QED BY <2>2, <2>3, RunKeeps
<1>4. CASE DropSession
  <2>1. ExecTypeOK'
    BY <1>4, LanguagesAreIndexed DEF DropSession, At, agentVars, SessionInv, ExecTypeOK
  <2>2. Onward /\ Beside
    BY <1>4 DEF DropSession, At, Onward, Ended, Beside, Quietly
  <2> QED BY <2>1, <2>2, RunKeeps
<1> QED BY <1>1, <1>2, <1>3, <1>4 DEF Executor

\* The user, the shutdown and the viewers leave the executor's variables alone.
LEMMA OthersTypes ==
  ASSUME SessionInv,
         \/ Broadcast \/ Cancel \/ ClearSessions \/ RaiseFlag
         \/ (ViewerNext /\ UNCHANGED <<execVars, down>>) \/ UNCHANGED vars
  PROVE  SessionInv'
<1>1. UNCHANGED execVars /\ down' \in {down, "cleared", "over"}
  BY DEF Broadcast, Cancel, ClearSessions, RaiseFlag, vars
<1>2. ExecTypeOK' /\ Spent' = Spent
  BY <1>1 DEF execVars, agentVars, SessionInv, ExecTypeOK, Spent
<1>3. SessionTypeOK'
  <2>1. UNCHANGED sessionVars \/ CancelSession(the) \/ ShutdownSessions
    BY DEF Broadcast, Cancel, ClearSessions, RaiseFlag, ViewerNext, vars, sessionVars
  <2> QED BY <2>1, SessionMapTypes DEF SessionInv
<1>4. ChannelTypeOK' /\ LogTrimmed
  <2>1. CASE Broadcast
    BY <2>1, SendTypes DEF Broadcast, Send, LogTrimmed, SessionInv
  <2>2. CASE (Cancel \/ ClearSessions) /\ Emit("user") /\ UNCHANGED <<queue, viewerVars>>
    <3>1. "user" \in Writers /\ UNCHANGED <<flag, local>>
      BY <2>2 DEF Writers, Cancel, ClearSessions
    <3> QED BY <2>2, <3>1, EmitTypes DEF SessionInv, ChannelTypeOK, LogTrimmed
  <2>3. CASE (ClearSessions \/ RaiseFlag \/ UNCHANGED vars) /\ UNCHANGED streamVars
    BY <2>3 DEF ClearSessions, RaiseFlag, vars, streamVars, logVars, viewerVars, SessionInv, ChannelTypeOK, LogTrimmed
  <2>4. CASE ViewerNext
    <3>1. UNCHANGED <<pushed, dropped>>
      BY <2>4 DEF ViewerNext, RenderPage, Handler, LoseConnection, FindSession, Subscribe, Receive, CompleteStream, logVars
    <3> QED BY <2>4, <3>1, ViewerTypes DEF SessionInv, LogTrimmed
  <2> QED BY <2>1, <2>2, <2>3, <2>4 DEF Cancel, ClearSessions, RaiseFlag, vars
<1>5. LogFits'
  <2>1. Spent \in Nat
    BY SpentIsBounded DEF SessionInv, ExecTypeOK
  <2> QED BY <1>2, <1>4, <2>1, LogStaysFit
<1> QED BY <1>2, <1>3, <1>4, <1>5 DEF SessionInv

LEMMA SessionStep == SessionInv /\ [Next]_vars => SessionInv'
<1> SUFFICES ASSUME SessionInv, [Next]_vars PROVE SessionInv'
  OBVIOUS
<1>1. CASE Agent
  BY <1>1, SilentSteps, PrintKeeps, ResultTypes DEF Agent
<1> QED BY <1>1, ExecutorTypes, OthersTypes DEF Next

\* Every variable of the run of a session keeps its type; the log of a session
\* holds at most MaxLog lines and what its containers print (emit_output trims one
\* line for each that it adds, make_output_consumer none).
THEOREM SessionTypeCorrect == Spec => []TypeOK
<1>1. Init => SessionInv
  BY SessionInitially
<1>2. SessionInv /\ [Next]_vars => SessionInv'
  BY SessionStep
<1>3. SessionInv => TypeOK
  BY TypesFollow
<1> QED BY <1>1, <1>2, <1>3, PTL DEF Spec
=============================================================================
