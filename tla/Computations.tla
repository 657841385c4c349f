------------------------------ MODULE Computations ------------------------------
(***************************************************************************)
(* The pure computations of the program, each over every input of a small  *)
(* domain.  A behaviour makes one call; the invariants relate what the     *)
(* code computes for it to what it is to mean.                             *)
(***************************************************************************)
EXTENDS ResultViews, TraceReports, TranscriptCases, SettingsCases

CONSTANTS MaxResults, MaxTrace, MaxLines   \* bounds: results in a cache, entries in a trace, lines

VARIABLE call

\* A cached result from its key, its measurements and its interval.
Result(agent, language, category, ok, dur, tokens, start, end) ==
  [agent |-> agent, model |-> "m", language |-> language, exercise |-> "series", category |-> category,
   ok |-> ok, dur |-> dur, tokens |-> tokens, start |-> start, end |-> end]

Pool ==
  { Result("pi", "java", "", TRUE, 1, 1, 0, 4), Result("pi", "java", "polyglot", TRUE, 3, 2, 1, 3),
    Result("pi", "java", "polyglot", FALSE, 2, 0, 5, 2), Result("pi", "go", "polyglot", TRUE, 2, 3, 2, 6),
    Result("pi", "aoc", "aoc2015", TRUE, 2, 2, 8, 9), Result("pi", "aoc", "aoc2015", FALSE, 1, 1, 8, 9),
    Result("claude", "java", "polyglot", TRUE, 1, 3, 3, 7), Result("claude", "java", "polyglot", TRUE, 0, 2, 4, 5),
    Result("claude", "go", "polyglot", FALSE, 1, 2, 6, 8), Result("claude", "go", "polyglot", TRUE, 1, 3, 0, 1),
    Result("reference", "java", "polyglot", TRUE, 1, 0, 0, 2), Result("reference", "go", "polyglot", TRUE, 3, 0, 4, 4) }

Caches ==
  {c \in UNION {kSubset(n, Pool) : n \in 0..MaxResults} :
    \A q, r \in c : q # r => ModelKey(q) # ModelKey(r) \/ Task(q) # Task(r)}

Filters ==
  [language : {NoFilter, "java"}, agent : {NoFilter, "pi"}, model : {NoFilter}, exercise : {NoFilter},
   category : {NoFilter, "polyglot"}, quick : BOOLEAN]

Quick == {<<"java", "series">>}
ExpectedTasks == {<<"java", "series">>, <<"go", "series">>}

Init == call = [of |-> "nothing"]

ViewResults ==
  \E cache \in Caches, filter \in Filters : call' = [of |-> "results", cache |-> cache, filter |-> filter]

Usages ==
  { [input |-> 1, output |-> 1, read |-> 0, write |-> 0], [input |-> 2, output |-> 1, read |-> 1, write |-> 0],
    [input |-> 3, output |-> 2, read |-> 2, write |-> 1], [input |-> 2, output |-> 0, read |-> 0, write |-> 2] }

\* An entry that every reader accepts, and that tells its counts once.
Entry(role, usage, tools) ==
  [role |-> role, usage |-> usage, tools |-> tools, text |-> tools + 1, plain |-> TRUE, typed |-> TRUE,
   direct |-> NoUsage, served |-> NothingServed, outer |-> NothingOuter]

Big == [input |-> 3, output |-> 2, read |-> 2, write |-> 1]

\* A tool's result and a block of an unknown type, which the token report's types
\* reject; a usage without its input, which the others' do; counts beside the usage,
\* and what the server's tools used; a line that is no message.
OddEntries ==
  { [Entry("user", NoUsage, 0) EXCEPT !.typed = FALSE], [Entry("assistant", Big, 1) EXCEPT !.typed = FALSE],
    [Entry("assistant", [Big EXCEPT !.input = 0], 1) EXCEPT !.plain = FALSE],
    [Entry("assistant", Big, 0) EXCEPT !.direct = [NoUsage EXCEPT !.input = 4]],
    [Entry("user", Big, 0) EXCEPT !.direct = [NoUsage EXCEPT !.output = 3]],
    [Entry("assistant", Big, 0) EXCEPT !.served = [input |-> 1, output |-> 2]],
    [Entry("none", NoUsage, 0) EXCEPT !.typed = FALSE, !.plain = FALSE,
                                      !.outer = [input |-> 2, output |-> 1, read |-> 1, write |-> 1, tools |-> 1]] }

Entries ==
  {Entry("assistant", u, n) : u \in Usages \cup {NoUsage}, n \in 0..1} \cup
  {Entry("user", u, 0) : u \in {NoUsage, Big}} \cup {Entry("none", NoUsage, 0)} \cup OddEntries

ReadTrace ==
  \E trace \in BoundedSeq(Entries, MaxTrace) : call' = [of |-> "trace", trace |-> trace]

\* Run directories: results and traces by modification time, with token counts that
\* tell the traces of one directory apart.
Ran(at, task, ok, exit) == [at |-> at, task |-> task, ok |-> ok, exit |-> exit]
RunDirs(times, exit) ==
  [results : SUBSET ({Ran(t, "java", t = 4, 0) : t \in times} \cup {Ran(6, "go", TRUE, exit)}),
   traces : SUBSET {[at |-> 1, tokens |-> 1], [at |-> 3, tokens |-> 10], [at |-> 5, tokens |-> 100]}]

WalkRuns ==
  \E pi \in RunDirs({2, 4}, 1), claude \in RunDirs({4}, 0) :
    call' = [of |-> "runs", runs |-> [dir \in {"pi-m", "claude-m"} |-> IF dir = "pi-m" THEN pi ELSE claude]]

\* series-two extends series.
Extends(long, short) == long = short \/ (long = "series-two" /\ short = "series")

ChooseTrace ==
  \E names \in SUBSET ({[kind |-> "log", first |-> a, exercise |-> "java"] : a \in {"pi", "claude"}} \cup
                       {TraceOf(f, e) : f \in {"java", "claude"}, e \in {"series", "series-two"}}),
     result \in [agent : {"pi", "claude"}, language : {"java"}, exercise : {"series", "series-two"}] :
    call' = [of |-> "choice", names |-> names, result |-> result]

PrintLine ==
  \E agent \in {"pi", "claude"}, line \in SomeLines : call' = [of |-> "line", agent |-> agent, line |-> line]

\* A message of the assistant in pieces, as either agent streams it.
StreamMessage ==
  \E pieces \in BoundedSeq({<<1>>, <<3>>, <<1, 3>>}, MaxLines) : call' = [of |-> "message", pieces |-> pieces]

CallTools ==
  \E agent \in {"pi", "claude"}, run \in {r \in BoundedSeq(Printed, MaxLines) : Orderly(r)} :
    \E form \in {f \in Forms(agent) : Tellable(f, run)} :
      call' = [of |-> "tools", agent |-> agent, form |-> form, run |-> run]

ConfigurePi ==
  \E name \in ModelNames, level \in Words, env \in Settings :
    call' = [of |-> "pi", name |-> name, level |-> level, env |-> env]

MatchGlob ==
  \E pattern \in Globs, name \in GlobNames : call' = [of |-> "glob", pattern |-> pattern, name |-> name]

LookUpModel ==
  \E patterns \in BoundedSeq({<<<<"a">>>>, <<<<"a">>, <<>>>>, <<<<>>, <<"b">>>>, <<<<"a", "b">>, <<>>>>}, MaxLines),
     name \in GlobNames :
    call' = [of |-> "lookup", patterns |-> patterns, name |-> name]

ReachServer ==
  \E configured \in Endpoints, answering \in SUBSET ToSet(Candidates), environment \in EnvFiles :
    call' = [of |-> "server", configured |-> configured, answering |-> answering, environment |-> environment]

CheckConfig ==
  \E state \in {"missing", "readable", "unreadable", "malformed"}, config \in ConfigFiles :
    call' = [of |-> "config", state |-> state, config |-> config]

AskServer ==
  \E models \in ServedModels, id \in {"alias", "m", "p", "q"} : call' = [of |-> "models", models |-> models, id |-> id]

Millis == {0, 1, 999, 1000, 1999, 2000, 61001}

FindFiles ==
  \E category \in {"", "aoc2015"}, success \in BOOLEAN, ms \in Millis :
    call' = [of |-> "files", category |-> category, success |-> success, ms |-> ms]

PrepareWorkspace ==
  \E language \in {"java", "python", "javascript", "go", "rust"}, files \in SUBSET BuildFiles :
    call' = [of |-> "workspace", language |-> language, files |-> files]

Next ==
  /\ call.of = "nothing"
  /\ \/ ViewResults \/ ReadTrace \/ WalkRuns \/ ChooseTrace
     \/ PrintLine \/ StreamMessage \/ CallTools
     \/ ConfigurePi \/ MatchGlob \/ LookUpModel \/ ReachServer
     \/ CheckConfig \/ AskServer \/ FindFiles \/ PrepareWorkspace

Spec == Init /\ [][Next]_call

-----------------------------------------------------------------------------
(* The dashboard's numbers.                                                *)

\* Groups account for the rows they are made of: every row is counted once, and the
\* wall clocks of the groups lie below that of all and cover it.
Accounted(groups, rows, overall) ==
  /\ SumFunction([k \in DOMAIN groups |-> groups[k].total]) = Cardinality(rows)
  /\ SumFunction([k \in DOMAIN groups |-> groups[k].success]) = overall.success
  /\ SumFunction([k \in DOMAIN groups |-> groups[k].duration]) = overall.duration
  /\ SumFunction([k \in DOMAIN groups |-> groups[k].tokens]) = overall.tokens
  /\ SumFunction([k \in DOMAIN groups |-> groups[k].wall]) >= WallClock(rows)
  /\ \A k \in DOMAIN groups : groups[k].wall <= WallClock(rows)

\* A formatted duration stands for the seconds it was made from; the few seconds of a
\* small instance are stretched to minutes, hours and days.
Seconds(p) == ((p.d * 24 + p.h) * 60 + p.m) * 60 + p.s
ReadsBack(secs) == Seconds(DurationParts(secs)) = secs
Stretched(secs) == {secs, secs * 61, secs * 6007, secs * 21599}

AddUp(cache, filter, quick) ==
  LET page == ResultsPage(cache, filter, quick)
      st == page.stats
      clock == WallClockStats(page.rows)
      InAll(groups) == Accounted(groups, page.rows, st.overall)
  IN /\ InAll(st.byLanguage) /\ InAll(st.byAgent) /\ InAll(st.byModel) /\ InAll(st.byCategory)
     /\ clock.total = Cardinality(UNION {r.start..(r.end - 1) : r \in page.rows})
     /\ clock.total <= clock.span /\ clock.total <= clock.sum /\ clock.gain >= 0
     /\ st.overall.wall >= clock.total
     /\ filter.category = NoFilter => st.overall.wall = clock.total
     /\ {r.language : r \in page.rows} \subseteq page.languages
     /\ \A secs \in Stretched(st.overall.duration) \cup Stretched(st.overall.wall) : ReadsBack(secs)

\* Every way of grouping the results accounts for each of them once, the wall clock
\* is the time during which at least one run was going, however the runs overlap
\* (get_statistics, merge_intervals_and_total_duration, compute_wall_clock_stats),
\* and a formatted duration loses nothing but zeros.
StatisticsAddUp == call.of = "results" => AddUp(call.cache, call.filter, Quick)

\* Scores rank work, not luck: a failure scores nothing, a success that took time
\* scores at least its 70 %, and between two successes of an exercise the one that is
\* faster and shorter never scores less (calculate_scores).  A success whose duration
\* is 0 has no such guarantee: it is measured against others' bounds, and its score
\* may not be a number.
AllTimed(cache) == \A r \in cache : r.ok => r.dur > 0

FairlyScored(scores) ==
  /\ \A s \in scores : IF s.result.ok THEN s.composite \in 700..1000 ELSE s.composite = 0
  /\ \A s, t \in scores :
       /\ s.result.ok /\ t.result.ok /\ Task(s.result) = Task(t.result)
       /\ s.result.dur <= t.result.dur /\ s.result.tokens \in 1..t.result.tokens
       => s.composite >= t.composite

ScoresAreFair ==
  call.of = "results" /\ AllTimed(call.cache) => FairlyScored(Scores(call.cache, call.filter, Quick))

\* The scores are shown in their order.  Among models somebody has the full mark for
\* speed, who solves everything expected has the full success rate and counts as
\* complete, and nobody exceeds the full mark (get_scored_results, get_model_scores,
\* get_completeness_info).
ModelsAreRanked ==
  call.of = "results" /\ AllTimed(call.cache) =>
    LET scores == Scores(call.cache, call.filter, Quick)
        ranking == Ranking(scores)
        models == ModelScores(call.cache, call.filter, Quick, ExpectedTasks)
        Solved(k) == {Task(r) : r \in {q \in call.cache : q.ok /\ ModelKey(q) = k}}
        wanted == Expected(ExpectedTasks, call.filter.language, call.filter, Quick)
    IN /\ \A i \in 2..Len(ranking) : ranking[i].composite <= ranking[i - 1].composite
       /\ \A k \in DOMAIN models :
            /\ models[k].composite \in 0..1000
            /\ wanted \subseteq Solved(k) /\ wanted # {} => models[k].success = 1000
       /\ (\E s \in scores : s.speed > 0) => \E k \in DOMAIN models : models[k].speed = 1000
       /\ \A k \in {ModelKey(r) : r \in call.cache} :
            ExpectedTasks \subseteq Solved(k) => k \in CompleteKeys(call.cache, FALSE, Quick, ExpectedTasks)

\* The comparison of two models has one row for each exercise that either ran, gives
\* each row to one side or to nobody, and names the same winners when the sides are
\* swapped, as long as no count is missing (compare_page).
Symmetric(cache, a, b, metric) ==
  LET there == CompareRows(cache, a, b, metric)
      back == CompareRows(cache, b, a, metric)
      ran == OfModel(cache, a) \cup OfModel(cache, b)
  IN /\ Cardinality(there) = Cardinality({Task(r) : r \in ran})
     /\ Wins(there, "a") + Wins(there, "b") + Wins(there, "tie") = Cardinality(there)
     /\ (\A r \in ran : Metric(r, metric) # Missing) =>
          Wins(there, "a") = Wins(back, "b") /\ Wins(there, "b") = Wins(back, "a")

ComparisonsAgree ==
  call.of = "results" =>
    \A a, b \in {ModelKey(r) : r \in call.cache}, metric \in {"speed", "tokens"} :
      Symmetric(call.cache, a, b, metric)

-----------------------------------------------------------------------------
(* The traces.                                                             *)

\* Every count stands in the usage of a message, and what the token report's types
\* accept the others' do too.
ToldOnce(trace) ==
  \A i \in DOMAIN trace :
    /\ trace[i].typed => trace[i].plain
    /\ trace[i].direct = NoUsage /\ trace[i].outer = NothingOuter

\* What the readers of one trace of claude tell of it.
ClaudeReadersAgree(trace) ==
  LET seen == ClaudeTokens(trace)
      grown == TokenReportClaude(trace)
      used == WithUsage(trace)
  IN /\ seen.input = seen.cached + seen.uncached /\ ReportedClaudeTokens(trace) = seen
     /\ grown.tools <= ToolCalls(trace)
     /\ ToldOnce(trace) =>
          /\ grown.output <= seen.output + Total(trace, Accepted(trace), LAMBDA e : e.served.output)
          /\ used = Accepted(trace) /\ (\A i \in used : trace[i].served = NothingServed) =>
               /\ grown.input <= seen.uncached
               /\ (\A i, j \in used : i < j => trace[i].usage.input < trace[j].usage.input) =>
                    grown.input = seen.uncached

\* And of one of pi.
PiReadersAgree(trace) ==
  LET pi == PiTokens(trace)
      report == ReportedPiTokens(trace)
      detail == TokenReportPi(trace)
  IN /\ report.output = pi.output
     /\ report.input + Total(trace, WithUsage(trace), LAMBDA e : e.usage.write) = pi.uncached
     /\ ToldOnce(trace) =>
          /\ detail.input <= pi.input /\ detail.output <= pi.output /\ detail.read <= pi.cached
          /\ detail.tools <= ToolCalls(trace)
          /\ Messages(trace) = Accepted(trace) =>
               /\ detail.input = pi.input /\ detail.output = pi.output /\ detail.read = pi.cached
               /\ detail.tools = ToolCalls(trace) /\ PiTurns(trace) <= detail.messages

ReadersAgree(trace) ==
  /\ ClaudeReadersAgree(trace) /\ PiReadersAgree(trace)
  /\ Chars(trace).input + Chars(trace).output <= Total(trace, DOMAIN trace, LAMBDA e : e.text)

\* The dashboard splits claude's input without losing any, and what the reporter
\* leaves out of pi's is what the trace calls cached or written.  The token report,
\* whose types reject more, never tells more than the dashboard but for what the
\* server's tools used, as long as the counts stand in the usage of the messages
\* alone; it tells the same of pi when it rejects no message, and of claude's input
\* when its messages are those the dashboard counts and the input grows.  Where counts
\* stand elsewhere too the readers differ, and no agreement is claimed
\* (parse_tokens_from_trace, calculate_*_tokens, parse_claude_trace, process_pi_entry).
TokensAgree == call.of = "trace" => ReadersAgree(call.trace)

\* The rows and the totals of one run directory.
Attributed(runs, d) ==
  LET run == runs[d]
      stats == ReportStats(runs)[d]
      Older(r) == {q \in run.results : q.at < r.at}
      Own(r) == {t \in run.traces : t.at < r.at /\ \A q \in Older(r) : t.at >= q.at}
      used == {t \in run.traces : \E r \in run.results : t.at < r.at}
  IN /\ \A w \in DirectoryRows(run.results, run.traces) : w.tokens = Tokens(Own(w.result))
     /\ stats.total = Cardinality(run.results) /\ stats.total = stats.success + stats.failed
     /\ stats.tokens = Tokens(used)
     /\ \A task \in {"java", "go"} :
          ExerciseTotal(runs, task) >= Cardinality({r \in run.results : r.task = task})

\* The trace that is taken for a result.
OwnFound(names, result, extensions) ==
  LET own == TraceOf(result.language, result.exercise)
      found == FoundTrace(names, result, extensions)
  IN /\ found \subseteq names
     /\ own \in names /\ LogOf(result) \notin names => found = {own}

\* The reporter counts a trace for the first result that is newer, and once, so that
\* one run at a time gets its own trace; the rows of a run directory add up, and a
\* success with an exit code is a failure.  The token report gives a result no
\* trace of another exercise when its own is there and the directory has no log
\* (process_results_directory, find_trace_file_v2).
TracesAreAttributed ==
  /\ call.of = "runs" => \A d \in DOMAIN call.runs : Attributed(call.runs, d)
  /\ call.of = "choice" =>
       OwnFound(call.names, call.result, {e \in {"series", "series-two"} : Extends(e, call.result.exercise)})

-----------------------------------------------------------------------------
(* The lines of an agent.                                                  *)

\* An agent's output is shown, and its commands are timed, as it was printed.
LinesAreUnderstood ==
  /\ call.of = "line" => ShownWell(call.agent, call.line)
  /\ call.of = "message" => StreamedWell(call.pieces)
  /\ call.of = "tools" => TimedWell(call.agent, call.form, call.run)

-----------------------------------------------------------------------------
(* The settings.                                                           *)

\* A run's settings come to what the user asked for.
SettingsResolve ==
  /\ call.of = "pi" => PiIsTold(call.name, call.level, call.env)
  /\ call.of = "glob" => GlobsMatch(call.pattern, call.name)
  /\ call.of = "lookup" => LookupPrefers(call.patterns, call.name)
  /\ call.of = "server" => ServerIsReached(call.configured, call.answering, call.environment)
  /\ call.of = "config" => ConfigIsChecked(call.state, call.config)
  /\ call.of = "models" => ServerIsUnderstood(call.models, call.id)
  /\ call.of = "files" => FilesAreFound(call.category, call.success, call.ms)
  /\ call.of = "workspace" => WorkspaceIsPrepared(call.language, call.files)
=============================================================================
