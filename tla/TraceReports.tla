------------------------------ MODULE TraceReports ------------------------------
(***************************************************************************)
(* The three readers of the agents' traces: result_service/trace.rs of the *)
(* dashboard, benchmark-reporter and benchmark-token-report.  A trace is a *)
(* sequence of entries.  An entry's role is that of its message, or "none" *)
(* for one that has no message; usage is the message's record of token     *)
(* counts, or NoUsage; direct are counts beside it that claude's format    *)
(* knows, each -1 when it is not there, and served what usage says of the  *)
(* server's tools; text counts characters, tools tool calls; outer is what *)
(* an entry says of itself outside any message.                            *)
(*                                                                         *)
(* Two sets of types read the entries.  plain: those of the dashboard and  *)
(* of the reporter accept it, which want both counts in claude's usage.    *)
(* typed: those of the token report (crates/benchmark-types) accept it,    *)
(* which want pi's timestamps and know text, thinking and tool calls alone,*)
(* so that results of claude's tools are no messages to it.                *)
(* What a reader skips is a set of places of the trace.                    *)
(***************************************************************************)
EXTENDS Integers, FiniteSetsExt, Functions

NoUsage == [input |-> -1, output |-> -1, read |-> -1, write |-> -1]

Messages(trace) == {i \in DOMAIN trace : trace[i].role # "none"}
WithUsage(trace) == {i \in Messages(trace) : trace[i].plain /\ trace[i].usage # NoUsage}
Accepted(trace) == {i \in Messages(trace) : trace[i].typed}
Rejected(trace) == {i \in DOMAIN trace : ~trace[i].typed}
SpokenBy(role, trace) == {i \in DOMAIN trace : trace[i].role = role}

Total(trace, places, Count(_)) == SumFunction([i \in places |-> Count(trace[i])])

\* The reader's loop: the places are taken in the order of the file.
InOrder(Step(_, _), start, trace, places) ==
  MapThenFoldSet(LAMBDA e, sum : Step(sum, e), start, LAMBDA i : trace[i], Max, places)

Minus(a, b) == IF a > b THEN a - b ELSE 0     \* saturating_sub

\* The dashboard: pi reports what was cached, claude's share is taken from the
\* growth of the input.
PiTokens(trace) ==
  LET used == WithUsage(trace)
      cached == Total(trace, used, LAMBDA e : e.usage.read)
      uncached == Total(trace, used, LAMBDA e : e.usage.input + e.usage.write)
  IN [input |-> cached + uncached, output |-> Total(trace, used, LAMBDA e : e.usage.output),
      cached |-> cached, uncached |-> uncached]

\* mutant: the previous input is never updated
ClaudeStepForgetful(sum, e) ==
  [sum EXCEPT !.input = @ + e.usage.input, !.output = @ + e.usage.output, !.uncached = @ + e.usage.input]

ClaudeStep(sum, e) ==
  LET new == Minus(e.usage.input, sum.prev)
      uncached == IF new > 0 THEN new ELSE e.usage.input
  IN [input |-> sum.input + e.usage.input, output |-> sum.output + e.usage.output,
      cached |-> sum.cached + e.usage.input - uncached, uncached |-> sum.uncached + uncached,
      prev |-> e.usage.input]

ClaudeTokens(trace) ==
  InOrder(ClaudeStep, [input |-> 0, output |-> 0, cached |-> 0, uncached |-> 0, prev |-> 0], trace, WithUsage(trace))

\* Tool calls, and pi's turns, are read without the types.
ToolCalls(trace) == Total(trace, SpokenBy("assistant", trace), LAMBDA e : e.tools)
PiTurns(trace) == Cardinality(SpokenBy("assistant", trace))

Chars(trace) ==
  [input |-> Total(trace, SpokenBy("user", trace), LAMBDA e : e.text),
   output |-> Total(trace, SpokenBy("assistant", trace), LAMBDA e : e.text)]

\* The reporter: the same for claude; for pi what was cached is left out.
ReportedPiTokens(trace) ==
  [input |-> Total(trace, WithUsage(trace), LAMBDA e : e.usage.input),
   output |-> Total(trace, WithUsage(trace), LAMBDA e : e.usage.output), cached |-> 0, uncached |-> 0]
ReportedClaudeTokens(trace) == ClaudeTokens(trace)

\* The token report.  A claude message without usage counts as one with zeros, direct
\* counts go before those of usage, and only growth is added up.
NoCounts == [input |-> 0, output |-> 0, read |-> 0, write |-> 0]
NothingServed == [input |-> 0, output |-> 0]
NothingOuter == [input |-> 0, output |-> 0, read |-> 0, write |-> 0, tools |-> 0]

Direct(e, count) == IF e.direct[count] >= 0 THEN e.direct[count] ELSE e.usage[count]

Counts(e) ==
  CASE e.usage = NoUsage -> NoCounts
    [] e.usage # NoUsage /\ e.role = "user" ->
         [NoCounts EXCEPT !.input = Direct(e, "input"), !.output = Direct(e, "output")]
    [] OTHER -> [input |-> Direct(e, "input") + e.served.input, output |-> Direct(e, "output") + e.served.output,
                 read |-> Direct(e, "read"), write |-> Direct(e, "write")]

Growth(sum, e) ==
  LET c == Counts(e) IN
  [input |-> sum.input + Minus(c.input, sum.prev.input), output |-> sum.output + Minus(c.output, sum.prev.output),
   read |-> sum.read + Minus(c.read, sum.prev.read), write |-> sum.write + Minus(c.write, sum.prev.write),
   prev |-> c]

TokenReportClaude(trace) ==
  LET accepted == Accepted(trace)
      none == [input |-> 0, output |-> 0, read |-> 0, write |-> 0, prev |-> NoCounts]
      sum == InOrder(Growth, none, trace, accepted)
  IN [input |-> sum.input, output |-> sum.output, read |-> sum.read, write |-> sum.write,
      messages |-> Cardinality(accepted),
      tools |-> Total(trace, {i \in accepted : trace[i].role = "assistant" /\ trace[i].usage # NoUsage},
                      LAMBDA e : e.tools)]

\* pi's counts are those of each message.  Of an entry that the types reject
\* extract_usage_from_json counts what stands outside any message.
TokenReportPi(trace) ==
  LET accepted == Accepted(trace)
      used == {i \in accepted : trace[i].usage # NoUsage}
      rejected == Rejected(trace)
  IN [input |-> Total(trace, used, LAMBDA e : e.usage.input + e.usage.read + e.usage.write)
                + Total(trace, rejected, LAMBDA e : e.outer.input),
      output |-> Total(trace, used, LAMBDA e : e.usage.output) + Total(trace, rejected, LAMBDA e : e.outer.output),
      read |-> Total(trace, used, LAMBDA e : e.usage.read) + Total(trace, rejected, LAMBDA e : e.outer.read),
      write |-> Total(trace, used, LAMBDA e : e.usage.write) + Total(trace, rejected, LAMBDA e : e.outer.write),
      messages |-> Cardinality(accepted),
      tools |-> Total(trace, accepted, LAMBDA e : e.tools) + Total(trace, rejected, LAMBDA e : e.outer.tools)]

-----------------------------------------------------------------------------
(* The reporter's walk over a run directory.  A result is [at, task, ok,   *)
(* exit], a trace [at, tokens]; at is the modification time of the file.   *)

\* Results are visited in the order of their times, which the fold reaches by leaving
\* the latest out.
Latest(results) == CHOOSE r \in results : \A q \in results : q.at <= r.at

Tokens(files) == MapThenSumSet(LAMBDA t : t.tokens, files)

\* mutant: a trace that was taken stays in the list
TakeTracesAgain(state, result) ==
  [traces |-> state.traces,
   rows |-> state.rows \cup {[result |-> result, tokens |-> Tokens({t \in state.traces : t.at < result.at})]}]

\* Each result takes the traces that are older than itself and not taken yet; the
\* tokens of a row are what they add to those that the result has recorded.
TakeTraces(state, result) ==
  LET older == {t \in state.traces : t.at < result.at} IN
  [traces |-> state.traces \ older,
   rows |-> state.rows \cup {[result |-> result, tokens |-> Tokens(older)]}]

DirectoryRows(results, traces) ==
  MapThenFoldSet(LAMBDA r, state : TakeTraces(state, r), [traces |-> traces, rows |-> {}],
                 LAMBDA r : r, Latest, results).rows

\* A result that says it succeeded and has an exit code counts as failed.
Passed(result) == result.ok /\ result.exit = 0

DirectoryStats(results, traces) ==
  LET rows == DirectoryRows(results, traces) IN
  [total |-> Cardinality(rows), success |-> Cardinality({r \in results : Passed(r)}),
   failed |-> Cardinality({r \in results : ~Passed(r)}), tokens |-> Tokens(rows)]

\* run_report visits the results directory itself as well as each run directory below
\* it (but no category directory), and every visit is recursive.
Visits(runs) == {"base"} \cup DOMAIN runs
Visited(runs, visit) ==
  IF visit \in DOMAIN runs THEN runs[visit]
  ELSE [results |-> UNION {runs[d].results : d \in DOMAIN runs},
        traces |-> UNION {runs[d].traces : d \in DOMAIN runs}]

ReportStats(runs) ==
  [v \in Visits(runs) |-> DirectoryStats(Visited(runs, v).results, Visited(runs, v).traces)]

\* The table of exercises adds up the results of all visits.
ExerciseTotal(runs, task) ==
  MapThenSumSet(LAMBDA v : Cardinality({r \in Visited(runs, v).results : r.task = task}), Visits(runs))

-----------------------------------------------------------------------------
(* The token report's choice of a trace for a result.  names are the files *)
(* of the directory: [kind, first, exercise], for log_<agent>_<language>   *)
(* or trace_<first>_<exercise>; extensions are the exercises that begin    *)
(* with the result's.                                                      *)

LogOf(result) == [kind |-> "log", first |-> result.agent, exercise |-> result.language]
TraceOf(first, exercise) == [kind |-> "trace", first |-> first, exercise |-> exercise]

FoundTrace(names, result, extensions) ==
  LET exact == <<LogOf(result), TraceOf(result.language, result.exercise), TraceOf(result.agent, result.exercise)>>
      prefixed == {n \in names : n.kind = "trace" /\ n.first = result.language /\ n.exercise \in extensions}
      hits == {i \in DOMAIN exact : exact[i] \in names}
  IN IF hits # {} THEN {exact[Min(hits)]} ELSE prefixed   \* any of prefixed, in the order of read_dir

=============================================================================
