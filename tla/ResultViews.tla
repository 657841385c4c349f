------------------------------ MODULE ResultViews ------------------------------
(***************************************************************************)
(* What the dashboard computes from the cached results: the filters and    *)
(* statistics of result_service/{query,statistics}.rs, the scores of       *)
(* scoring.rs and the comparison of routes/compare.rs.  A cached result is *)
(* a record [agent, model, language, exercise, category, ok, dur, tokens,  *)
(* start, end] (one exercise each, seconds and milliseconds as whole       *)
(* numbers, tokens standing for the output tokens); scores are per mille.  *)
(***************************************************************************)
EXTENDS Integers, FiniteSetsExt, SequencesExt

NoFilter == "any"   \* a filter that is absent or empty

Matches(r, filter) ==
  \A field \in {"language", "agent", "model", "exercise"} : filter[field] \in {NoFilter, r[field]}

InCategory(r, filter) == filter.category \in {NoFilter, r.category}

ModelKey(r) == <<r.agent, r.model>>
Task(r) == <<r.language, r.exercise>>

\* QuickBenchConfig: quick is the set of tasks of the quick benchmark.
QuickEnough(r, filter, quick) == filter.quick => Task(r) \in quick

Listed(cache, filter, quick) ==
  {r \in cache : InCategory(r, filter) /\ Matches(r, filter) /\ QuickEnough(r, filter, quick)}

-----------------------------------------------------------------------------
(* Statistics.                                                             *)

Span(r) == [start |-> r.start, end |-> r.end]
Spans(results) == {Span(r) : r \in {q \in results : q.end >= q.start}}

Extend(run, span) ==
  IF span.start <= run.end
  THEN [run EXCEPT !.end = Max({run.end, span.end})]
  ELSE [start |-> span.start, end |-> span.end, total |-> run.total + run.end - run.start]

\* mutant: every interval counted for itself
MergedDurationSummed(spans) == MapThenSumSet(LAMBDA s : s.end - s.start, spans)

\* In the order of their starts, which the fold reaches by leaving the last one out.
LastStarted(spans) == CHOOSE s \in spans : \A q \in spans : q.start <= s.start

MergedDuration(spans) ==
  IF spans = {} THEN 0 ELSE
  LET first == Min({s.start : s \in spans})
      last == MapThenFoldSet(LAMBDA span, run : Extend(run, span),
                             [start |-> first, end |-> first, total |-> 0],
                             LAMBDA span : span, LastStarted, spans)
  IN last.total + last.end - last.start

WallClock(results) == MergedDuration(Spans(results))

Rate(part, whole) == IF whole > 0 THEN (1000 * part) \div whole ELSE 0

StatItem(results) ==
  LET good == {r \in results : r.ok} IN
  [total |-> Cardinality(results), success |-> Cardinality(good),
   rate |-> Rate(Cardinality(good), Cardinality(results)),
   duration |-> MapThenSumSet(LAMBDA r : r.dur, results),
   tokens |-> MapThenSumSet(LAMBDA r : r.tokens, results),
   wall |-> WallClock(results)]

\* key gives every result its group.
GroupedBy(key) ==
  [k \in {key[r] : r \in DOMAIN key} |-> StatItem({r \in DOMAIN key : key[r] = k})]

CategoryKey(r) == IF r.category = "" THEN "polyglot" ELSE r.category

\* The wall clock of the whole leaves the category filter out (statistics.rs:229).
Statistics(cache, filter, quick) ==
  LET kept == Listed(cache, filter, quick) IN
  [overall |-> [StatItem(kept) EXCEPT !.wall = WallClock(Listed(cache, [filter EXCEPT !.category = NoFilter], quick))],
   byLanguage |-> GroupedBy([r \in kept |-> r.language]),
   byAgent |-> GroupedBy([r \in kept |-> r.agent]),
   byModel |-> GroupedBy([r \in kept |-> ModelKey(r)]),
   byCategory |-> GroupedBy([r \in kept |-> CategoryKey(r)])]

\* format_duration: what the parts of "1d 2h 3m 4s" stand for, in order, zeros left out.
DurationParts(secs) ==
  [d |-> secs \div 86400, h |-> (secs % 86400) \div 3600, m |-> (secs % 3600) \div 60, s |-> secs % 60]

WallClockStats(results) ==
  LET spans == Spans(results)
      clock == IF spans = {} THEN 0 ELSE Max({s.end : s \in spans}) - Min({s.start : s \in spans})
      merged == MergedDuration(spans)
  IN [span |-> clock, total |-> merged,
      sum |-> MapThenSumSet(LAMBDA r : r.end - r.start, {r \in results : r.end >= r.start}),
      gain |-> IF clock > 0 THEN 1000 - (1000 * merged) \div clock ELSE 0]

Categories(cache) == {CategoryKey(r) : r \in cache}
Languages(cache) == {r.language : r \in cache}
Exercises(cache, language) == {r.exercise : r \in {q \in cache : language \in {NoFilter, q.language}}}

\* The results page: the filter is applied to the numbers and the rows alike.
ResultsPage(cache, filter, quick) ==
  [stats |-> Statistics(cache, filter, quick), rows |-> Listed(cache, filter, quick),
   languages |-> Languages(cache), exercises |-> Exercises(cache, filter.language),
   categories |-> Categories(cache)]

-----------------------------------------------------------------------------
(* Scores.                                                                 *)

\* calculate_scores asks for every category.
Scorable(cache, filter, quick) == Listed(cache, [filter EXCEPT !.category = NoFilter], quick)

Timed(results) == {r \in results : r.ok /\ r.dur > 0}

\* The successes a result is measured against: those of its own exercise.
Peers(results, r) == {p \in Timed(results) : Task(p) = Task(r)}
Durations(results, r) == {p.dur : p \in Peers(results, r)}
TokenCounts(results, r) == {p.tokens : p \in Peers(results, r)}

SpeedScore(results, r) ==
  IF ~(r.ok /\ r.dur > 0) THEN 0 ELSE
  LET slow == Max(Durations(results, r))
      fast == Min(Durations(results, r))
  IN IF slow = fast THEN 1000 ELSE (1000 * (slow - r.dur)) \div (slow - fast)

\* (n/d).powf(0.3), by a stand-in that rises the same way through 0 and 1.  A negative
\* base is not a number.
NaN == -1000000
Power(n, d) ==
  IF n < 0 THEN NaN
  ELSE IF n > d THEN (1000 * n) \div d ELSE 1000 - ((d - n) * (d - n) * 1000) \div (d * d)

\* mutant: a token score that rewards long answers
TokenScoreOfLength(results, r) ==
  IF Peers(results, r) = {} THEN 0 ELSE
  LET most == Max(TokenCounts(results, r))
  IN IF most = 0 THEN 0 ELSE (1000 * r.tokens) \div most

TokenScore(results, r) ==
  IF ~(r.ok /\ r.tokens > 0) THEN 0
  ELSE IF Peers(results, r) = {} THEN 1000 ELSE
  LET most == Max(TokenCounts(results, r))
      least == Min(TokenCounts(results, r))
      power == Power(r.tokens - least, most - least)
  IN IF most = least \/ most = 0 THEN 1000 ELSE IF power = NaN THEN NaN ELSE 1000 - power

Weighted(success, speed, token) ==
  IF success = 0 THEN 0
  ELSE IF token = NaN THEN NaN ELSE (7 * success + 2 * speed + token) \div 10

ScoredResult(results, r) ==
  LET success == IF r.ok THEN 1000 ELSE 0 IN
  IF Timed(results) = {} THEN [result |-> r, speed |-> 0, token |-> 0, composite |-> 0]
  ELSE [result |-> r, speed |-> SpeedScore(results, r), token |-> TokenScore(results, r),
        composite |-> Weighted(success, SpeedScore(results, r), TokenScore(results, r))]

Scores(cache, filter, quick) ==
  LET results == Scorable(cache, filter, quick) IN {ScoredResult(results, r) : r \in results}

\* The pages sort by composite score; ties keep any order.
Ranking(scores) == SetToSortSeq(scores, LAMBDA a, b : a.composite >= b.composite)

Summed(values) == IF \E v \in ToSet(values) : v = NaN THEN NaN ELSE FoldSeq(+, 0, values)

\* mutant: the number of expected exercises forgets the language of the filter
ExpectedOfAll(expected, language, filter, quick) == {t \in expected : filter.quick => t \in quick}

\* expected: what the exercise runner knows, a set of tasks.
Expected(expected, language, filter, quick) ==
  {t \in expected : language \in {NoFilter, t[1]} /\ (filter.quick => t \in quick)}

ModelScores(cache, filter, quick, expected) ==
  LET scores == Scores(cache, [filter EXCEPT !.model = NoFilter, !.exercise = NoFilter], quick)
      names == {ModelKey(s.result) : s \in scores}
      Of(name) == SetToSeq({s \in scores : ModelKey(s.result) = name})
      size == Cardinality(Expected(expected, filter.language, filter, quick))
      Success(name) == Min({1000, Rate(Cardinality({s \in scores : ModelKey(s.result) = name /\ s.result.ok}), size)})
      Mean(name, Score(_)) ==
        LET sum == Summed([i \in DOMAIN Of(name) |-> Score(Of(name)[i])])
        IN IF sum = NaN THEN NaN ELSE sum \div Len(Of(name))
      Best(Score(_)) == Max({0} \cup {Mean(n, Score) : n \in names})
      Norm(name, Score(_)) ==
        IF Best(Score) <= 0 THEN 0
        ELSE IF Mean(name, Score) = NaN THEN NaN ELSE (1000 * Mean(name, Score)) \div Best(Score)
      Speed(s) == s.speed
      Token(s) == s.token
  IN [n \in names |->
       [success |-> Success(n), speed |-> Norm(n, Speed), token |-> Norm(n, Token), runs |-> Len(Of(n)),
        composite |-> Weighted(Success(n), Norm(n, Speed), Norm(n, Token))]]

\* get_completeness_info compares the names of exercises and forgets the language.
CompleteKeys(cache, quickOnly, quick, expected) ==
  LET wanted == {t[2] : t \in IF quickOnly THEN {q \in quick : \E t \in expected : t[1] = q[1]} ELSE expected}
  IN {k \in {ModelKey(r) : r \in cache} : wanted \subseteq {r.exercise : r \in {q \in cache : ModelKey(q) = k}}}

-----------------------------------------------------------------------------
(* The comparison of two models.  A metric is a duration, or a count that  *)
(* is left out when it is 0; Missing stands for "no value".                *)

Missing == -1
Metric(r, metric) == IF metric = "speed" THEN r.dur ELSE IF r.tokens > 0 THEN r.tokens ELSE Missing

\* mutant: a draw goes to the first model
FasterOrFirst(a, b) ==
  IF a = Missing /\ b = Missing THEN "tie"
  ELSE IF b = Missing \/ (a # Missing /\ a <= b) THEN "a" ELSE "b"

Faster(a, b) ==
  IF a = Missing /\ b = Missing THEN "tie"
  ELSE IF b = Missing \/ (a # Missing /\ a < b) THEN "a"
  ELSE IF a = Missing \/ a > b THEN "b" ELSE "tie"

OfModel(cache, key) == {r \in cache : ModelKey(r) = key}

CompareRows(cache, keyA, keyB, metric) ==
  LET rowsA == OfModel(cache, keyA)
      rowsB == OfModel(cache, keyB)
      Value(rows, task) ==
        IF \E r \in rows : Task(r) = task
        THEN Metric(CHOOSE r \in rows : Task(r) = task, metric) ELSE Missing
      tasksA == {Task(r) : r \in rowsA}
      both == {[task |-> t, faster |-> Faster(Value(rowsA, t), Value(rowsB, t))] : t \in tasksA}
      onlyB == {[task |-> t, faster |-> "b"] : t \in {Task(r) : r \in rowsB} \ tasksA}
  IN both \cup onlyB

Wins(rows, side) == Cardinality({w \in rows : w.faster = side})
=============================================================================
