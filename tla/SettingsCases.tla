---------------------------- MODULE SettingsCases ----------------------------
(***************************************************************************)
(* The settings that Computations puts through RunSettings, and what they  *)
(* are to come to.                                                         *)
(***************************************************************************)
EXTENDS RunSettings, Functions

ModelNames == {n \in BoundedSeq({"c", "o", "-", "d", "r", "q", "g"}, 3) : n # <<>>} \cup {<<"d", "-", "f">>}
Words == {None, "off", "minimal", "med", "hi", "max", "xhigh", "bogus"}

Settings ==   \* what the user may have set
  LET Env(names) == [v \in names |-> "set " \o v] IN
  {Env(names) : names \in SUBSET {"OPENAI_BASE_URL", "ANTHROPIC_BASE_URL", "ANTHROPIC_AUTH_TOKEN", "OPENAI_API_KEY"}}
EnvFiles == {<< >>} \cup {<<e, [v \in {"ANTHROPIC_MODEL"} |-> "x"]>> : e \in Settings}
            \cup {<<[v \in {"OPENAI_BASE_URL"} |-> "first"], e>> : e \in Settings}

Parts == BoundedSeq({"a", "b"}, 2)
Globs == UNION {[1..n -> Parts] : n \in 2..3}
GlobNames == BoundedSeq({"a", "b"}, 4)

Endpoints == {NoEndpoint} \cup ToSet(Candidates)
             \cup {[host |-> "gpu-box", port |-> "8000/v1"], [host |-> "0.0.0.0", port |-> "11434/v1"]}

ConfigFiles ==
  [parallelism : 0..1, timeout : {9, 10}, model_load_timeout : {119, 120}, empty : SUBSET {"image", "memory", "results_dir"}]

ServedModels ==
  SUBSET {[id |-> "alias", peer |-> FALSE, status |-> "loaded", serves |-> {"m"}],
          [id |-> "m", peer |-> FALSE, status |-> "unloaded", serves |-> {}],
          [id |-> "p", peer |-> TRUE, status |-> "loaded", serves |-> {}],
          [id |-> "q", peer |-> FALSE, status |-> None, serves |-> {}]}

BuildFiles == {"pom.xml", "build.gradle", "go.mod", "package.json", "Cargo.toml", "Gemfile"}

-----------------------------------------------------------------------------

\* What a glob means: the name can be cut into the parts and anything between them.
Glob(pattern, name) ==
  \E starts \in [DOMAIN pattern -> 0..Len(name)] :
    /\ \A i \in DOMAIN pattern : Fits(pattern[i], name, starts[i])
    /\ \A i \in DOMAIN pattern : i > 1 => starts[i - 1] + Len(pattern[i - 1]) <= starts[i]
    /\ starts[1] = 0 /\ starts[Len(pattern)] + Len(Last(pattern)) = Len(name)

\* A name matches every pattern it should, and another one only where the pattern's
\* end overlaps what comes before it, which no registered pattern can: they end in a
\* star (ReasoningRegistry::pattern_matches).
GlobsMatch(pattern, name) ==
  /\ Glob(pattern, name) => PatternMatches(pattern, name)
  /\ Last(pattern) = <<>> => (PatternMatches(pattern, name) => Glob(pattern, name))
  /\ PatternMatches(pattern, name) => IsPrefix(pattern[1], name) /\ IsSuffix(Last(pattern), name)

\* How much a provider thinks at a value it is sent.
Effort(value) ==
  CASE value \in {"none", "disabled", "false"} -> 0 [] value = "low" -> 1 [] value = "medium" -> 2
    [] value \in {"high", "true"} -> 3 [] value = "max" -> 4

\* pi is told of one provider, in its arguments and in its models.json, that provider's
\* endpoint is the user's if there is one, and the level the user asked for reaches the
\* provider: a word is a level or nothing, a higher level never thinks less, and off
\* stops a model that can be stopped.  A name with a family of its own gets that
\* family's settings whatever was registered before, and the family keeps its provider
\* unless the name also contains an Anthropic word (create_models_json, lookup).
PiIsTold(name, level, env) ==
  LET file == ModelsJson(DefaultRegistry, name, level, env)
      command == PiCommand(name, level)
      config == GetForModel(DefaultRegistry, name)
      own == IF file.provider = "anthropic" THEN "ANTHROPIC_BASE_URL" ELSE "OPENAI_BASE_URL"
      Place(word) == CHOOSE i \in DOMAIN Levels : Levels[i] = word
  IN /\ command.provider = file.provider /\ command.model = file.model
     /\ own \in DOMAIN env => file.url = env[own]
     /\ file.provider = "openai" => file.url # "set ANTHROPIC_BASE_URL"
     /\ file.reasoning <=> ParseLevel(level) # None
     /\ \A l, k \in DOMAIN file.map : Place(l) <= Place(k) => Effort(file.map[l]) <= Effort(file.map[k])
     /\ DOMAIN file.map # {} => Effort(file.map["off"]) = 0 \/ Head(name) = "g"
     /\ Lookup(DefaultRegistry, name) = NoConfig =>
          (file.provider = "anthropic" <=> config.mechanism = "anthropic")
     /\ ~Contains_(name, "c") => file.provider = "openai" /\ config.mechanism # "anthropic"
     /\ name = <<"d", "-", "f">> => config.map["xhigh"] = "max"

\* What was registered for exactly this name wins; otherwise nothing that matches is
\* longer than what is taken, and of equals the latest is taken (lookup).
LookupPrefers(patterns, name) ==
  LET registry == [i \in DOMAIN patterns |-> Registered(patterns[i], Reasoning(ToString(i), None, NoMap))]
      matching == {i \in DOMAIN patterns : Starred(patterns[i]) /\ PatternMatches(patterns[i], name)}
      exact == {i \in DOMAIN patterns : patterns[i] = <<name>>}
      best == {i \in matching : \A j \in matching : Specificity(patterns[j]) <= Specificity(patterns[i])}
      wanted == IF exact # {} THEN exact ELSE best
      found == Lookup(registry, name)
  IN IF wanted = {} THEN found = NoConfig
     ELSE found = registry[CHOOSE i \in wanted : \A j \in wanted : i <= j].config

\* The container is given an address of the model server: the user's own wherever there
\* is one, else that of the endpoint when it is on this machine, else the default; and
\* no Anthropic address is ever made up.  An endpoint the user named is not probed for,
\* the first candidate that answers is taken, and naming the model touches only the
\* variables that are there (resolve_endpoints, environment_with_defaults,
\* update_model_environment).
ServerIsReached(configured, answering, environment) ==
  LET user == EnvironmentMap(environment)
      resolved == ResolveEndpoints(configured, answering, environment)
      given == EnvironmentWithDefaults(UpdateModelEnvironment(resolved.environment, "m"))
  IN /\ configured # NoEndpoint => resolved.endpoint = configured
     /\ configured = NoEndpoint /\ resolved.endpoint # NoEndpoint =>
          \A i \in DOMAIN Candidates :
            Candidates[i] \in answering => \E j \in 1..i : Candidates[j] = resolved.endpoint
     /\ \A v \in DOMAIN user : given[v] = IF v = "ANTHROPIC_MODEL" THEN "m" ELSE user[v]
     /\ DOMAIN given \subseteq DOMAIN user \cup {"OPENAI_BASE_URL"}
     /\ "OPENAI_BASE_URL" \notin DOMAIN user =>
          given["OPENAI_BASE_URL"] =
            IF resolved.endpoint.host \in Loopback THEN "host:" \o resolved.endpoint.port ELSE "host:8080/v1"

\* A configuration is refused exactly when a rule is broken, and then for the first; a
\* file that is there is never replaced by the defaults (validate, load_or_default).
ConfigIsChecked(state, config) ==
  LET loaded == LoadOrDefault(state, config, [config EXCEPT !.parallelism = 1])
  IN /\ state = "readable" => loaded.config = config /\ loaded.from_file
     /\ state \in {"unreadable", "malformed"} => loaded = NoConfig
     /\ Validate(config) = "ok" <=>
          config.parallelism > 0 /\ config.timeout >= 10 /\ config.model_load_timeout >= 120 /\ config.empty = {}
     /\ Validate(config) = "results_dir" =>
          Validate([config EXCEPT !.empty = {}]) = "ok"

\* A peer or a model the server does not list is not waited for, and an alias is up
\* when what it serves is (classify, serving_ids, running_state).
ServerIsUnderstood(models, id) ==
  LET running == {[model |-> r.id, state |-> "ready"] : r \in {q \in models : q.status = "unloaded"}}
      serving == ServingIds(models, id)
  IN /\ (\A r \in models : r.id # id) => Classify(models, id) = "unknown" /\ serving = {id}
     /\ Classify(models, id) = "not_loaded" => \E r \in models : r.id = id /\ ~r.peer /\ r.status # None
     /\ id = "alias" /\ {"alias", "m"} \subseteq {r.id : r \in models} => RunningStates(running, serving) = {"ready"}

\* A result file is found again where it was written, in its run directory or in one of
\* its category, its trace by its own exercise's name, and only a success whose file is
\* in the run directory bounds a retry, by no more than it took, rounded down to a
\* whole second but at least one (derive_run_directory, derive_trace_prefix,
\* compute_retry_timeout).
FilesAreFound(category, success, ms) ==
  LET dirs == <<"results", "pi-m">> \o (IF category = "" THEN <<>> ELSE <<category>>)
      limit == RetryTimeout({[key |-> "k", category |-> category, success |-> success, ms |-> ms]}, "k")
  IN /\ DeriveRunDirectory(Append(dirs, "file")) = "pi-m"
     /\ DeriveTracePrefix(<<"result", "pi", "go", "series">>) = <<"go", "series">>
     /\ limit > 0 <=> success /\ category = ""
     /\ limit > 1 => limit * 1000 <= ms /\ ms < (limit + 1) * 1000
     /\ RetryTimeout({[key |-> "other", category |-> "", success |-> TRUE, ms |-> ms]}, "k") = 0

\* The workspace is prepared with the tool that tests it, unless the exercise has the
\* build files of two tools (get_prepare_command, get_test_command).
WorkspaceIsPrepared(language, files) ==
  LET prepare == PrepareTool(language, files) test == TestTool(language, files)
  IN /\ prepare \notin {None, "uv"} /\ Cardinality(files) = 1 => prepare = test
     /\ language = "python" /\ files = {} => prepare = test
     /\ files \cap {b.file : b \in ToSet(Builders)} # {} => test # "false"
=============================================================================
