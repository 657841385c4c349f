------------------------------ MODULE RunSettings ------------------------------
(***************************************************************************)
(* How a run's settings are put together: the configuration and its rules  *)
(* (config/mod.rs), the inference endpoint (endpoint.rs), the reasoning    *)
(* registry (reasoning.rs), pi's models.json and command line (pi.rs), what*)
(* a model server says of a model (model_load.rs) and the names of result  *)
(* files (load.rs).  A model name is a sequence of letters, a pattern the  *)
(* sequence of its parts between the stars; upper case is left out.        *)
(***************************************************************************)
EXTENDS Integers, FiniteSets, FiniteSetsExt, SequencesExt

None == "none"   \* an Option that is None
NoConfig == [config |-> None]
NoEndpoint == [host |-> None, port |-> None]

-----------------------------------------------------------------------------
(* Configuration.                                                          *)

\* Config::validate: the rules, in order.
MinModelLoadTimeout == 120
BrokenRules(c) ==
  SelectSeq(<<"parallelism", "image", "timeout", "memory", "model_load_timeout", "results_dir">>,
    LAMBDA rule :
      CASE rule = "parallelism" -> c.parallelism < 1
        [] rule = "timeout" -> c.timeout < 10
        [] rule = "model_load_timeout" -> c.model_load_timeout < MinModelLoadTimeout
        [] OTHER -> rule \in c.empty)
Validate(c) == IF BrokenRules(c) = <<>> THEN "ok" ELSE Head(BrokenRules(c))

\* load_or_default: only an absent file stands for the defaults.
LoadOrDefault(state, written, default) ==
  CASE state = "missing" -> [config |-> default, from_file |-> FALSE]
    [] state = "readable" -> [config |-> written, from_file |-> TRUE]
    [] state \in {"unreadable", "malformed"} -> NoConfig

\* environment is a sequence of maps (functions of variables): later ones win.
EnvironmentMap(environment) ==
  FoldLeft(LAMBDA env, entry : entry @@ env, << >>, environment)

EnvironmentWithDefaults(environment) ==
  EnvironmentMap(environment) @@ [v \in {"OPENAI_BASE_URL"} |-> "host:8080/v1"]

ModelVariables == {"ANTHROPIC_MODEL", "ANTHROPIC_DEFAULT_OPUS_MODEL"}   \* and two more

\* update_model_environment names the model where a variable is there, and adds none.
UpdateModelEnvironment(environment, model) ==
  [i \in DOMAIN environment |->
    [v \in DOMAIN environment[i] |-> IF v \in ModelVariables THEN model ELSE environment[i][v]]]

-----------------------------------------------------------------------------
(* The inference endpoint: [host, port], local if the host is a loopback.  *)

Loopback == {"localhost", "0.0.0.0"}
Candidates == <<[host |-> "localhost", port |-> "8000/v1"], [host |-> "localhost", port |-> "8080/v1"],
                [host |-> "localhost", port |-> "9931/v1"]>>

\* probe_endpoints: in the order of the candidates, whoever answers first.
Probe(answering) ==
  LET hits == SelectSeq(Candidates, LAMBDA c : c \in answering) IN IF hits = <<>> THEN NoEndpoint ELSE hits[1]

ContainerEndpointFor(endpoint) ==
  IF endpoint.host \in Loopback THEN "host:" \o endpoint.port ELSE None

WithContainerDefault(environment, endpoint) ==
  LET url == ContainerEndpointFor(endpoint) IN
  IF url = None \/ "OPENAI_BASE_URL" \in DOMAIN EnvironmentMap(environment) THEN environment
  ELSE Append(environment, [v \in {"OPENAI_BASE_URL"} |-> url])

\* resolve_endpoints.
ResolveEndpoints(configured, answering, environment) ==
  LET endpoint == IF configured # NoEndpoint THEN configured ELSE Probe(answering)
  IN [endpoint |-> endpoint,
      environment |-> IF endpoint = NoEndpoint THEN environment ELSE WithContainerDefault(environment, endpoint)]

-----------------------------------------------------------------------------
(* The reasoning registry.                                                 *)

\* A part of a pattern, at a position of the name or after it; -1 stands for no match.
Fits(part, name, pos) == pos + Len(part) <= Len(name) /\ SubSeq(name, pos + 1, pos + Len(part)) = part

MatchPart(pattern, name, pos, i) ==
  LET part == pattern[i]
      places == {p \in pos..Len(name) : Fits(part, name, p)}
  IN IF pos = -1 \/ part = <<>> THEN pos
     ELSE IF i = 1 THEN IF Fits(part, name, 0) THEN Len(part) ELSE -1
     ELSE IF i = Len(pattern) THEN IF IsSuffix(part, name) THEN pos ELSE -1
     ELSE IF places = {} THEN -1 ELSE (CHOOSE p \in places : \A q \in places : p <= q) + Len(part)

\* mutant: the parts may stand anywhere
MatchesAnywhere(pattern, name) ==
  \A i \in DOMAIN pattern : \E p \in 0..Len(name) : Fits(pattern[i], name, p)

PatternMatches(pattern, name) ==
  FoldLeftDomain(LAMBDA pos, i : MatchPart(pattern, name, pos, i), 0, pattern) # -1

Starred(pattern) == Len(pattern) > 1
Specificity(pattern) == FoldLeft(LAMBDA sum, part : sum + Len(part), Len(pattern) - 1, pattern)

\* lookup: an exact match, or else the longest glob; the latest registration comes first.
Lookup(registry, name) ==
  LET exact == SelectSeq(registry, LAMBDA e : e.pattern = <<name>>)
      globs == SelectSeq(registry, LAMBDA e : Starred(e.pattern) /\ PatternMatches(e.pattern, name))
      best == SelectSeq(globs, LAMBDA e : \A g \in ToSet(globs) : Specificity(g.pattern) <= Specificity(e.pattern))
  IN IF exact # <<>> THEN exact[1].config ELSE IF best # <<>> THEN best[1].config ELSE NoConfig

Contains_(name, letter) == letter \in ToSet(name)

\* The letter c stands for claude, sonnet, opus and haiku; o for the o-series; d for
\* deepseek and r for r1 or chat; q for qwen3, g for glm.
IsAnthropicModel(name) == Contains_(name, "c")

Detect(name) ==
  IF IsAnthropicModel(name) THEN "anthropic"
  ELSE IF name # <<>> /\ Head(name) = "o" THEN "openai"
  ELSE IF Contains_(name, "d") /\ Contains_(name, "r") THEN "native" ELSE "custom"

Levels == <<"off", "minimal", "low", "medium", "high", "xhigh">>
ParseLevel(word) ==
  CASE word \in ToSet(Levels) -> word
    [] word = "min" -> "minimal" [] word = "med" -> "medium" [] word = "hi" -> "high"
    [] word \in {"max", "maximum"} -> "xhigh"
    [] OTHER -> None

LevelMap(off, minimal, low, medium, high, xhigh) ==
  [level \in ToSet(Levels) |->
    CASE level = "off" -> off [] level = "minimal" -> minimal [] level = "low" -> low
      [] level = "medium" -> medium [] level = "high" -> high [] level = "xhigh" -> xhigh]
NoMap == << >>

Reasoning(mechanism, format, map) == [mechanism |-> mechanism, format |-> format, map |-> map]
OpenAiMap == LevelMap("disabled", "low", "low", "medium", "high", "high")
OnOffMap == LevelMap("false", "true", "true", "true", "true", "true")
HighMaxMap == LevelMap("none", "high", "high", "high", "high", "max")
GlmMap == LevelMap("low", "low", "low", "high", "max", "max")

DefaultForMechanism(mechanism) ==
  IF mechanism = "openai" THEN Reasoning("openai", "openai", OpenAiMap) ELSE Reasoning(mechanism, None, NoMap)

Registered(pattern, config) == [pattern |-> pattern, config |-> config]

\* register_defaults, the last registration first.
DefaultRegistry ==
  <<Registered(<<<<"g">>, <<>>>>, Reasoning("custom", "openai", GlmMap)),
    Registered(<<<<"d", "-", "f">>>>, Reasoning("custom", "openai", HighMaxMap)),
    Registered(<<<<"d", "-">>, <<>>>>, Reasoning("custom", "openai", HighMaxMap)),
    Registered(<<<<"q", "-">>, <<>>>>, Reasoning("custom", "qwen", OnOffMap)),
    Registered(<<<<"o", "-">>, <<>>>>, Reasoning("openai", "openai", OpenAiMap)),
    Registered(<<<<"c">>>>, Reasoning("anthropic", None, NoMap)),
    Registered(<<<<"c", "-">>, <<>>>>, Reasoning("anthropic", None, NoMap))>>

GetForModel(registry, name) ==
  IF Lookup(registry, name) # NoConfig THEN Lookup(registry, name) ELSE DefaultForMechanism(Detect(name))

-----------------------------------------------------------------------------
(* pi.                                                                     *)

ProviderKey(name) == IF IsAnthropicModel(name) THEN "anthropic" ELSE "openai"
Or(env, variables, default) ==
  LET set == SelectSeq(variables, LAMBDA v : v \in DOMAIN env) IN IF set = <<>> THEN default ELSE env[set[1]]

\* create_models_json.
ModelsJson(registry, name, level, env) ==
  LET config == GetForModel(registry, name)
      thinks == level # None /\ ParseLevel(level) # None
  IN [provider |-> ProviderKey(name), model |-> name,
      url |-> IF IsAnthropicModel(name) THEN Or(env, <<"ANTHROPIC_BASE_URL">>, "host:8080")
              ELSE Or(env, <<"OPENAI_BASE_URL">>, "host:8080/v1"),
      key |-> IF IsAnthropicModel(name) THEN Or(env, <<"ANTHROPIC_AUTH_TOKEN", "ANTHROPIC_API_KEY">>, "placeholder-key")
              ELSE Or(env, <<"OPENAI_API_KEY", "ANTHROPIC_AUTH_TOKEN">>, "placeholder-key"),
      reasoning |-> thinks, format |-> IF thinks THEN config.format ELSE None,
      map |-> IF thinks THEN config.map ELSE NoMap]

\* build_pi_command; the level is passed on as it was given.
PiCommand(name, level) == [provider |-> ProviderKey(name), model |-> name, thinking |-> level]

-----------------------------------------------------------------------------
(* A model server: /models lists records [id, peer, status, serves], and   *)
(* /running names upstream models with a state.                            *)

Classify(models, id) ==
  LET records == {r \in models : r.id = id}
      record == CHOOSE r \in records : TRUE
  IN IF records = {} THEN "unknown"
     ELSE IF record.peer THEN "remote"
     ELSE IF record.status = None THEN "unknown"
     ELSE IF record.status = "loaded" THEN "loaded" ELSE "not_loaded"

\* The model itself, and what an alias or a selector names.
ServingIds(models, id) == {id} \cup UNION {r.serves : r \in {q \in models : q.id = id}}

\* The states of the entries that /running may name; one of them is taken.
RunningStates(running, ids) == {e.state : e \in {f \in running : f.model \in ids}}

-----------------------------------------------------------------------------
(* Result files.  A path is the sequence of its directories and its name.  *)

CategoryNames == {"aoc2015", "polyglot"}

DeriveRunDirectory(path) ==
  LET dirs == SelectSeq(Front(path), LAMBDA name : name \notin CategoryNames)
  IN IF dirs # <<>> THEN Last(dirs) ELSE Last(Front(path))

\* derive_trace_prefix: result_<agent>_<rest>.json, as the sequence of its words.
DeriveTracePrefix(words) ==
  IF Head(words) # "result" THEN words ELSE IF Len(words) > 2 THEN SubSeq(words, 3, Len(words)) ELSE Tail(words)

\* compute_retry_timeout: a success may take as long again as it took, in whole seconds;
\* 0 stands for None.  Only results outside the category directories are found.
RetryTimeout(files, key) ==
  LET succeeded == {f \in files : f.key = key /\ f.category = "" /\ f.success}
  IN MapThenSumSet(LAMBDA f : IF f.ms < 1000 THEN 1 ELSE f.ms \div 1000, succeeded)

-----------------------------------------------------------------------------
(* The reference agent's workspace: the commands that the build files of   *)
(* an exercise call for, named by their tool.                              *)

\* get_prepare_command asks the language first, and only then the files.
PrepareTool(language, files) ==
  CASE language \in {"javascript", "typescript"} /\ "package.json" \in files -> "npm"
    [] language = "python" -> "uv"
    [] language = "java" /\ "build.gradle" \in files -> "gradle"
    [] language = "java" /\ "build.gradle" \notin files /\ "pom.xml" \in files -> "mvn"
    [] language = "go" /\ "go.mod" \in files -> "go"
    [] OTHER -> None

Builders ==
  <<[file |-> "pom.xml", tool |-> "mvn"], [file |-> "build.gradle", tool |-> "gradle"],
    [file |-> "go.mod", tool |-> "go"], [file |-> "package.json", tool |-> "npm"],
    [file |-> "CMakeLists.txt", tool |-> "cmake"], [file |-> "Cargo.toml", tool |-> "cargo"]>>

\* get_test_command asks the files first; "false" is the command that fails.
TestTool(language, files) ==
  LET built == SelectSeq(Builders, LAMBDA b : b.file \in files) IN
  IF built # <<>> THEN built[1].tool
  ELSE IF language = "python" THEN "uv"
  ELSE IF "Gemfile" \in files THEN "bundle"
  ELSE IF "a.csproj" \in files THEN "dotnet" ELSE "false"
=============================================================================
