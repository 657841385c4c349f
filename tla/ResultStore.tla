------------------------------ MODULE ResultStore ------------------------------
(***************************************************************************)
(* The result files and the cache in front of them.  A run of an exercise  *)
(* ends in ResultPersister::save_result (persistence/mod.rs), which reads  *)
(* the file of the exercise, decides, and writes it in place, and then in  *)
(* ResultService::update_single_result.  Full loads (load_all_results of   *)
(* result_service/load.rs) run beside it: one when the server starts, and  *)
(* one at a time for POST /api/results/refresh.  Nothing locks the files.  *)
(*                                                                         *)
(* Any read of a file may fail: the run that was to save a result then     *)
(* takes the file for a new one, a load leaves it out.  A duration goes to *)
(* the file in seconds, as a float, and comes back cut to milliseconds.    *)
(***************************************************************************)
EXTENDS Naturals, FiniteSets

CONSTANTS
  Keys,       \* result files, one for each run directory, language and exercise
  ModelOf,    \* Keys -> the model of the run directory
  Writers,    \* workers that save results
  KeyOf,      \* Writers -> the exercise the worker runs
  Results,    \* Writers -> what its runs may end with: success and duration_ms
  Truncated,  \* the durations that are read back one millisecond short
  MaxRuns,    \* bound: Writers -> runs of each worker
  MaxCrashes, \* bound
  MaxUnread   \* bound: reads that fail

ASSUME StoreAssumption ==
  /\ IsFiniteSet(Keys) /\ KeyOf \in [Writers -> Keys]
  /\ Results \in [Writers -> SUBSET [success : BOOLEAN, duration : Nat \ {0}]]
  /\ Truncated \subseteq Nat \ {0, 1}
  /\ MaxRuns \in [Writers -> Nat] /\ MaxCrashes \in Nat /\ MaxUnread \in Nat

VARIABLES
  file,    \* Keys -> the result file
  wpc,     \* Writers -> where save_single_result is
  new,     \* Writers -> the result to save
  out,     \* Writers -> what save_result has decided to write
  got,     \* Writers -> what update_single_result has read
  runs,    \* Writers -> runs so far
  cache,   \* cached_results
  models,  \* cached_models
  count,   \* result_count
  lpc,     \* Loads -> where load_all_results is
  listed,  \* Loads -> files found and not read yet
  loaded,  \* Loads -> entries read
  due,     \* is the last refresh more than 5 seconds ago?
  crashes, unread,
  best,    \* history: Keys -> fastest success that was written, or 0
  tries,   \* history: Keys -> runs that were written
  blind,   \* history: writers that could not read the file they are to write
  overlap, \* history: Loads -> keys that were being saved during the load, or unreadable
  alone,   \* history: writers that have saved and met no load
  stale    \* history: keys whose last save or load has met the other, or could not read

Loads == {"startup", "refresh"}

writerVars == <<wpc, new, out, got, runs, blind>>
cacheVars == <<cache, models, count>>
meetVars == <<overlap, alone, stale>>
loadVars == <<lpc, listed, loaded, due, meetVars>>
diskVars == <<file, best, tries>>
vars == <<diskVars, writerVars, cacheVars, loadVars, crashes, unread>>

Outcomes == UNION {Results[w] : w \in Writers}
NoResult == [success |-> FALSE, duration |-> 0]

\* A file: kind is "absent", "torn" (created or truncated, not written) or "whole".
File(kind, r, attempts) ==
  [kind |-> kind, success |-> r.success, duration |-> r.duration, attempts |-> attempts]
Absent == File("absent", NoResult, 0)
Torn == File("torn", NoResult, 0)
Stored(f) == [success |-> f.success, duration |-> f.duration]
Files == {Absent, Torn} \cup
  {f \in [kind : {"whole"}, success : BOOLEAN, duration : Nat, attempts : Nat] : Stored(f) \in Outcomes}

\* (f * 1000.0) as u64 of duration_ms as f64 / 1000.0.
ReadBack(d) == IF d \in Truncated THEN d - 1 ELSE d
\* What load_cached_result makes of a file; NoResult stands for "no entry".
Entry(f) == [success |-> f.success, duration |-> ReadBack(f.duration)]
Entries == {Entry(r) : r \in Outcomes} \cup {NoResult}

WriterPc == {"idle", "open", "write", "load", "insert", "model"}
LoadPc == {"idle", "list", "read", "models"}

TypeOK ==
  /\ file \in [Keys -> Files]
  /\ wpc \in [Writers -> WriterPc]
  /\ new \in [Writers -> Outcomes \cup {NoResult}] /\ got \in [Writers -> Entries]
  /\ out \in [Writers -> Files]
  /\ runs \in [Writers -> Nat] /\ \A w \in Writers : runs[w] <= MaxRuns[w]
  /\ cache \in [Keys -> Entries]
  /\ models \subseteq {ModelOf[k] : k \in Keys}
  /\ count \in 0..Cardinality(Keys)
  /\ lpc \in [Loads -> LoadPc]
  /\ listed \in [Loads -> SUBSET Keys]
  /\ loaded \in [Loads -> [Keys -> Entries]]
  /\ due \in BOOLEAN /\ crashes \in 0..MaxCrashes /\ unread \in 0..MaxUnread
  /\ best \in [Keys -> Nat] /\ tries \in [Keys -> Nat] /\ blind \subseteq Writers
  /\ overlap \in [Loads -> SUBSET Keys] /\ alone \subseteq Writers /\ stale \subseteq Keys

\* ResultService::new: the background load is under way, everything is empty.
Started ==
  /\ wpc' = [w \in Writers |-> "idle"]
  /\ new' = [w \in Writers |-> NoResult] /\ got' = [w \in Writers |-> NoResult]
  /\ out' = [w \in Writers |-> Absent]
  /\ cache' = [k \in Keys |-> NoResult] /\ models' = {} /\ count' = 0
  /\ lpc' = [l \in Loads |-> IF l = "startup" THEN "list" ELSE "idle"]
  /\ listed' = [l \in Loads |-> {}]
  /\ loaded' = [l \in Loads |-> [k \in Keys |-> NoResult]]
  /\ due' = TRUE
  /\ blind' = {} /\ overlap' = [l \in Loads |-> {}] /\ alone' = {} /\ stale' = {}

Init ==
  /\ file = [k \in Keys |-> Absent]
  /\ wpc = [w \in Writers |-> "idle"]
  /\ new = [w \in Writers |-> NoResult] /\ got = [w \in Writers |-> NoResult]
  /\ out = [w \in Writers |-> Absent]
  /\ runs = [w \in Writers |-> 0]
  /\ cache = [k \in Keys |-> NoResult] /\ models = {} /\ count = 0
  /\ lpc = [l \in Loads |-> IF l = "startup" THEN "list" ELSE "idle"]
  /\ listed = [l \in Loads |-> {}]
  /\ loaded = [l \in Loads |-> [k \in Keys |-> NoResult]]
  /\ due = TRUE /\ crashes = 0 /\ unread = 0
  /\ best = [k \in Keys |-> 0] /\ tries = [k \in Keys |-> 0] /\ blind = {}
  /\ overlap = [l \in Loads |-> {}] /\ alone = {} /\ stale = {}

-----------------------------------------------------------------------------
(* save_result and update_single_result. *)

Quiet == \A l \in Loads : lpc[l] = "idle"

ReadFails == unread < MaxUnread /\ unread' = unread + 1

Busy(k) == \E w \in Writers : KeyOf[w] = k /\ wpc[w] # "idle"

\* Never a failure over a success, nor a success that is not faster than the
\* one in the file reads; the attempts are counted even when the result is not kept.
LastWins(old, r) == TRUE  \* mutated: the best result is not kept
Better(old, r) == ~old.success \/ (r.success /\ r.duration < ReadBack(old.duration))
Kept(old, r) == IF Better(old, r) THEN r ELSE Stored(old)
Begun(r) == File("whole", r, 1)
Merged(old, r) ==
  IF old.kind = "whole" THEN File("whole", Kept(old, r), old.attempts + 1) ELSE Begun(r)

\* A run has ended: the file is read and what to write is decided.  A file that
\* is there but cannot be read is taken for a new one.
Decide(w) ==
  /\ wpc[w] = "idle" /\ runs[w] < MaxRuns[w]
  /\ \E r \in Results[w] :
       /\ new' = [new EXCEPT ![w] = r]
       /\ \/ /\ out' = [out EXCEPT ![w] = Merged(file[KeyOf[w]], r)]
             /\ UNCHANGED <<blind, unread>>
          \/ /\ file[KeyOf[w]].kind # "absent" /\ ReadFails
             /\ out' = [out EXCEPT ![w] = Begun(r)]
             /\ blind' = blind \cup {w}
  /\ wpc' = [wpc EXCEPT ![w] = "open"]
  /\ runs' = [runs EXCEPT ![w] = @ + 1]
  /\ overlap' = [l \in Loads |-> IF lpc[l] = "idle" THEN overlap[l] ELSE overlap[l] \cup {KeyOf[w]}]
  /\ alone' = IF Quiet THEN alone \cup {w} ELSE alone \ {w}
  /\ UNCHANGED <<diskVars, got, cacheVars, lpc, listed, loaded, due, stale, crashes>>

\* fs::write truncates the file first ...
Truncate(w) ==
  /\ wpc[w] = "open"
  /\ file' = [file EXCEPT ![KeyOf[w]] = Torn]
  /\ wpc' = [wpc EXCEPT ![w] = "write"]
  /\ UNCHANGED <<best, tries, new, out, got, runs, blind, cacheVars, loadVars, crashes, unread>>

\* What the file is to amount to with this run: one that could not read it begins it again.
Fastest(w, k) ==
  LET before == IF w \in blind THEN 0 ELSE best[k]
  IN IF new[w].success /\ (before = 0 \/ new[w].duration < before) THEN new[w].duration ELSE before
Counted(w, k) == IF w \in blind THEN 1 ELSE tries[k] + 1

\* The locals of save_result go out of scope.
Forget(w) ==
  /\ new' = [new EXCEPT ![w] = NoResult] /\ out' = [out EXCEPT ![w] = Absent]
  /\ blind' = blind \ {w}

\* ... and then writes it.
Write(w) ==
  /\ wpc[w] = "write"
  /\ file' = [file EXCEPT ![KeyOf[w]] = out[w]]
  /\ best' = [best EXCEPT ![KeyOf[w]] = Fastest(w, KeyOf[w])]
  /\ tries' = [tries EXCEPT ![KeyOf[w]] = Counted(w, KeyOf[w])]
  /\ wpc' = [wpc EXCEPT ![w] = "load"]
  /\ Forget(w)
  /\ UNCHANGED <<got, runs, cacheVars, loadVars, crashes, unread>>

\* The file cannot be opened, or not be written: the result is reported as lost.
\* In the second case so is what the file held.
WriteFails(w) ==
  /\ wpc[w] \in {"open", "write"}
  /\ wpc' = [wpc EXCEPT ![w] = "idle"]
  /\ IF wpc[w] = "open"
       THEN UNCHANGED <<best, tries>>
       ELSE best' = [best EXCEPT ![KeyOf[w]] = 0] /\ tries' = [tries EXCEPT ![KeyOf[w]] = 0]
  /\ Forget(w)
  /\ UNCHANGED <<file, got, runs, cacheVars, loadVars, crashes, unread>>

\* update_single_result reads the file back, outside the lock of the cache ...
LoadSingle(w) ==
  /\ wpc[w] = "load"
  /\ \/ /\ got' = [got EXCEPT ![w] = Entry(file[KeyOf[w]])]
        /\ wpc' = [wpc EXCEPT ![w] = IF file[KeyOf[w]].kind = "whole" THEN "insert" ELSE "idle"]
        /\ UNCHANGED <<stale, unread>>
     \/ /\ ReadFails
        /\ wpc' = [wpc EXCEPT ![w] = "idle"]
        /\ stale' = stale \cup {KeyOf[w]}
        /\ UNCHANGED got
  /\ UNCHANGED <<diskVars, new, out, runs, blind, cacheVars, lpc, listed, loaded, due, overlap, alone, crashes>>

InsertNew(w) ==  \* mutated: an entry that is there is left alone
  /\ wpc[w] = "insert"
  /\ cache' = [cache EXCEPT ![KeyOf[w]] = IF @ = NoResult THEN got[w] ELSE @]
  /\ got' = [got EXCEPT ![w] = NoResult]
  /\ wpc' = [wpc EXCEPT ![w] = "model"]
  /\ UNCHANGED <<diskVars, new, out, runs, blind, models, count, loadVars, crashes, unread>>

\* ... inserts it ...
InsertSingle(w) ==
  /\ wpc[w] = "insert"
  /\ cache' = [cache EXCEPT ![KeyOf[w]] = got[w]]
  /\ got' = [got EXCEPT ![w] = NoResult]
  /\ wpc' = [wpc EXCEPT ![w] = "model"]
  /\ UNCHANGED <<diskVars, new, out, runs, blind, models, count, loadVars, crashes, unread>>

\* ... and its model.
AddModel(w) ==
  /\ wpc[w] = "model"
  /\ models' = models \cup {ModelOf[KeyOf[w]]}
  /\ wpc' = [wpc EXCEPT ![w] = "idle"]
  /\ stale' = IF w \in alone THEN stale \ {KeyOf[w]} ELSE stale \cup {KeyOf[w]}
  /\ UNCHANGED <<diskVars, new, out, got, runs, blind, cache, count, lpc, listed, loaded, due, overlap,
                 alone, crashes, unread>>

Save(w) ==
  \/ Decide(w) \/ Truncate(w) \/ Write(w) \/ WriteFails(w)
  \/ LoadSingle(w) \/ InsertSingle(w) \/ AddModel(w)

-----------------------------------------------------------------------------
(* load_all_results. *)

\* refresh_cache: at most one, and not within 5 seconds of the last.
BeginRefresh ==
  /\ lpc["refresh"] = "idle" /\ due
  /\ lpc' = [lpc EXCEPT !["refresh"] = "list"]
  /\ overlap' = IF lpc["startup"] = "idle"
                  THEN [overlap EXCEPT !["refresh"] = {k \in Keys : Busy(k)}]
                  ELSE [l \in Loads |-> Keys]
  /\ alone' = {}
  /\ UNCHANGED <<diskVars, writerVars, cacheVars, listed, loaded, due, stale, crashes, unread>>

\* A directory that cannot be read is passed over, with the files in it.
ListFiles(l) ==
  /\ lpc[l] = "list"
  /\ LET present == {k \in Keys : file[k].kind # "absent"}
     IN \/ listed' = [listed EXCEPT ![l] = present] /\ UNCHANGED <<overlap, unread>>
        \/ /\ ReadFails
           /\ \E missed \in SUBSET present :
                /\ listed' = [listed EXCEPT ![l] = present \ missed]
                /\ overlap' = [overlap EXCEPT ![l] = @ \cup missed]
  /\ lpc' = [lpc EXCEPT ![l] = "read"]
  /\ UNCHANGED <<diskVars, writerVars, cacheVars, loaded, due, alone, stale, crashes>>

\* A rayon thread reads one file; one that it cannot read, or that does not parse,
\* is left out.
ReadFile(l, k) ==
  /\ lpc[l] = "read" /\ k \in listed[l]
  /\ listed' = [listed EXCEPT ![l] = @ \ {k}]
  /\ \/ loaded' = [loaded EXCEPT ![l][k] = Entry(file[k])] /\ UNCHANGED <<overlap, unread>>
     \/ /\ ReadFails
        /\ overlap' = [overlap EXCEPT ![l] = @ \cup {k}]
        /\ UNCHANGED loaded
  /\ UNCHANGED <<diskVars, writerVars, cacheVars, lpc, due, alone, stale, crashes>>

\* Entries of files that are gone or were left out stay as they were.
InsertAll(l) ==
  /\ lpc[l] = "read" /\ listed[l] = {}
  /\ cache' = [k \in Keys |-> IF loaded[l][k] = NoResult THEN cache[k] ELSE loaded[l][k]]
  /\ lpc' = [lpc EXCEPT ![l] = "models"]
  /\ UNCHANGED <<diskVars, writerVars, models, count, listed, loaded, due, meetVars, crashes, unread>>

Found(l) == {k \in Keys : loaded[l][k] # NoResult}

CountAdded(l) ==  \* mutated: the count is added up
  /\ lpc[l] = "models"
  /\ models' = {ModelOf[k] : k \in Found(l)}
  /\ count' = count + Cardinality(Found(l))
  /\ lpc' = [lpc EXCEPT ![l] = "idle"]
  /\ due' = (l = "startup" /\ due)
  /\ loaded' = [loaded EXCEPT ![l] = [k \in Keys |-> NoResult]]
  /\ stale' = overlap[l]
  /\ overlap' = [overlap EXCEPT ![l] = {}]
  /\ UNCHANGED <<diskVars, writerVars, cache, listed, alone, crashes, unread>>

\* The list of models is replaced, not merged.
ReplaceModels(l) ==
  /\ lpc[l] = "models"
  /\ models' = {ModelOf[k] : k \in Found(l)}
  /\ count' = Cardinality(Found(l))
  /\ lpc' = [lpc EXCEPT ![l] = "idle"]
  /\ due' = (l = "startup" /\ due)
  /\ loaded' = [loaded EXCEPT ![l] = [k \in Keys |-> NoResult]]
  /\ stale' = overlap[l]
  /\ overlap' = [overlap EXCEPT ![l] = {}]
  /\ UNCHANGED <<diskVars, writerVars, cache, listed, alone, crashes, unread>>

Load(l) == ListFiles(l) \/ (\E k \in Keys : ReadFile(l, k)) \/ InsertAll(l) \/ ReplaceModels(l)

\* Five seconds pass.
Tick ==
  /\ ~due
  /\ due' = TRUE
  /\ UNCHANGED <<diskVars, writerVars, cacheVars, lpc, listed, loaded, meetVars, crashes, unread>>

\* The server dies and starts again; a file that was being written stays torn.
Torn_(k) == file[k].kind = "torn"
Crash ==
  /\ crashes < MaxCrashes
  /\ crashes' = crashes + 1
  /\ best' = [k \in Keys |-> IF Torn_(k) THEN 0 ELSE best[k]]
  /\ tries' = [k \in Keys |-> IF Torn_(k) THEN 0 ELSE tries[k]]
  /\ Started
  /\ UNCHANGED <<file, runs, unread>>

Next ==
  \/ \E w \in Writers : Save(w)
  \/ BeginRefresh
  \/ \E l \in Loads : Load(l)
  \/ Tick \/ Crash

Spec == Init /\ [][Next]_vars
=============================================================================
