----------------------------- MODULE ExerciseBatch -----------------------------
(***************************************************************************)
(* A session without an exercise name: execute_all_exercises of            *)
(* services/benchmark_executor.rs, which runs run_all_exercises of         *)
(* exercise_runner/mod.rs for one language after the other.  Exercises are *)
(* taken from a buffered stream, pass the model gate and are run by the    *)
(* agent; their results are counted and saved once the language is over.   *)
(***************************************************************************)
EXTENDS ModelLoadGate, Sequences, SequencesExt

CONSTANTS
  Languages,   \* the exercises of each language, in the order of the session
  Parallelism, \* config.parallelism
  Elsewhere    \* bound: the exercises that another run works on as well

ASSUME BatchAssumption ==
  /\ Languages \in Seq(SUBSET Callers) /\ Languages # <<>>
  /\ \A i, j \in DOMAIN Languages : i # j => Languages[i] \cap Languages[j] = {}
  /\ UNION ToSet(Languages) = Callers
  /\ Parallelism \in Nat /\ Elsewhere \subseteq Callers

VARIABLES
  bpc,     \* where execute_all_exercises is
  lang,    \* the language it is at
  result,  \* Callers -> what became of the exercise
  unsaved, \* results of the language that are still to be saved
  disk,    \* the exercises whose result file says they succeeded
  status,  \* the status of the executor's session copy
  token    \* has the session been cancelled?

sessionVars == <<lang, status, token>>
batchVars == <<bpc, sessionVars, result, unsaved, disk>>
vars == <<gateVars, batchVars>>

TypeOK ==
  /\ GateTypeOK
  /\ bpc \in {"language", "run", "count", "save", "verdict", "finalize", "done"}
  /\ lang \in DOMAIN Languages
  /\ result \in [Callers -> {"none", "skipped", "ok", "failed", "error"}]
  /\ unsaved \subseteq Callers /\ disk \subseteq Callers
  /\ status \in {"RUNNING", "COMPLETED", "FAILED", "CANCELLED"}
  /\ token \in BOOLEAN

Init ==
  /\ GateInit
  /\ bpc = "language" /\ lang = 1
  /\ result = [c \in Callers |-> "none"]
  /\ unsaved = {} /\ disk \in SUBSET Elsewhere
  /\ status = "RUNNING" /\ token = FALSE

exercises == Languages[lang]
running == {c \in exercises : phase[c] \notin {"idle", "over"}}

Limit == IF Parallelism = 0 THEN 1 ELSE Parallelism

-----------------------------------------------------------------------------
(* run_all_exercises. *)

\* The filter is asked when a slot of the buffer is free, not before.
SkipExercise(c) ==
  /\ bpc = "run" /\ c \in exercises /\ Cardinality(running) < Limit
  /\ result[c] = "none" /\ phase[c] = "idle"
  /\ c \in disk
  /\ result' = [result EXCEPT ![c] = "skipped"]
  /\ UNCHANGED <<gateVars, bpc, sessionVars, unsaved, disk>>

StartExercise(c) ==
  /\ bpc = "run" /\ c \in exercises /\ Cardinality(running) < Limit
  /\ result[c] = "none" /\ phase[c] = "idle"
  /\ c \notin disk
  /\ EnterGate(c)
  /\ UNCHANGED batchVars

\* What run_exercise of the agent returns; an Err is logged and dropped.
FinishExercise(c) ==
  /\ phase[c] = "agent"
  /\ phase' = [phase EXCEPT ![c] = "over"]
  /\ \E r \in {"ok", "failed", "error"} : result' = [result EXCEPT ![c] = r]
  /\ UNCHANGED <<lock, started, warmVars, serverVars, bpc, sessionVars, unsaved, disk>>

CollectResults ==
  /\ bpc = "run" /\ \A c \in exercises : result[c] # "none"
  /\ bpc' = "count"
  /\ unsaved' = {c \in exercises : result[c] \in {"ok", "failed"}}
  /\ UNCHANGED <<gateVars, sessionVars, result, disk>>

-----------------------------------------------------------------------------
(* execute_all_exercises. *)

BeginLanguage ==
  /\ bpc = "language"
  /\ bpc' = IF token THEN "finalize" ELSE "run"
  /\ UNCHANGED <<gateVars, sessionVars, result, unsaved, disk>>

CountedLast ==  \* mutated: each language overwrites the status of the one before
  IF \E c \in unsaved : result[c] = "failed" THEN "FAILED" ELSE "RUNNING"
Counted == IF \E c \in unsaved : result[c] = "failed" THEN "FAILED" ELSE status

CountResults ==
  /\ bpc = "count"
  /\ bpc' = "save"
  /\ status' = Counted
  /\ UNCHANGED <<gateVars, lang, token, result, unsaved, disk>>

\* ResultPersister::save_result never replaces a success by a failure.
Saved(c) == IF result[c] = "ok" THEN disk \cup {c} ELSE disk

\* A result that cannot be written is left out.
SaveResult(c) ==
  /\ bpc = "save" /\ c \in unsaved
  /\ unsaved' = unsaved \ {c}
  /\ disk' \in {disk, Saved(c)}
  /\ UNCHANGED <<gateVars, bpc, sessionVars, result>>

EndLanguage ==
  /\ bpc = "save" /\ unsaved = {}
  /\ IF lang < Len(Languages)
       THEN bpc' = "language" /\ lang' = lang + 1
       ELSE bpc' = "verdict" /\ UNCHANGED lang
  /\ UNCHANGED <<gateVars, status, token, result, unsaved, disk>>

Verdict ==
  /\ bpc = "verdict"
  /\ bpc' = "finalize"
  /\ status' = IF status = "FAILED" THEN "FAILED" ELSE "COMPLETED"
  /\ UNCHANGED <<gateVars, lang, token, result, unsaved, disk>>

\* The end of execute: a fired token wins over any other outcome.
Finalize ==
  /\ bpc = "finalize"
  /\ bpc' = "done"
  /\ status' = IF token THEN "CANCELLED" ELSE IF status = "FAILED" THEN "FAILED" ELSE "COMPLETED"
  /\ UNCHANGED <<gateVars, lang, token, result, unsaved, disk>>

Executor ==
  \/ BeginLanguage \/ CollectResults \/ CountResults \/ EndLanguage \/ Verdict \/ Finalize
  \/ \E c \in Callers : SkipExercise(c) \/ StartExercise(c) \/ SaveResult(c)

\* Another run of an exercise, from the queue or from the command line, succeeds.
SucceedElsewhere(c) ==
  /\ c \in Elsewhere \ disk
  /\ disk' = disk \cup {c}
  /\ UNCHANGED <<gateVars, bpc, sessionVars, result, unsaved>>

CancelSession ==
  /\ ~token
  /\ token' = TRUE
  /\ UNCHANGED <<gateVars, bpc, lang, status, result, unsaved, disk>>

Next ==
  \/ Executor
  \/ \E c \in Callers : FinishExercise(c) \/ SucceedElsewhere(c)
  \/ CancelSession
  \/ GateNext /\ UNCHANGED batchVars

Spec == Init /\ [][Next]_vars

(* Tasks run; time passes; an agent ends (DockerRun bounds its container). *)
(* tokio's Mutex is fair, so a caller that waits for load_lock gets it.    *)
(* Nothing is asked of the inference server.                               *)
FairSpec ==
  /\ Spec
  /\ WF_vars(Executor)
  /\ \A c \in Callers :
       /\ WF_vars(FinishExercise(c))
       /\ SF_vars(TakeLock(c) /\ UNCHANGED batchVars)
       /\ WF_vars((AskModels(c) \/ AskRunning(c)) /\ UNCHANGED batchVars)
       /\ SF_vars((AskModels(c) \/ AskRunning(c)) /\ GiveUp(c) /\ UNCHANGED batchVars)
=============================================================================
