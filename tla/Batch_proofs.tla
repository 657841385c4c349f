----------------------------- MODULE Batch_proofs -----------------------------
(***************************************************************************)
(* A session over whole languages, for any exercises, models, parallelism  *)
(* and inference server: its types, that one load is waited for at a time, *)
(* that only the first exercise pays for a load, and that no counted       *)
(* failure is hidden.                                                      *)
(***************************************************************************)
EXTENDS BatchProperties, TLAPS

\* No caller of the gate is between its steps but inside the run of its language,
\* before it has a result.
PhasesInRun ==
  \A c \in Callers :
    phase[c] \notin {"idle", "over"} => bpc = "run" /\ c \in exercises /\ result[c] = "none"

\* A failure is in the language that is being run, or the status shows it.
FailuresCounted ==
  \A c \in Callers : result[c] = "failed" =>
    \/ bpc \in {"run", "count"} /\ c \in exercises
    \/ status = "FAILED"
    \/ bpc = "done" /\ status = "CANCELLED"

\* What is counted is what the language has brought.
UnsavedCounted ==
  bpc = "count" => unsaved = {c \in exercises : result[c] \in {"ok", "failed"}}

BatchInv == TypeOK /\ OneLoad /\ PhasesInRun /\ FailuresCounted /\ UnsavedCounted

LEMMA ExercisesAreCallers ==
  ASSUME TypeOK PROVE exercises \subseteq Callers
BY BatchAssumption DEF TypeOK, exercises

LEMMA BatchInitially == Init => BatchInv
<1> SUFFICES ASSUME Init PROVE BatchInv
  OBVIOUS
<1>1. TypeOK
  <2>1. GateTypeOK
    BY GateAssumption DEF Init, GateInit, GateTypeOK, Phase
  <2>2. lang \in DOMAIN Languages
    <3>1. Len(Languages) \in Nat /\ Len(Languages) # 0 /\ DOMAIN Languages = 1..Len(Languages)
      BY BatchAssumption
    <3> QED BY <3>1 DEF Init
  <2>3. disk \subseteq Callers
    BY BatchAssumption DEF Init
  <2> QED BY <2>1, <2>2, <2>3 DEF Init, TypeOK
<1> QED
  BY <1>1 DEF BatchInv, Init, GateInit, OneLoad, Waiting, PhasesInRun, FailuresCounted, UnsavedCounted

-----------------------------------------------------------------------------
(* The gate: what every step of a caller or the server keeps. *)

\* A step of the gate keeps the types, lets one caller at a time wait, and starts
\* nobody: a caller that moves is inside already and stays there.
GateKeeps ==
  /\ GateTypeOK' /\ OneLoad'
  /\ \A c \in Callers : phase'[c] = phase[c] \/ phase[c] \notin {"idle", "over"}

LEMMA ReturnKeeps ==
  ASSUME GateTypeOK, OneLoad, NEW c \in Callers, phase[c] \in Waiting, Return(c), UNCHANGED serverVars
  PROVE  GateKeeps
BY GateAssumption
   DEF GateTypeOK, OneLoad, Return, serverVars, GateKeeps, Waiting, Phase

LEMMA NotReadyKeeps ==
  ASSUME GateTypeOK, OneLoad, NEW c \in Callers, phase[c] \in Waiting, NotReady(c), UNCHANGED serverVars
  PROVE  GateKeeps
<1>1. CASE BeginLoad(c)
  BY <1>1 DEF BeginLoad, GateTypeOK, OneLoad, serverVars, GateKeeps, Waiting, Phase
<1>2. CASE PollAgain(c)
  BY <1>2 DEF PollAgain, GateTypeOK, OneLoad, serverVars, warmVars, GateKeeps, Waiting, Phase
<1>3. CASE GiveUp(c)
  BY <1>3, ReturnKeeps DEF GiveUp
<1> QED BY <1>1, <1>2, <1>3 DEF NotReady, WaitOn

LEMMA AskKeeps ==
  ASSUME GateTypeOK, OneLoad, NEW c \in Callers, AskModels(c) \/ AskRunning(c)
  PROVE  GateKeeps
<1>1. phase[c] \in Waiting /\ UNCHANGED serverVars
  BY DEF AskModels, AskRunning, Waiting
<1>2. CASE Return(c)
  BY <1>1, <1>2, ReturnKeeps
<1>3. CASE NotReady(c)
  BY <1>1, <1>3, NotReadyKeeps
<1>4. CASE phase' = [phase EXCEPT ![c] = "running"] /\ UNCHANGED <<lock, started, warmVars>>
  BY <1>1, <1>4 DEF GateTypeOK, OneLoad, serverVars, warmVars, GateKeeps, Waiting, Phase
<1>5. Return(c) \/ NotReady(c) \/ (phase' = [phase EXCEPT ![c] = "running"] /\ UNCHANGED <<lock, started, warmVars>>)
  <2>1. CASE AskModels(c)
    <3>1. NotOurs(c) => Return(c) \/ NotReady(c)
      BY DEF NotOurs, NotReady
    <3> QED BY <2>1, <3>1 DEF AskModels
  <2>2. CASE AskRunning(c)
    BY <2>2 DEF AskRunning
  <2> QED BY <2>1, <2>2
<1> QED BY <1>2, <1>3, <1>4, <1>5

LEMMA GateStepKeeps ==
  ASSUME GateTypeOK, OneLoad, GateNext
  PROVE  GateKeeps
<1>1. CASE \E c \in Callers : TakeLock(c)
  BY <1>1, GateAssumption
     DEF TakeLock, GateTypeOK, OneLoad, warmVars, serverVars, GateKeeps, Waiting, Phase
<1>2. CASE \E c \in Callers : AskModels(c) \/ AskRunning(c)
  BY <1>2, AskKeeps
<1>3. CASE \E c \in Callers : EndWarmUp(c)
  BY <1>3 DEF EndWarmUp, GateTypeOK, OneLoad, callerVars, serverVars, GateKeeps, Waiting
<1>4. CASE \E m \in Models : StartLoad(m)
  BY <1>4 DEF StartLoad, GateTypeOK, OneLoad, callerVars, warmVars, GateKeeps, Waiting
<1>5. CASE FinishLoad
  BY <1>5 DEF FinishLoad, GateTypeOK, OneLoad, callerVars, warmVars, GateKeeps, Waiting
<1>6. CASE Evict
  <2>1. evictions' \in 0..MaxEvictions
    BY <1>6, GateAssumption DEF Evict, GateTypeOK
  <2>2. /\ resident' \in Models \cup {NoModel} /\ ready' \in BOOLEAN
        /\ UNCHANGED <<lock, phase, started, warm, abandoned>>
    BY <1>6 DEF Evict, callerVars, warmVars
  <2> QED BY <2>1, <2>2 DEF GateTypeOK, OneLoad, GateKeeps, Waiting
<1> QED BY <1>1, <1>2, <1>3, <1>4, <1>5, <1>6 DEF GateNext, EnsureReady

LEMMA GateUnchanged ==
  ASSUME GateTypeOK, OneLoad, UNCHANGED gateVars
  PROVE  GateTypeOK' /\ OneLoad' /\ phase' = phase
BY DEF GateTypeOK, OneLoad, gateVars, callerVars, warmVars, serverVars, Waiting

-----------------------------------------------------------------------------
(* The session. *)

LEMMA ExecutorMoves ==
  ASSUME BatchInv,
         \/ BeginLanguage \/ CollectResults \/ CountResults \/ EndLanguage \/ Verdict \/ Finalize
         \/ CancelSession \/ \E c \in Callers : SaveResult(c) \/ SucceedElsewhere(c)
  PROVE  BatchInv'
<1>1. exercises \subseteq Callers
  BY ExercisesAreCallers DEF BatchInv
<1>2. GateTypeOK' /\ OneLoad' /\ phase' = phase
  BY GateUnchanged
     DEF BatchInv, TypeOK, BeginLanguage, CollectResults, CountResults, EndLanguage, Verdict, Finalize,
         CancelSession, SaveResult, SucceedElsewhere
<1>3. TypeOK'
  <2>1. result' = result /\ lang' \in DOMAIN Languages /\ token' \in BOOLEAN
    <3>1. Len(Languages) \in Nat /\ DOMAIN Languages = 1..Len(Languages)
      BY BatchAssumption
    <3>2. CASE EndLanguage
      BY <3>1, <3>2 DEF EndLanguage, BatchInv, TypeOK
    <3>3. CASE ~EndLanguage
      BY <3>3 DEF BatchInv, TypeOK, BeginLanguage, CollectResults, CountResults, Verdict, Finalize,
                  CancelSession, SaveResult, SucceedElsewhere, sessionVars
    <3> QED BY <3>2, <3>3
  <2>2. bpc' \in {"language", "run", "count", "save", "verdict", "finalize", "done"}
        /\ status' \in {"RUNNING", "COMPLETED", "FAILED", "CANCELLED"}
    BY DEF BatchInv, TypeOK, BeginLanguage, CollectResults, CountResults, EndLanguage, Verdict, Finalize,
           CancelSession, SaveResult, SucceedElsewhere, sessionVars, Counted
  <2>3. unsaved' \subseteq Callers /\ disk' \subseteq Callers
    BY <1>1, BatchAssumption
       DEF BatchInv, TypeOK, BeginLanguage, CollectResults, CountResults, EndLanguage, Verdict, Finalize,
           CancelSession, SaveResult, SucceedElsewhere, Saved
  <2> QED BY <1>2, <2>1, <2>2, <2>3 DEF BatchInv, TypeOK
<1>4. PhasesInRun'
  BY <1>2
     DEF BatchInv, PhasesInRun, BeginLanguage, CollectResults, CountResults, EndLanguage, Verdict, Finalize,
         CancelSession, SaveResult, SucceedElsewhere, sessionVars, exercises
<1>5. FailuresCounted' /\ UnsavedCounted'
  BY <1>1, <1>2
     DEF BatchInv, TypeOK, FailuresCounted, UnsavedCounted, BeginLanguage, CollectResults, CountResults,
         EndLanguage, Verdict, Finalize, CancelSession, SaveResult, SucceedElsewhere, sessionVars, exercises,
         Counted
<1> QED BY <1>2, <1>3, <1>4, <1>5 DEF BatchInv

LEMMA ExerciseMoves ==
  ASSUME BatchInv, NEW c \in Callers, SkipExercise(c) \/ StartExercise(c) \/ FinishExercise(c)
  PROVE  BatchInv'
<1>1. CASE SkipExercise(c)
  <2>1. GateTypeOK' /\ OneLoad' /\ phase' = phase
    BY <1>1, GateUnchanged DEF BatchInv, TypeOK, SkipExercise
  <2> QED
    BY <1>1, <2>1
       DEF SkipExercise, BatchInv, TypeOK, PhasesInRun, FailuresCounted, UnsavedCounted, sessionVars, exercises
<1>2. CASE StartExercise(c)
  <2>1. GateTypeOK' /\ OneLoad'
    BY <1>2 DEF StartExercise, EnterGate, BatchInv, TypeOK, GateTypeOK, OneLoad, Phase, Waiting, warmVars, serverVars
  <2>2. PhasesInRun'
    BY <1>2 DEF StartExercise, EnterGate, BatchInv, TypeOK, GateTypeOK, PhasesInRun, batchVars, sessionVars, exercises
  <2> QED
    BY <1>2, <2>1, <2>2
       DEF StartExercise, BatchInv, TypeOK, FailuresCounted, UnsavedCounted, batchVars, sessionVars, exercises
<1>3. CASE FinishExercise(c)
  <2>1. bpc = "run" /\ c \in exercises
    BY <1>3 DEF FinishExercise, BatchInv, PhasesInRun
  <2>2. GateTypeOK' /\ OneLoad'
    BY <1>3 DEF FinishExercise, BatchInv, TypeOK, GateTypeOK, OneLoad, Phase, Waiting, warmVars, serverVars
  <2>3. TypeOK'
    BY <1>3, <2>2 DEF FinishExercise, BatchInv, TypeOK, sessionVars
  <2>4. PhasesInRun'
    BY <1>3 DEF FinishExercise, BatchInv, TypeOK, GateTypeOK, PhasesInRun, sessionVars, exercises
  <2>5. FailuresCounted' /\ UnsavedCounted'
    BY <1>3, <2>1 DEF FinishExercise, BatchInv, TypeOK, FailuresCounted, UnsavedCounted, sessionVars, exercises
  <2> QED BY <2>2, <2>3, <2>4, <2>5 DEF BatchInv
<1> QED BY <1>1, <1>2, <1>3

LEMMA BatchNext == BatchInv /\ [Next]_vars => BatchInv'
<1> SUFFICES ASSUME BatchInv, [Next]_vars PROVE BatchInv'
  OBVIOUS
<1>1. CASE GateNext /\ UNCHANGED batchVars
  <2>1. GateKeeps
    BY <1>1, GateStepKeeps DEF BatchInv, TypeOK
  <2> QED
    BY <1>1, <2>1
       DEF GateKeeps, BatchInv, TypeOK, PhasesInRun, FailuresCounted, UnsavedCounted, batchVars, sessionVars, exercises
<1>2. CASE UNCHANGED vars
  <2>1. GateTypeOK' /\ OneLoad' /\ phase' = phase
    BY <1>2, GateUnchanged DEF vars, BatchInv, TypeOK
  <2> QED
    BY <1>2, <2>1
       DEF vars, BatchInv, TypeOK, PhasesInRun, FailuresCounted, UnsavedCounted, batchVars, sessionVars, exercises
<1>3. CASE Executor \/ CancelSession \/ \E c \in Callers : FinishExercise(c) \/ SucceedElsewhere(c)
  BY <1>3, ExecutorMoves, ExerciseMoves DEF Executor
<1> QED BY <1>1, <1>2, <1>3 DEF Next

THEOREM BatchInvariant == Spec => []BatchInv
BY BatchInitially, BatchNext, PTL DEF Spec

\* Every variable of a session over whole languages and of the model gate keeps its type.
THEOREM BatchTypeCorrect == Spec => []TypeOK
<1>1. BatchInv => TypeOK
  BY DEF BatchInv
<1> QED BY <1>1, BatchInvariant, PTL

\* Whatever the inference server does, at most one caller waits for a model, and it
\* holds load_lock (ensure_ready).
THEOREM OneLoadAtATime == Spec => []OneLoad
<1>1. BatchInv => OneLoad
  BY DEF BatchInv
<1> QED BY <1>1, BatchInvariant, PTL

\* A session over any languages is not COMPLETED when an exercise of it failed.
THEOREM FailuresAreShown == Spec => []FailureIsShown
<1>1. BatchInv => FailureIsShown
  BY DEF BatchInv, TypeOK, FailuresCounted, FailureIsShown
<1> QED BY <1>1, BatchInvariant, PTL

-----------------------------------------------------------------------------
(* Who pays for a load.  A session has one model (execute reads            *)
(* session.model once and passes it to every run_all_exercises).           *)

SessionModel == \A c, d \in Callers : ModelOf[c] = ModelOf[d]

\* As long as nobody else changes the model, a warm-up whose caller was not let
\* down has made the model resident by the time the caller leaves the loop, and
\* it stays: the server is asked for no other.
WarmUpHelped ==
  evictions = 0 => \A d \in warm \ abandoned : phase[d] \in Waiting \/ (resident = ModelOf[d] /\ ready)

PayInv == WarmUpHelped /\ OnlyFirstPays

\* What the two say of the gate's variables, and phases outside of them.
LEMMA PayUnchanged ==
  ASSUME PayInv, UNCHANGED <<warm, abandoned, evictions, resident, ready>>,
         \A c \in Callers : phase[c] \in Waiting => phase'[c] \in Waiting,
         warm \subseteq Callers
  PROVE  PayInv'
BY DEF PayInv, WarmUpHelped, OnlyFirstPays

\* A caller that gives up, or got no answer, is let down unless the model is up.
LEMMA PayReturn ==
  ASSUME GateTypeOK, PayInv, NEW c \in Callers, Return(c), UNCHANGED serverVars
  PROVE  PayInv'
<1>1. /\ warm' = warm /\ UNCHANGED <<resident, ready, evictions>>
      /\ abandoned \subseteq abandoned'
      /\ c \in warm => c \in abandoned' \/ (resident = ModelOf[c] /\ ready)
      /\ \A d \in Callers \ {c} : phase'[d] = phase[d]
  BY DEF Return, serverVars, GateTypeOK
<1>2. WarmUpHelped'
  BY <1>1 DEF PayInv, WarmUpHelped, GateTypeOK
<1>3. OnlyFirstPays'
  BY <1>1 DEF PayInv, OnlyFirstPays
<1> QED BY <1>2, <1>3 DEF PayInv

\* The first to find the model away sends the only warm-up: an earlier one that was
\* not given up would have brought the model.
LEMMA PayBegin ==
  ASSUME SessionModel, GateTypeOK, OneLoad, PayInv, NEW c \in Callers, phase[c] \in Waiting,
         BeginLoad(c), UNCHANGED serverVars, resident # ModelOf[c] \/ ~ready
  PROVE  PayInv'
<1>1. /\ warm' = warm \cup {c} /\ UNCHANGED <<abandoned, resident, ready, evictions>>
      /\ phase' = [phase EXCEPT ![c] = "models"]
  BY DEF BeginLoad, serverVars
<1>2. \A d \in Callers \ {c} : phase[d] \notin Waiting
  BY DEF OneLoad
<1>3. evictions = 0 => \A d \in warm \ abandoned : d = c
  BY <1>2 DEF PayInv, WarmUpHelped, SessionModel, GateTypeOK
<1>4. WarmUpHelped'
  BY <1>1, <1>3 DEF PayInv, WarmUpHelped, GateTypeOK, Waiting
<1>5. OnlyFirstPays'
  <2> SUFFICES ASSUME NEW a \in warm', NEW b \in warm', a # b, evictions' = 0
               PROVE  abandoned' \cap {a, b} # {}
    BY <1>1, GateAssumption DEF OnlyFirstPays, GateTypeOK
  <2>1. a \in warm \ abandoned => a = c
    BY <1>1, <1>3
  <2>2. b \in warm \ abandoned => b = c
    BY <1>1, <1>3
  <2> QED BY <1>1, <2>1, <2>2
<1> QED BY <1>4, <1>5 DEF PayInv

LEMMA PayAsk ==
  ASSUME SessionModel, GateTypeOK, OneLoad, PayInv, NEW c \in Callers, AskModels(c) \/ AskRunning(c)
  PROVE  PayInv'
<1>1. phase[c] \in Waiting /\ UNCHANGED serverVars /\ warm \subseteq Callers
  BY DEF AskModels, AskRunning, Waiting, GateTypeOK
<1>2. CASE Return(c)
  BY <1>1, <1>2, PayReturn
<1>3. CASE BeginLoad(c) /\ (resident # ModelOf[c] \/ ~ready)
  BY <1>1, <1>3, PayBegin
<1>4. CASE PollAgain(c) \/ (phase' = [phase EXCEPT ![c] = "running"] /\ UNCHANGED warmVars)
  <2>1. \A d \in Callers : phase[d] \in Waiting => phase'[d] \in Waiting
    BY <1>4 DEF PollAgain, Waiting, GateTypeOK
  <2> QED BY <1>1, <1>4, <2>1, PayUnchanged DEF PollAgain, warmVars, serverVars
<1>5. \/ Return(c) \/ PollAgain(c)
      \/ BeginLoad(c) /\ (resident # ModelOf[c] \/ ~ready)
      \/ phase' = [phase EXCEPT ![c] = "running"] /\ UNCHANGED warmVars
  BY DEF AskModels, AskRunning, NotOurs, NotReady, WaitOn, GiveUp
<1> QED BY <1>2, <1>3, <1>4, <1>5

LEMMA PayGate ==
  ASSUME SessionModel, GateTypeOK, OneLoad, PayInv, GateNext
  PROVE  PayInv'
<1>0. warm \subseteq Callers /\ evictions \in Nat
  BY GateAssumption DEF GateTypeOK
<1>1. CASE \E c \in Callers : TakeLock(c)
  <2>1. \A d \in Callers : phase[d] \in Waiting => phase'[d] \in Waiting
    BY <1>1 DEF TakeLock, Waiting, GateTypeOK
  <2> QED BY <1>0, <1>1, <2>1, PayUnchanged DEF TakeLock, warmVars, serverVars
<1>2. CASE \E c \in Callers : AskModels(c) \/ AskRunning(c)
  BY <1>2, PayAsk
<1>3. CASE \E c \in Callers : EndWarmUp(c)
  BY <1>3 DEF EndWarmUp, callerVars, serverVars, PayInv, WarmUpHelped, OnlyFirstPays
<1>4. CASE \E m \in Models : StartLoad(m)
  <2>1. PICK m \in Models : StartLoad(m)
    BY <1>4
  <2>2. m \in Wanted /\ resident # m
    BY <2>1 DEF StartLoad
  <2>3. \A d \in Callers : ModelOf[d] = m
    BY <1>0, <2>2 DEF Wanted, SessionModel
  <2>4. UNCHANGED <<phase, warm, abandoned, evictions>>
    BY <2>1 DEF StartLoad, callerVars, warmVars
  <2>5. evictions = 0 => \A d \in warm \ abandoned : phase[d] \in Waiting
    BY <1>0, <2>2, <2>3 DEF PayInv, WarmUpHelped
  <2> QED BY <2>4, <2>5 DEF PayInv, WarmUpHelped, OnlyFirstPays
<1>5. CASE FinishLoad
  BY <1>5 DEF FinishLoad, callerVars, warmVars, PayInv, WarmUpHelped, OnlyFirstPays
<1>6. CASE Evict
  <2>1. evictions' = evictions + 1
    BY <1>6 DEF Evict
  <2>2. evictions' > 0 /\ evictions' # 0
    BY <1>0, <2>1
  <2> QED BY <2>2 DEF PayInv, WarmUpHelped, OnlyFirstPays
<1> QED BY <1>1, <1>2, <1>3, <1>4, <1>5, <1>6 DEF GateNext, EnsureReady

LEMMA PayBatch ==
  ASSUME GateTypeOK, PayInv, \/ UNCHANGED gateVars
                            \/ \E c \in Callers : StartExercise(c) \/ FinishExercise(c)
  PROVE  PayInv'
<1>1. UNCHANGED <<warm, abandoned, evictions, resident, ready>> /\ warm \subseteq Callers
  BY DEF gateVars, warmVars, serverVars, StartExercise, EnterGate, FinishExercise, GateTypeOK
<1>2. \A c \in Callers : phase[c] \in Waiting => phase'[c] \in Waiting
  BY DEF gateVars, callerVars, StartExercise, EnterGate, FinishExercise, GateTypeOK, Waiting
<1> QED BY <1>1, <1>2, PayUnchanged

LEMMA PayNext ==
  ASSUME SessionModel, BatchInv, PayInv, [Next]_vars PROVE PayInv'
<1>1. CASE GateNext
  BY <1>1, PayGate DEF BatchInv, TypeOK
<1>2. CASE ~GateNext
  <2>1. \/ UNCHANGED gateVars
        \/ \E c \in Callers : StartExercise(c) \/ FinishExercise(c)
    BY <1>2 DEF Next, Executor, vars, BeginLanguage, CollectResults, CountResults, EndLanguage, Verdict,
                Finalize, SkipExercise, SaveResult, SucceedElsewhere, CancelSession
  <2> QED BY <2>1, PayBatch DEF BatchInv, TypeOK
<1> QED BY <1>1, <1>2

\* Of the exercises of a session, which has one model, only the first that finds the
\* model away sends a warm-up, however many run at once: two are in flight only when a
\* caller was let down or another client made the server drop the model (ensure_ready).
THEOREM FirstPaysAlone == ASSUME SessionModel PROVE Spec => []OnlyFirstPays
<1>1. Init => PayInv
  BY DEF Init, GateInit, PayInv, WarmUpHelped, OnlyFirstPays
<1>2. BatchInv /\ PayInv /\ [Next]_vars => PayInv'
  BY PayNext
<1>3. PayInv => OnlyFirstPays
  BY DEF PayInv
<1> QED BY <1>1, <1>2, <1>3, BatchInvariant, PTL DEF Spec
=============================================================================
