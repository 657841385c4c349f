----------------------------- MODULE ModelLoadGate -----------------------------
(***************************************************************************)
(* ensure_ready of crates/benchmark-core/src/model_load.rs: before an      *)
(* exercise starts, its model is made resident on the inference server,    *)
(* one exercise at a time.  The server (llama-swap) holds one model and    *)
(* loads another on demand: for a warm-up request, for an agent that is    *)
(* running, or for somebody else.                                          *)
(***************************************************************************)
EXTENDS Naturals, FiniteSets

CONSTANTS
  Callers,      \* the exercises that pass the gate
  Models,       \* models the server can hold
  ModelOf,      \* Callers -> the model it asks for
  Local,        \* the models served by this endpoint and not by a peer
  NoModel,      \* nothing resident
  NoCaller,
  MaxEvictions  \* bound: model changes and failed loads that others cause

ASSUME GateAssumption ==
  /\ ModelOf \in [Callers -> Models] /\ Local \subseteq Models
  /\ NoModel \notin Models /\ NoCaller \notin Callers
  /\ MaxEvictions \in Nat

VARIABLES
  lock,      \* who holds load_lock
  phase,     \* Callers -> where it is
  started,   \* Callers -> has it sent its warm-up, that is, is it in the loop?
  warm,      \* callers whose warm-up request is in flight
  abandoned, \* those of them whose caller went on before the model was up
  resident,  \* the model the server holds or loads
  ready,     \* does it answer?
  evictions

callerVars == <<phase, started>>
warmVars == <<warm, abandoned>>
serverVars == <<resident, ready, evictions>>
gateVars == <<lock, callerVars, warmVars, serverVars>>

Phase == {"idle", "lock", "models", "running", "agent", "over"}

GateTypeOK ==
  /\ lock \in Callers \cup {NoCaller}
  /\ phase \in [Callers -> Phase]
  /\ started \in [Callers -> BOOLEAN]
  /\ abandoned \subseteq warm /\ warm \subseteq Callers
  /\ resident \in Models \cup {NoModel} /\ ready \in BOOLEAN
  /\ evictions \in 0..MaxEvictions

GateInit ==
  /\ lock = NoCaller
  /\ phase = [c \in Callers |-> "idle"]
  /\ started = [c \in Callers |-> FALSE]
  /\ warm = {} /\ abandoned = {}
  /\ resident \in Models \cup {NoModel}
  /\ ready = (resident # NoModel)
  /\ evictions = 0

\* Between taking the lock and returning.
Waiting == {"models", "running"}

-----------------------------------------------------------------------------
(* The callers. *)

EnterGate(c) ==
  /\ phase[c] = "idle"
  /\ phase' = [phase EXCEPT ![c] = "lock"]
  /\ UNCHANGED <<lock, started, warmVars, serverVars>>

TakeLock(c) ==
  /\ phase[c] = "lock" /\ lock = NoCaller
  /\ lock' = c
  /\ phase' = [phase EXCEPT ![c] = "models"]
  /\ UNCHANGED <<started, warmVars, serverVars>>

\* The lock is held until ensure_ready returns; the agent starts whatever the outcome.
Return(c) ==
  /\ phase' = [phase EXCEPT ![c] = "agent"]
  /\ started' = [started EXCEPT ![c] = FALSE]
  /\ lock' = NoCaller
  /\ abandoned' = IF resident = ModelOf[c] /\ ready THEN abandoned ELSE abandoned \cup ({c} \cap warm)
  /\ UNCHANGED warm

BeginLoadUnlocked(c) ==  \* mutated: the lock covers the check only
  /\ ~started[c]
  /\ started' = [started EXCEPT ![c] = TRUE]
  /\ warm' = warm \cup {c}
  /\ phase' = [phase EXCEPT ![c] = "models"]
  /\ lock' = NoCaller
  /\ UNCHANGED abandoned

\* First probe: the detached warm-up is sent and the loop entered at once.
BeginLoad(c) ==
  /\ ~started[c]
  /\ started' = [started EXCEPT ![c] = TRUE]
  /\ warm' = warm \cup {c}
  /\ phase' = [phase EXCEPT ![c] = "models"]
  /\ UNCHANGED <<lock, abandoned>>

\* Later probes: the model is waited for, a poll interval at a time ...
PollAgain(c) ==
  /\ started[c]
  /\ phase' = [phase EXCEPT ![c] = "models"]
  /\ UNCHANGED <<lock, started, warmVars>>

NeverGiveUp(c) == PollAgain(c)  \* mutated: the loop has no end but a model that is ready
\* ... until model_load_timeout_secs have passed at the end of a probe.
GiveUp(c) == started[c] /\ Return(c)

WaitOn(c) == PollAgain(c) \/ GiveUp(c)

NotReady(c) == BeginLoad(c) \/ WaitOn(c)

\* No usable answer, or a model that is not this server's to load.
NotOurs(c) == IF started[c] THEN WaitOn(c) ELSE Return(c)

\* GET /models: the query may fail, and a peer's model is never waited for.
AskModels(c) ==
  /\ phase[c] = "models"
  /\ \/ NotOurs(c)
     \/ /\ ModelOf[c] \in Local /\ resident = ModelOf[c]
        /\ phase' = [phase EXCEPT ![c] = "running"]
        /\ UNCHANGED <<lock, started, warmVars>>
     \/ ModelOf[c] \in Local /\ resident # ModelOf[c] /\ NotReady(c)
  /\ UNCHANGED serverVars

\* GET /running: only evidence that the model is still coming up holds it back;
\* a query that fails is none.
AskRunning(c) ==
  /\ phase[c] = "running"
  /\ Return(c) \/ (resident = ModelOf[c] /\ ~ready /\ NotReady(c))
  /\ UNCHANGED serverVars

EnsureReady(c) == TakeLock(c) \/ AskModels(c) \/ AskRunning(c)

\* The warm-up is answered, refused or times out; nobody waits for it.
EndWarmUp(c) ==
  /\ c \in warm
  /\ warm' = warm \ {c} /\ abandoned' = abandoned \ {c}
  /\ UNCHANGED <<lock, callerVars, serverVars>>

-----------------------------------------------------------------------------
(* The server, as the gate relies on it. *)

Wanted == {ModelOf[c] : c \in warm \cup {d \in Callers : phase[d] = "agent"}}

StartLoad(m) ==
  /\ m \in Wanted \cap Local /\ resident # m
  /\ resident' = m /\ ready' = FALSE
  /\ UNCHANGED <<lock, callerVars, warmVars, evictions>>

FinishLoad ==
  /\ resident # NoModel /\ ~ready
  /\ ready' = TRUE
  /\ UNCHANGED <<lock, callerVars, warmVars, resident, evictions>>

\* A load that fails, or another client that wants another model.
Evict ==
  /\ evictions < MaxEvictions
  /\ resident' \in (Models \cup {NoModel}) \ {resident}
  /\ ready' = FALSE
  /\ evictions' = evictions + 1
  /\ UNCHANGED <<lock, callerVars, warmVars>>

GateNext ==
  \/ \E c \in Callers : EnsureReady(c) \/ EndWarmUp(c)
  \/ \E m \in Models : StartLoad(m)
  \/ FinishLoad \/ Evict
=============================================================================
