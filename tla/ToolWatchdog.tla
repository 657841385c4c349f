----------------------------- MODULE ToolWatchdog -----------------------------
(***************************************************************************)
(* CommandWatchdog (crates/benchmark-core/src/docker/watchdog.rs): the     *)
(* timers of the tool calls an agent makes in its container, kept from the *)
(* JSON lines the agent prints.  forward_line hands every line of interest *)
(* to a task of its own, so the end of a call may be handled before its    *)
(* start.  The ticker task checks the timers and kills what is overdue     *)
(* with pkill -f, that is by command line, in the container.               *)
(*                                                                         *)
(* Time is counted in ticks of the clock and stops mattering one past the  *)
(* timeout.  A call is what it does: it runs until it ends or is killed.   *)
(*                                                                         *)
(* A docker exec may fail, or be given up on after its own timeout: that   *)
(* is logged and the command is forgotten.  The docker client is not       *)
(* killed with it, so that the signal may still arrive later.              *)
(*                                                                         *)
(* active_timers is only pushed at the back and thinned out, so a push is  *)
(* given a number, and the list is a function from the numbers of the      *)
(* pushes it still holds.                                                  *)
(***************************************************************************)
EXTENDS Naturals, FiniteSetsExt, Functions

CONSTANTS
  Calls,      \* the tool calls of the agent
  Bash,       \* those of them that run a shell command
  Found,      \* Calls -> the calls that pkill -f finds by the first line of this one
  ResultIds,  \* do result lines carry the call's id (Claude) or not (pi)?
  Timeout     \* timeout_secs, in ticks

ASSUME WatchdogAssumption ==
  /\ Bash \subseteq Calls /\ Found \in [Calls -> SUBSET Calls]
  /\ ResultIds \in BOOLEAN /\ Timeout \in Nat

VARIABLES
  call,     \* Calls -> idle, running, killed, ended
  elapsed,  \* Calls -> how long it has been running
  tasks,    \* lines handed to tasks that have not run yet
  pushed,   \* how many timers there have been
  timers,   \* active_timers: pushes -> Timer
  ticker,   \* the ticker task: sleep, term, kill, aborted
  victims,  \* pushes -> the call, for its command, that check_timeouts has still to kill
  givenUp   \* the signals whose docker exec returned an error

vars == <<call, elapsed, tasks, pushed, timers, ticker, victims, givenUp>>

Ages == 0..(Timeout + 1)
Timer == [call : Bash, age : Ages]
Lines == {"start", "result"} \X Calls
Signals == {"term", "kill"} \X Bash

TypeOK ==
  /\ call \in [Calls -> {"idle", "running", "killed", "ended"}]
  /\ elapsed \in [Calls -> Ages]
  /\ tasks \subseteq Lines
  /\ pushed \in Nat
  /\ DOMAIN timers \subseteq 1..pushed /\ timers \in [DOMAIN timers -> Timer]
  /\ ticker \in {"sleep", "term", "kill", "aborted"}
  /\ DOMAIN victims \subseteq 1..pushed /\ victims \in [DOMAIN victims -> Bash]
  /\ givenUp \subseteq Signals

Init ==
  /\ call = [c \in Calls |-> "idle"]
  /\ elapsed = [c \in Calls |-> 0]
  /\ tasks = {}
  /\ pushed = 0 /\ timers = [n \in {} |-> 0]
  /\ ticker = "sleep"
  /\ victims = [n \in {} |-> 0]
  /\ givenUp = {}

open == ticker # "aborted"

-----------------------------------------------------------------------------
(* The agent: it may have several calls under way at once. *)

\* forward_line: a start line matters only for a shell command.
StartCall(c) ==
  /\ open /\ call[c] = "idle"
  /\ call' = [call EXCEPT ![c] = "running"]
  /\ tasks' = tasks \cup {<<"start", c>> : d \in Bash \cap {c}}
  /\ UNCHANGED <<elapsed, pushed, timers, ticker, victims, givenUp>>

\* A killed command ends too, and the agent prints its result.
EndCall(c) ==
  /\ open /\ call[c] \in {"running", "killed"}
  /\ call' = [call EXCEPT ![c] = "ended"]
  /\ tasks' = tasks \cup {<<"result", c>>}
  /\ UNCHANGED <<elapsed, pushed, timers, ticker, victims, givenUp>>

Older(age) == IF age > Timeout THEN age ELSE age + 1

PassTime ==
  /\ open
  /\ elapsed' = [c \in Calls |-> IF call[c] = "running" THEN Older(elapsed[c]) ELSE elapsed[c]]
  /\ timers' = [n \in DOMAIN timers |-> [timers[n] EXCEPT !.age = Older(@)]]
  /\ UNCHANGED <<call, tasks, pushed, ticker, victims, givenUp>>

-----------------------------------------------------------------------------
(* The tasks that forward_line spawns. *)

Handle(line) ==
  /\ line \in tasks
  /\ tasks' = tasks \ {line}
  /\ UNCHANGED <<call, elapsed, ticker, victims, givenUp>>

OnToolCallStarted(c) ==
  /\ Handle(<<"start", c>>)
  /\ pushed' = pushed + 1
  /\ timers' = [n \in DOMAIN timers \cup {pushed + 1} |->
                  IF n \in DOMAIN timers THEN timers[n] ELSE [call |-> c, age |-> 0]]

\* vec.remove of the first of these entries, if there is one.
RemoveFirst(vec, entries) ==
  IF entries = {} THEN vec ELSE Restrict(vec, DOMAIN vec \ {Min(entries)})

CancelTimer(c) == RemoveFirst(timers, {n \in DOMAIN timers : timers[n].call = c})

CancelOldestTimer == RemoveFirst(timers, DOMAIN timers)

AnyResultCancelsOldest(c) ==  \* mutated: as it once was
  /\ Handle(<<"result", c>>)
  /\ timers' = CancelOldestTimer /\ UNCHANGED pushed

OnToolCallFinished(c) ==
  /\ Handle(<<"result", c>>)
  /\ timers' = IF ResultIds THEN CancelTimer(c) ELSE CancelOldestTimer
  /\ UNCHANGED pushed

-----------------------------------------------------------------------------
(* The ticker task: check_timeouts, then kill_process_by_command for each. *)

DueEarly(t) == t.age >= Timeout  \* mutated: off by one
Due(t) == t.age > Timeout

TimedOut == {n \in DOMAIN timers : Due(timers[n])}

CheckTimeouts ==
  /\ ticker = "sleep" /\ TimedOut # {}
  /\ timers' = Restrict(timers, DOMAIN timers \ TimedOut)
  /\ victims' = [n \in TimedOut |-> timers[n].call]
  /\ ticker' = "term"
  /\ UNCHANGED <<call, elapsed, tasks, pushed, givenUp>>

victim == Min(DOMAIN victims)
Running(c) == {d \in Bash \cap Found[c] : call[d] = "running"}
Matching == Running(victims[victim])

Kill(hit) == call' = [c \in Calls |-> IF c \in hit THEN "killed" ELSE call[c]]

GiveUp(signal) == givenUp' = givenUp \cup {<<signal, victims[victim]>>}

\* What a command does with SIGTERM is its own affair.
SendTerm ==
  /\ ticker = "term"
  /\ \E hit \in SUBSET Matching : Kill(hit)
  /\ givenUp' = givenUp \/ GiveUp("term")
  /\ ticker' = "kill"
  /\ UNCHANGED <<elapsed, tasks, pushed, timers, victims>>

NextVictim ==
  /\ victims' = Restrict(victims, DOMAIN victims \ {victim})
  /\ ticker' = IF DOMAIN victims' = {} THEN "sleep" ELSE "term"

KillSkipped ==  \* mutated: SIGTERM is taken to be enough
  /\ ticker = "kill"
  /\ NextVictim
  /\ UNCHANGED <<call, elapsed, tasks, pushed, timers, givenUp>>

\* The command is done with, whether or not the docker exec worked.
SendKill ==
  /\ ticker = "kill"
  /\ \/ Kill(Matching) /\ UNCHANGED givenUp
     \/ GiveUp("kill") /\ \E hit \in SUBSET Matching : Kill(hit)
  /\ NextVictim
  /\ UNCHANGED <<elapsed, tasks, pushed, timers>>

\* A docker exec that was given up on gets through after all.
LateSignal ==
  /\ open
  /\ \E given \in givenUp : \E hit \in SUBSET Running(given[2]) : Kill(hit)
  /\ UNCHANGED <<elapsed, tasks, pushed, timers, ticker, victims, givenUp>>

\* The run is over: its container is gone when close() is called.
Close ==
  /\ open
  /\ ticker' = "aborted"
  /\ timers' = [n \in {} |-> 0] /\ victims' = [n \in {} |-> 0]
  /\ UNCHANGED <<call, elapsed, tasks, pushed, givenUp>>

Next ==
  \/ \E c \in Calls : StartCall(c) \/ EndCall(c)
  \/ \E c \in Calls : OnToolCallStarted(c) \/ OnToolCallFinished(c)
  \/ PassTime \/ CheckTimeouts \/ SendTerm \/ SendKill \/ LateSignal \/ Close

Spec == Init /\ [][Next]_vars

(* Time passes, and the runtime runs every task it was given.  Nothing     *)
(* makes a call end by itself, or the run, a docker exec work, or one that *)
(* was given up on arrive.                                                 *)
FairSpec ==
  /\ Spec
  /\ WF_vars(PassTime)
  /\ \A c \in Calls : WF_vars(OnToolCallStarted(c)) /\ WF_vars(OnToolCallFinished(c))
  /\ WF_vars(CheckTimeouts) /\ WF_vars(SendTerm) /\ WF_vars(SendKill)
=============================================================================
