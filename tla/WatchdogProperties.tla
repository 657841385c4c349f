-------------------------- MODULE WatchdogProperties --------------------------
(***************************************************************************)
(* What the watchdog promises about the tool calls of an agent.            *)
(***************************************************************************)
EXTENDS ToolWatchdog, TLC

\* Every call has a command of its own, which its first line finds.
DistinctCommands == [c \in Calls |-> {c}]

\* forward_line, cancel_timer: the result of one call never takes the timer of
\* another, in whatever order the tasks run, so a running shell command is
\* watched from when its start was seen until it is due, and it is forgotten
\* only when the docker exec that was to SIGKILL it has failed
\* (kill_process_by_command logs that and check_timeouts goes on).
RunningCallIsWatched ==
  open => \A c \in Bash :
    call[c] = "running" /\ <<"start", c>> \notin tasks =>
      \/ \E n \in DOMAIN timers : timers[n].call = c
      \/ \E n \in DOMAIN victims : victims[n] = c
      \/ <<"kill", c>> \in givenUp

\* "Kills the specific timed-out process inside the container"
\* (kill_process_by_command): a call that is killed has run for longer than the
\* timeout, also when the signal arrives after its docker exec was given up on.
KillsOnlyOverdue ==
  [][\A c \in Calls : call[c] = "running" /\ call'[c] = "killed" => elapsed[c] > Timeout]_vars

\* The per-command timeout: a shell command that never ends is killed, unless
\* the whole run ends first or the docker exec that was to SIGKILL it failed,
\* which is tried only once.
HungCallIsKilled ==
  \A c \in Bash :
    call[c] = "running" ~> call[c] # "running" \/ ~open \/ <<"kill", c>> \in givenUp
=============================================================================
