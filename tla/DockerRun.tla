------------------------------- MODULE DockerRun -------------------------------
(***************************************************************************)
(* One call of run_command_with_limits_and_volume_with_callback_and_env    *)
(* (crates/benchmark-core/src/docker/client.rs), from the image check to   *)
(* the cleanup, with everything it races against: the docker CLI it        *)
(* spawned, the daemon and its container, the two reader tasks (taken as   *)
(* one), the liveness task, a user's cancel, the deadline, and the server  *)
(* being stopped with Ctrl-C while the run is under way.                   *)
(*                                                                         *)
(* Every timeout is "may happen whenever what it guards has not": its      *)
(* length is left out.  Output is counted in lines.                        *)
(***************************************************************************)
EXTENDS Integers

CONSTANTS
  MaxLines,    \* bound: lines the program writes
  MaxRmFaults  \* bound: calls of "docker rm -f" that fail or time out

ASSUME DockerAssumption == MaxLines \in Nat /\ MaxRmFaults \in Nat

VARIABLES
  pc,          \* where the call is
  cli,         \* the docker CLI process: none, running, dying (SIGKILL sent), exited
  cliStatus,   \* its exit status
  container,   \* what the daemon has: none, created, running, exited, gone
  programExit, \* how the program in the container ended by itself
  token, due,  \* the cancellation token, whether the deadline has passed
  liveness,    \* the liveness task: off, on, done
  dead,        \* the permit of the liveness_dead Notify
  readers,     \* the reader tasks: off, reading, eof, broken, aborted
  stuck,       \* a grandchild of the CLI keeps the pipe open
  written, received, output, \* lines in the pipe, in the channel, in the result
  completed, exitCode,       \* of the ProcessResult
  rmFaults,
  server       \* up, listed, removed, exited: the shutdown sequence

cliVars == <<cli, cliStatus>>
daemonVars == <<container, programExit>>
signalVars == <<token, due>>
watchVars == <<liveness, dead>>
ioVars == <<readers, stuck, written, received, output>>
resultVars == <<completed, exitCode>>
vars == <<pc, cliVars, daemonVars, signalVars, watchVars, ioVars, resultVars,
          rmFaults, server>>

NoCode == -1      \* ExitStatus::code() of a process ended by a signal
Killed == 137
Refused == 125    \* "docker run" that could not create the container
Codes == {NoCode, 0, 1, Refused, Killed}

TypeOK ==
  /\ pc \in {"inspect", "pull", "spawn", "wait", "kill_cli", "kill_container", "reap",
             "join", "drain", "cleanup", "cleanup_again", "close", "done",
             "error"}
  /\ cli \in {"none", "running", "dying", "exited"} /\ cliStatus \in Codes
  /\ container \in {"none", "created", "running", "exited", "gone"}
  /\ programExit \in {NoCode, 0, 1}
  /\ token \in BOOLEAN /\ due \in BOOLEAN
  /\ liveness \in {"off", "on", "done"} /\ dead \in BOOLEAN
  /\ readers \in {"off", "reading", "eof", "broken", "aborted"} /\ stuck \in BOOLEAN
  /\ written \in 0..MaxLines /\ received \in 0..written /\ output \in 0..received
  /\ completed \in BOOLEAN /\ exitCode \in Codes
  /\ rmFaults \in 0..MaxRmFaults
  /\ server \in {"up", "listed", "removed", "exited"}

Init ==
  /\ pc = "inspect"
  /\ cli = "none" /\ cliStatus = NoCode
  /\ container = "none" /\ programExit = NoCode
  /\ token = FALSE /\ due = FALSE
  /\ liveness = "off" /\ dead = FALSE
  /\ readers = "off" /\ stuck = FALSE /\ written = 0 /\ received = 0 /\ output = 0
  /\ completed = FALSE /\ exitCode = NoCode
  /\ rmFaults = 0
  /\ server = "up"

\* A task of the server takes a step only while the server process exists.
Step(from, to) ==
  /\ server # "exited"
  /\ pc = from
  /\ pc' = to

-----------------------------------------------------------------------------
(* ensure_image_present: the pull has a timeout of its own, and neither it *)
(* nor the inspection looks at the cancellation token.                     *)

InspectImage ==
  /\ Step("inspect", "spawn") \/ Step("inspect", "pull")
  /\ UNCHANGED <<cliVars, daemonVars, signalVars, watchVars, ioVars, resultVars, rmFaults, server>>

PullImage ==
  /\ Step("pull", "spawn") \/ Step("pull", "error")
  /\ UNCHANGED <<cliVars, daemonVars, signalVars, watchVars, ioVars, resultVars, rmFaults, server>>

-----------------------------------------------------------------------------
(* execute_docker_command_v2 up to the select. *)

SpawnCli ==
  /\ Step("spawn", "wait")
  /\ cli' = "running"
  /\ readers' = "reading" /\ stuck' \in BOOLEAN
  /\ liveness' = "on"
  /\ UNCHANGED <<cliStatus, daemonVars, signalVars, dead, written, received, output,
                 resultVars, rmFaults, server>>

SpawnFails ==
  /\ Step("spawn", "error")
  /\ UNCHANGED <<cliVars, daemonVars, signalVars, watchVars, ioVars, resultVars, rmFaults, server>>

(* The biased select: the first branch that is ready wins. *)

Leave(to) ==
  /\ Step("wait", to)
  /\ liveness' = "off"
  /\ UNCHANGED <<cliVars, daemonVars, signalVars, dead, ioVars, rmFaults, server>>

SelectExited ==
  /\ cli = "exited" /\ cliStatus = 0
  /\ Leave("join")
  /\ completed' = TRUE /\ exitCode' = 0

NoDeadline ==  \* mutated: the cancellation poll restarts the deadline
  \/ cli = "exited" /\ cliStatus # 0
  \/ dead
  \/ token

SelectAborts ==
  \/ cli = "exited" /\ cliStatus # 0
  \/ dead
  \/ token
  \/ due

Aborted ==
  /\ cli = "exited" => cliStatus # 0
  /\ SelectAborts
  /\ Leave("kill_cli")
  /\ UNCHANGED resultVars

-----------------------------------------------------------------------------
(* "docker rm -f": what it leaves of the container. *)

Removed == IF container = "none" THEN "none" ELSE "gone"

RmOk == container' = Removed /\ UNCHANGED <<programExit, rmFaults>>

RmFault ==
  /\ rmFaults < MaxRmFaults
  /\ rmFaults' = rmFaults + 1
  /\ UNCHANGED daemonVars

(* The kill phases; each has its own timeout. *)

KillCli ==
  /\ Step("kill_cli", "kill_container")
  /\ cli' = IF cli = "running" THEN "dying" ELSE cli
  /\ UNCHANGED <<cliStatus, daemonVars, signalVars, watchVars, ioVars, resultVars, rmFaults, server>>

ContainerSpared ==  \* mutated: only the CLI is killed
  /\ Step("kill_container", "reap")
  /\ UNCHANGED <<cliVars, daemonVars, signalVars, watchVars, ioVars, resultVars, rmFaults, server>>

ForceKillContainer ==
  /\ Step("kill_container", "reap")
  /\ RmOk \/ RmFault
  /\ UNCHANGED <<cliVars, signalVars, watchVars, ioVars, resultVars, server>>

Reap ==
  /\ Step("reap", "join")
  /\ exitCode' = IF cli = "exited" /\ cliStatus # NoCode THEN cliStatus ELSE Killed
  /\ UNCHANGED <<cliVars, daemonVars, signalVars, watchVars, ioVars, completed, rmFaults, server>>

-----------------------------------------------------------------------------
(* Output and cleanup. *)

JoinSkipped ==  \* mutated: the readers are aborted without being awaited
  /\ Step("join", "drain")
  /\ UNCHANGED <<cliVars, daemonVars, signalVars, watchVars, ioVars, resultVars, rmFaults, server>>

JoinReaders ==
  /\ Step("join", "drain")
  /\ \/ readers \in {"eof", "broken"} /\ UNCHANGED readers
     \/ /\ readers = "reading" /\ received = written  \* 30 s are enough to read what is there
        /\ stuck \/ cli # "exited"                    \* but not to wait for such a pipe
        /\ readers' = "aborted"
  /\ UNCHANGED <<cliVars, daemonVars, signalVars, watchVars, stuck, written, received, output,
                 resultVars, rmFaults, server>>

DrainOutput ==
  /\ Step("drain", "cleanup")
  /\ output' = received
  /\ UNCHANGED <<cliVars, daemonVars, signalVars, watchVars, readers, stuck, written, received,
                 resultVars, rmFaults, server>>

\* A removal that times out is tried once more, without a timeout.
CleanupContainer ==
  /\ \/ Step("cleanup", "close") /\ (RmOk \/ RmFault)
     \/ Step("cleanup", "cleanup_again") /\ RmFault
     \/ Step("cleanup_again", "close") /\ (RmOk \/ RmFault)
  /\ UNCHANGED <<cliVars, signalVars, watchVars, ioVars, resultVars, server>>

CloseWatchdog ==
  /\ Step("close", "done")
  /\ UNCHANGED <<cliVars, daemonVars, signalVars, watchVars, ioVars, resultVars, rmFaults, server>>

Call ==
  \/ InspectImage \/ PullImage \/ SpawnCli \/ SpawnFails
  \/ SelectExited \/ Aborted
  \/ KillCli \/ ForceKillContainer \/ Reap
  \/ JoinReaders \/ DrainOutput \/ CleanupContainer \/ CloseWatchdog

-----------------------------------------------------------------------------
(* The liveness task: "docker ps" every five seconds. *)

MissingIsFatal == container \in {"none", "gone", "exited"}  \* mutated: as it once was
NeverFatal == FALSE  \* mutated: a stopped container is taken for a pending one
IsFatal == container = "exited"

CheckLiveness ==
  /\ server # "exited"
  /\ liveness = "on" /\ IsFatal
  /\ liveness' = "done" /\ dead' = TRUE
  /\ UNCHANGED <<pc, cliVars, daemonVars, signalVars, ioVars, resultVars, rmFaults, server>>

-----------------------------------------------------------------------------
(* The reader tasks. *)

ReadTwice ==  \* mutated: both reader tasks forward the line
  /\ server # "exited"
  /\ readers = "reading" /\ received < written
  /\ received' = received + 2
  /\ UNCHANGED <<pc, cliVars, daemonVars, signalVars, watchVars, readers, stuck, written, output,
                 resultVars, rmFaults, server>>

ReadLine ==
  /\ server # "exited"
  /\ readers = "reading" /\ received < written
  /\ received' = received + 1
  /\ UNCHANGED <<pc, cliVars, daemonVars, signalVars, watchVars, readers, stuck, written, output,
                 resultVars, rmFaults, server>>

ReadEof ==
  /\ server # "exited"
  /\ readers = "reading" /\ received = written /\ cli = "exited" /\ ~stuck
  /\ readers' = "eof"
  /\ UNCHANGED <<pc, cliVars, daemonVars, signalVars, watchVars, stuck, written, received, output,
                 resultVars, rmFaults, server>>

\* next_line() fails on a line that is not UTF-8, and unwrap_or(None) ends the task.
ReadUndecodable ==
  /\ server # "exited"
  /\ readers = "reading" /\ received < written
  /\ readers' = "broken"
  /\ UNCHANGED <<pc, cliVars, daemonVars, signalVars, watchVars, stuck, written, received, output,
                 resultVars, rmFaults, server>>

Readers == ReadLine \/ ReadEof \/ ReadUndecodable

-----------------------------------------------------------------------------
(* The docker CLI, the daemon and the program: Docker's own behaviour, as  *)
(* client.rs relies on it.  The CLI may hang at any point, so nothing here *)
(* but the death of a killed process is sure to happen.                    *)

\* A create request the CLI has sent is served even if the CLI is gone by then.
CreateContainer ==
  /\ cli # "none" /\ cliStatus # Refused /\ container = "none"
  /\ container' = "created"
  /\ UNCHANGED <<pc, cliVars, programExit, signalVars, watchVars, ioVars, resultVars, rmFaults, server>>

RefuseContainer ==
  /\ cli = "running" /\ container = "none"
  /\ cli' = "exited" /\ cliStatus' = Refused
  /\ UNCHANGED <<pc, daemonVars, signalVars, watchVars, ioVars, resultVars, rmFaults, server>>

\* A killed CLI sends nothing any more.
StartContainer ==
  /\ cli = "running" /\ container = "created"
  /\ container' = "running"
  /\ UNCHANGED <<pc, cliVars, programExit, signalVars, watchVars, ioVars, resultVars, rmFaults, server>>

WriteLine ==
  /\ cli = "running" /\ container = "running" /\ readers # "broken" /\ written < MaxLines
  /\ written' = written + 1
  /\ UNCHANGED <<pc, cliVars, daemonVars, signalVars, watchVars, readers, stuck, received, output,
                 resultVars, rmFaults, server>>

ExitProgram ==
  /\ container = "running"
  /\ container' = "exited" /\ programExit' \in {0, 1}
  /\ UNCHANGED <<pc, cliVars, signalVars, watchVars, ioVars, resultVars, rmFaults, server>>

ExitCli ==
  /\ cli = "running" /\ container \in {"exited", "gone"}
  /\ cli' = "exited"
  /\ cliStatus' = IF programExit = NoCode THEN Killed ELSE programExit
  /\ UNCHANGED <<pc, daemonVars, signalVars, watchVars, ioVars, resultVars, rmFaults, server>>

\* Writing to a pipe that nobody reads ends the CLI, but not the container.
BreakPipe ==
  /\ cli = "running" /\ container = "running" /\ readers = "broken"
  /\ cli' = "exited"
  /\ UNCHANGED <<pc, cliStatus, daemonVars, signalVars, watchVars, ioVars, resultVars, rmFaults, server>>

DieCli ==
  /\ cli = "dying"
  /\ cli' = "exited"
  /\ UNCHANGED <<pc, cliStatus, daemonVars, signalVars, watchVars, ioVars, resultVars, rmFaults, server>>

Docker ==
  \/ CreateContainer \/ RefuseContainer \/ StartContainer
  \/ WriteLine \/ ExitProgram \/ ExitCli \/ BreakPipe \/ DieCli

-----------------------------------------------------------------------------
(* The user, the clock, and Ctrl-C: cleanup_all_containers lists what is   *)
(* running, removes it, and the server goes on to exit.                    *)

CancelRun ==
  /\ ~token
  /\ token' = TRUE
  /\ UNCHANGED <<pc, cliVars, daemonVars, due, watchVars, ioVars, resultVars, rmFaults, server>>

PassDeadline ==
  /\ pc = "wait" /\ ~due
  /\ due' = TRUE
  /\ UNCHANGED <<pc, cliVars, daemonVars, token, watchVars, ioVars, resultVars, rmFaults, server>>

Shutdown(from, to) ==
  /\ server = from
  /\ server' = to
  /\ UNCHANGED <<pc, cliVars, signalVars, watchVars, ioVars, resultVars>>

ListContainers ==
  /\ Shutdown("up", IF container = "running" THEN "listed" ELSE "removed")
  /\ UNCHANGED <<daemonVars, rmFaults>>

RemoveListed ==
  /\ Shutdown("listed", "removed")
  /\ RmOk \/ RmFault

ExitServer ==
  /\ Shutdown("removed", "exited")
  /\ UNCHANGED <<daemonVars, rmFaults>>

Next ==
  \/ Call \/ CheckLiveness \/ Readers \/ Docker
  \/ CancelRun \/ PassDeadline
  \/ ListContainers \/ RemoveListed \/ ExitServer

Spec == Init /\ [][Next]_vars

(* The runtime schedules the server's tasks, docker answers the commands   *)
(* that have no timeout (the inspection, "docker ps", the last removal),   *)
(* and a process that was sent SIGKILL dies.                               *)
Fairness ==
  /\ WF_vars(Call)
  /\ WF_vars(CheckLiveness)
  /\ WF_vars(Readers)
  /\ WF_vars(DieCli)

FairSpec == Spec /\ Fairness
=============================================================================
