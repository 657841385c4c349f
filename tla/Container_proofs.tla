--------------------------- MODULE Container_proofs ---------------------------
(***************************************************************************)
(* A container run, for any amount of output: its types, that no output is *)
(* lost, that it is aborted only for a cause, and that it implements       *)
(* ContainerRun as long as docker does not fail to remove the container    *)
(* more than once.                                                         *)
(***************************************************************************)
EXTENDS ContainerProperties, TLAPS

Before == {"inspect", "pull", "spawn", "error"}
After == {"kill_container", "reap", "join", "drain", "cleanup", "cleanup_again", "close", "done"}

\* The CLI exists from its spawning, and once the select is left and it was killed
\* it can start nothing.
CliFollowsCall ==
  /\ pc \in Before => cli = "none" /\ container = "none"
  /\ pc \in {"wait", "kill_cli"} => cli # "none"
  /\ pc \in After => cli \in {"dying", "exited"}

\* The program's exit status, the CLI's and the container's state agree.
ExitKnown ==
  /\ container \in {"none", "created", "running"} => programExit = NoCode
  /\ container = "exited" => programExit # NoCode
  /\ cliStatus = 0 => programExit = 0
  /\ completed => programExit = 0

\* The liveness task and the readers give up only at the end of what they watch.
TasksKnow ==
  /\ dead => container \in {"exited", "gone"}
  /\ readers = "eof" => cli = "exited" /\ received = written

\* Once the readers have been joined, what is not read was not decodable.
OutputRead ==
  /\ pc \in {"drain", "cleanup", "cleanup_again", "close", "done"} /\ readers # "broken" =>
       received = written /\ readers \in {"eof", "aborted"}
  /\ pc \in {"cleanup", "cleanup_again", "close", "done"} => output = received

RunInv == TypeOK /\ CliFollowsCall /\ ExitKnown /\ TasksKnow /\ OutputRead

LEMMA RunInitially == Init => RunInv
<1> SUFFICES ASSUME Init PROVE RunInv
  OBVIOUS
<1>1. TypeOK
  <2>1. cliStatus \in Codes /\ exitCode \in Codes /\ programExit \in {NoCode, 0, 1}
    BY DEF Init, Codes
  <2>2. written \in 0..MaxLines /\ received \in 0..written /\ output \in 0..received /\ rmFaults \in 0..MaxRmFaults
    BY DockerAssumption DEF Init
  <2>3. /\ token \in BOOLEAN /\ due \in BOOLEAN /\ dead \in BOOLEAN /\ stuck \in BOOLEAN /\ completed \in BOOLEAN
    BY Zenon DEF Init
  <2> QED BY <2>1, <2>2, <2>3 DEF Init, TypeOK
<1>2. CliFollowsCall /\ ExitKnown /\ TasksKnow /\ OutputRead
  BY DEF Init, CliFollowsCall, ExitKnown, TasksKnow, OutputRead, NoCode, Before, After
<1> QED BY <1>1, <1>2 DEF RunInv

-----------------------------------------------------------------------------
(* The steps keep the invariant. *)

USE DEF NoCode, Killed, Refused

LEMMA StartingKeeps ==
  ASSUME RunInv, InspectImage \/ PullImage \/ SpawnCli \/ SpawnFails
  PROVE  RunInv'
BY DEF InspectImage, PullImage, SpawnCli, SpawnFails, Step, cliVars, daemonVars, signalVars, watchVars, ioVars,
       resultVars, RunInv, TypeOK, CliFollowsCall, ExitKnown, TasksKnow, OutputRead, Before, After

LEMMA SelectKeeps ==
  ASSUME RunInv, SelectExited \/ Aborted \/ KillCli
  PROVE  RunInv'
<1>1. CASE SelectExited
  BY <1>1 DEF SelectExited, Leave, Step, Codes, RunInv, TypeOK, CliFollowsCall, ExitKnown, TasksKnow, OutputRead,
         Before, After, cliVars, daemonVars, signalVars, watchVars, ioVars, resultVars
<1>2. CASE Aborted
  <2>1. /\ pc = "wait" /\ pc' = "kill_cli" /\ liveness' = "off"
        /\ UNCHANGED <<cliVars, daemonVars, signalVars, dead, ioVars, resultVars, rmFaults, server>>
    BY <1>2 DEF Aborted, Leave, Step
  <2> QED
    BY <2>1 DEF RunInv, TypeOK, CliFollowsCall, ExitKnown, TasksKnow, OutputRead, Before, After, cliVars, daemonVars,
                signalVars, ioVars, resultVars
<1>3. CASE KillCli
  <2>1. /\ pc = "kill_cli" /\ pc' = "kill_container"
        /\ cli' = (IF cli = "running" THEN "dying" ELSE cli)
        /\ UNCHANGED <<cliStatus, daemonVars, signalVars, watchVars, ioVars, resultVars, rmFaults, server>>
    BY <1>3 DEF KillCli, Step
  <2>2. cli' \in {"dying", "exited"}
    BY <2>1 DEF RunInv, TypeOK, CliFollowsCall
  <2> QED
    BY <2>1, <2>2 DEF RunInv, TypeOK, CliFollowsCall, ExitKnown, TasksKnow, OutputRead, Before, After, daemonVars,
                      signalVars, watchVars, ioVars, resultVars
<1> QED BY <1>1, <1>2, <1>3

\* A removal, at whatever point and by whomever.
LEMMA RemovalTyped ==
  ASSUME RunInv, RmOk \/ RmFault
  PROVE  /\ container' \in {container, Removed} /\ programExit' = programExit
         /\ rmFaults' \in 0..MaxRmFaults
BY DockerAssumption DEF RunInv, TypeOK, RmOk, RmFault, daemonVars

LEMMA RemovalKeeps ==
  ASSUME RunInv, ForceKillContainer \/ CleanupContainer \/ RemoveListed
  PROVE  RunInv'
<1>1. RmOk \/ RmFault
  BY DEF ForceKillContainer, CleanupContainer, RemoveListed
<1>2. /\ container' \in {container, Removed} /\ programExit' = programExit
      /\ rmFaults' \in 0..MaxRmFaults
  BY <1>1, RemovalTyped
<1>3. /\ UNCHANGED <<cliVars, signalVars, watchVars, ioVars, resultVars>>
      /\ \/ pc' = pc /\ server' = "removed"
         \/ pc = "kill_container" /\ pc' = "reap" /\ server' = server
         \/ pc \in {"cleanup", "cleanup_again"} /\ pc' \in {"cleanup_again", "close"} /\ server' = server
  BY DEF ForceKillContainer, CleanupContainer, RemoveListed, Shutdown, Step
<1> QED
  BY <1>2, <1>3
     DEF Removed, cliVars, signalVars, watchVars, ioVars, resultVars, RunInv, TypeOK, CliFollowsCall, ExitKnown,
         TasksKnow, OutputRead, Before, After

LEMMA EndKeeps ==
  ASSUME RunInv, Reap \/ JoinReaders \/ DrainOutput \/ CloseWatchdog
  PROVE  RunInv'
<1>1. CASE Reap
  BY <1>1 DEF Reap, Step, cliVars, daemonVars, signalVars, watchVars, ioVars, RunInv, TypeOK, CliFollowsCall,
              ExitKnown, TasksKnow, OutputRead, Before, After, Codes
<1>2. CASE JoinReaders
  BY <1>2 DEF JoinReaders, Step, cliVars, daemonVars, signalVars, watchVars, resultVars, RunInv, TypeOK,
              CliFollowsCall, ExitKnown, TasksKnow, OutputRead, Before, After
<1>3. CASE DrainOutput
  BY <1>3 DEF DrainOutput, Step, cliVars, daemonVars, signalVars, watchVars, resultVars, RunInv, TypeOK,
              CliFollowsCall, ExitKnown, TasksKnow, OutputRead, Before, After
<1>4. CASE CloseWatchdog
  BY <1>4 DEF CloseWatchdog, Step, cliVars, daemonVars, signalVars, watchVars, ioVars, resultVars, RunInv, TypeOK,
              CliFollowsCall, ExitKnown, TasksKnow, OutputRead, Before, After
<1> QED BY <1>1, <1>2, <1>3, <1>4

LEMMA ReadersKeep ==
  ASSUME RunInv, Readers
  PROVE  RunInv'
BY DEF Readers, ReadLine, ReadEof, ReadUndecodable, cliVars, daemonVars, signalVars, watchVars, resultVars, RunInv,
       TypeOK, CliFollowsCall, ExitKnown, TasksKnow, OutputRead, Before, After

LEMMA DockerKeeps ==
  ASSUME RunInv, Docker
  PROVE  RunInv'
<1>1. CASE CreateContainer \/ RefuseContainer \/ StartContainer \/ ExitProgram
  BY <1>1 DEF CreateContainer, RefuseContainer, StartContainer, ExitProgram, cliVars, daemonVars, signalVars,
              watchVars, ioVars, resultVars, RunInv, TypeOK, CliFollowsCall, ExitKnown, TasksKnow, OutputRead,
              Before, After, Codes
<1>2. CASE WriteLine
  BY <1>2, DockerAssumption
     DEF WriteLine, cliVars, daemonVars, signalVars, watchVars, resultVars, RunInv, TypeOK, CliFollowsCall,
         ExitKnown, TasksKnow, OutputRead, Before, After
<1>3. CASE ExitCli \/ BreakPipe \/ DieCli
  BY <1>3 DEF ExitCli, BreakPipe, DieCli, daemonVars, signalVars, watchVars, ioVars, resultVars, RunInv, TypeOK,
              CliFollowsCall, ExitKnown, TasksKnow, OutputRead, Before, After, Codes
<1> QED BY <1>1, <1>2, <1>3 DEF Docker

LEMMA SignalsKeep ==
  ASSUME RunInv, CheckLiveness \/ CancelRun \/ PassDeadline \/ ListContainers \/ ExitServer \/ UNCHANGED vars
  PROVE  RunInv'
<1>1. CASE CheckLiveness
  BY <1>1 DEF CheckLiveness, IsFatal, RunInv, TypeOK, CliFollowsCall, ExitKnown, TasksKnow, OutputRead,
         Before, After, cliVars, daemonVars, signalVars, watchVars, ioVars, resultVars
<1>2. CASE CancelRun \/ PassDeadline
  <2>1. /\ token' \in {token, TRUE} /\ due' \in {due, TRUE}
        /\ UNCHANGED <<pc, cliVars, daemonVars, watchVars, ioVars, resultVars, rmFaults, server>>
    BY <1>2 DEF CancelRun, PassDeadline
  <2>2. token' \in BOOLEAN /\ due' \in BOOLEAN
    BY <2>1 DEF RunInv, TypeOK
  <2> QED
    BY <2>1, <2>2 DEF RunInv, TypeOK, CliFollowsCall, ExitKnown, TasksKnow, OutputRead, Before, After, cliVars,
                      daemonVars, watchVars, ioVars, resultVars
<1>3. CASE ListContainers \/ ExitServer
  BY <1>3 DEF ListContainers, ExitServer, Shutdown, RunInv, TypeOK, CliFollowsCall, ExitKnown, TasksKnow, OutputRead,
         Before, After, cliVars, daemonVars, signalVars, watchVars, ioVars, resultVars
<1>4. CASE UNCHANGED vars
  BY <1>4 DEF vars, RunInv, TypeOK, CliFollowsCall, ExitKnown, TasksKnow, OutputRead,
         Before, After, cliVars, daemonVars, signalVars, watchVars, ioVars, resultVars
<1> QED BY <1>1, <1>2, <1>3, <1>4

LEMMA RunStep == RunInv /\ [Next]_vars => RunInv'
BY StartingKeeps, SelectKeeps, RemovalKeeps, EndKeeps, ReadersKeep, DockerKeeps, SignalsKeep DEF Next, Call

THEOREM RunInvariant == Spec => []RunInv
BY RunInitially, RunStep, PTL DEF Spec

\* Every variable of a container run keeps its type.
THEOREM RunTypeCorrect == Spec => []TypeOK
<1>1. RunInv => TypeOK
  BY DEF RunInv
<1> QED BY <1>1, RunInvariant, PTL

\* Whatever ended a run, and however much it printed, its result holds all the output
\* unless a line was not UTF-8 (execute_docker_command_v2).
THEOREM NoOutputLost == Spec => []OutputComplete
<1>1. RunInv => OutputComplete
  BY DEF RunInv, OutputRead, OutputComplete
<1> QED BY <1>1, RunInvariant, PTL

\* The select gives a run up only for the end of the CLI or the container, a cancel or
\* the deadline.
THEOREM AbortedForCause == Spec => AbortsForCause
<1> DEFINE Cause ==
      pc = "wait" /\ pc' = "kill_cli" => cli = "exited" \/ token \/ due \/ container \in {"exited", "gone"}
<1>1. RunInv /\ [Next]_vars => Cause \/ UNCHANGED vars
  <2> SUFFICES ASSUME RunInv, Next, pc = "wait", pc' = "kill_cli"
               PROVE  cli = "exited" \/ token \/ due \/ container \in {"exited", "gone"}
    BY DEF Cause
  <2>1. Aborted
    BY DEF Next, Call, InspectImage, PullImage, SpawnCli, SpawnFails, SelectExited, Leave, KillCli,
           ForceKillContainer, Reap, JoinReaders, DrainOutput, CleanupContainer, CloseWatchdog, Step, CheckLiveness,
           Readers, ReadLine, ReadEof, ReadUndecodable, Docker, CreateContainer, RefuseContainer, StartContainer,
           WriteLine, ExitProgram, ExitCli, BreakPipe, DieCli, CancelRun, PassDeadline, ListContainers, RemoveListed,
           ExitServer, Shutdown
  <2> QED BY <2>1 DEF Aborted, SelectAborts, RunInv, TasksKnow
<1> QED BY <1>1, RunInvariant, PTL DEF Spec, AbortsForCause

-----------------------------------------------------------------------------
(* The run implements ContainerRun: of two removals, one that is lost is   *)
(* made up for by the other.                                               *)

OneRemovalLost == MaxRmFaults <= 1

\* A container that still runs at the end has cost the one removal that may fail.
RemovalInv ==
  /\ container = "running" /\ pc \in {"reap", "join", "drain", "cleanup", "cleanup_again"} => rmFaults >= 1
  /\ pc \in {"close", "done"} => container # "running"

LEMMA RemovalStep ==
  ASSUME OneRemovalLost, RunInv, RemovalInv, [Next]_vars PROVE RemovalInv'
<1>1. rmFaults \in Nat /\ rmFaults <= MaxRmFaults
  BY DockerAssumption DEF RunInv, TypeOK
<1>2. CASE Call
  <2>1. CASE ForceKillContainer \/ CleanupContainer
    <3>1. RmOk => container' # "running"
      BY DEF RmOk, Removed
    <3>2. RmFault => container' = container /\ rmFaults = 0 /\ rmFaults' = 1
      BY <1>1, DockerAssumption DEF RmFault, OneRemovalLost, daemonVars
    <3>3. CASE ForceKillContainer
      BY <3>1, <3>2, <3>3 DEF ForceKillContainer, Step, RemovalInv
    <3>4. CASE CleanupContainer
      BY <1>1, <3>1, <3>2, <3>4 DEF CleanupContainer, Step, RemovalInv
    <3> QED BY <2>1, <3>3, <3>4
  <2>2. CASE SelectExited
    BY <2>2 DEF SelectExited, Leave, Step, daemonVars, RemovalInv, RunInv, TypeOK, ExitKnown
  <2>3. CASE InspectImage \/ PullImage \/ SpawnCli \/ SpawnFails \/ Aborted \/ KillCli \/ Reap \/ JoinReaders
               \/ DrainOutput \/ CloseWatchdog
    BY <2>3 DEF InspectImage, PullImage, SpawnCli, SpawnFails, Aborted, Leave, KillCli, Reap, JoinReaders, DrainOutput,
                CloseWatchdog, Step, daemonVars, RemovalInv
  <2> QED BY <1>2, <2>1, <2>2, <2>3 DEF Call
<1>3. CASE CheckLiveness \/ Readers \/ CancelRun \/ PassDeadline \/ ListContainers \/ ExitServer \/ UNCHANGED vars
  BY <1>3 DEF CheckLiveness, Readers, ReadLine, ReadEof, ReadUndecodable, CancelRun, PassDeadline, ListContainers,
              ExitServer, Shutdown, vars, daemonVars, RemovalInv
<1>4. CASE RemoveListed
  BY <1>1, <1>4 DEF RemoveListed, Shutdown, RmOk, RmFault, Removed, daemonVars, RemovalInv
<1>5. CASE Docker
  BY <1>5 DEF Docker, CreateContainer, RefuseContainer, StartContainer, WriteLine, ExitProgram, ExitCli, BreakPipe,
              DieCli, daemonVars, RemovalInv, RunInv, CliFollowsCall, After
<1> QED BY <1>2, <1>3, <1>4, <1>5 DEF Next

\* A step of the docker side, or a removal, is a step of the program or none.
LEMMA ProgramMoves ==
  ASSUME RunInv, UNCHANGED callState,
         \/ UNCHANGED <<container, programExit>>
         \/ container' = Removed /\ UNCHANGED programExit
         \/ CreateContainer \/ ExitProgram
         \/ (StartContainer /\ callState \in {"open", "abandoned"})
  PROVE  [Promise!RunNext]_<<callState, programState>>
<1>1. /\ container \in {"none", "created", "running", "exited", "gone"}
      /\ programExit \in {NoCode, 0, 1}
      /\ container \in {"none", "created", "running"} => programExit = NoCode
      /\ container = "exited" => programExit # NoCode
  BY DEF RunInv, TypeOK, ExitKnown
<1>2. CASE UNCHANGED <<container, programExit>>
  BY <1>2 DEF programState
<1>3. CASE container' = Removed /\ UNCHANGED programExit
  <2>1. programState' = (IF container = "none" THEN "absent"
                         ELSE IF programExit = NoCode THEN "killed" ELSE programState)
    BY <1>1, <1>3 DEF Removed, programState
  <2>2. container = "none" => programState = "absent"
    BY <1>1 DEF programState
  <2>3. programExit = NoCode => programState \in {"alive", "absent", "killed"}
    BY <1>1 DEF programState
  <2> QED BY <2>1, <2>2, <2>3 DEF Promise!RunNext, Promise!ProgramFinishes
<1>4. CASE CreateContainer
  BY <1>1, <1>4 DEF CreateContainer, programState
<1>5. CASE StartContainer /\ callState \in {"open", "abandoned"}
  <2>1. programState = "absent" /\ programState' = "alive"
    BY <1>1, <1>5 DEF StartContainer, programState
  <2> QED BY <1>5, <2>1 DEF Promise!RunNext, Promise!ProgramBegins
<1>6. CASE ExitProgram
  <2>1. programState = "alive" /\ programState' \in {"exited_ok", "exited_bad"}
    BY <1>6 DEF ExitProgram, programState
  <2> QED BY <2>1 DEF Promise!RunNext, Promise!ProgramFinishes
<1> QED BY <1>2, <1>3, <1>4, <1>5, <1>6

LEMMA RunImplements ==
  ASSUME RunInv, RemovalInv, [Next]_vars PROVE [Promise!RunNext]_<<callState, programState>>
<1>1. CASE CloseWatchdog
  <2>1. pc = "close" /\ pc' = "done" /\ server # "exited" /\ UNCHANGED <<container, programExit, completed, exitCode>>
    BY <1>1 DEF CloseWatchdog, Step, daemonVars, resultVars
  <2>2. callState = "open" /\ callState' = (IF is_success THEN "succeeded" ELSE "failed")
    BY <2>1 DEF callState, is_success
  <2>3. UNCHANGED programState /\ programState # "alive"
    BY <2>1 DEF programState, RemovalInv
  <2>4. is_success => programState = "exited_ok"
    <3>1. completed => programExit = 0
      BY DEF RunInv, ExitKnown
    <3>2. container # "running"
      BY <2>1 DEF RemovalInv
    <3> QED BY <3>1, <3>2 DEF is_success, programState
  <2> QED BY <2>2, <2>3, <2>4 DEF Promise!RunNext, Promise!Succeeds, Promise!Fails
<1>2. CASE PullImage \/ SpawnFails
  <2>1. /\ pc \in {"pull", "spawn"} /\ pc' \in {"spawn", "error"} /\ server # "exited"
        /\ UNCHANGED <<container, programExit, server>>
    BY <1>2 DEF PullImage, SpawnFails, Step, daemonVars
  <2>2. UNCHANGED programState /\ programState # "alive"
    BY <2>1 DEF programState, RunInv, CliFollowsCall, Before, ExitKnown
  <2>3. callState = "open" /\ callState' \in {"open", "failed"}
    BY <2>1 DEF callState
  <2> QED BY <2>2, <2>3 DEF Promise!RunNext, Promise!Fails
<1>3. CASE ExitServer
  <2>1. UNCHANGED <<pc, container, programExit, completed, exitCode>> /\ server = "removed" /\ server' = "exited"
    BY <1>3 DEF ExitServer, Shutdown, daemonVars, resultVars
  <2>2. UNCHANGED programState
    BY <2>1 DEF programState
  <2>3. UNCHANGED callState \/ (callState = "open" /\ callState' = "abandoned")
    BY <2>1 DEF callState, is_success
  <2> QED BY <2>2, <2>3 DEF Promise!RunNext, Promise!Abandoned
<1>4. CASE ForceKillContainer \/ CleanupContainer
  <2>1. /\ pc \in {"kill_container", "cleanup", "cleanup_again"} /\ pc' \in {"reap", "cleanup_again", "close"}
        /\ UNCHANGED server
        /\ UNCHANGED <<container, programExit>> \/ (container' = Removed /\ UNCHANGED programExit)
    BY <1>4 DEF ForceKillContainer, CleanupContainer, Step, RmOk, RmFault, daemonVars
  <2> QED BY <2>1, ProgramMoves DEF callState
<1>5. CASE RemoveListed
  <2>1. /\ UNCHANGED <<pc, completed, exitCode>> /\ server = "listed" /\ server' = "removed"
        /\ UNCHANGED <<container, programExit>> \/ (container' = Removed /\ UNCHANGED programExit)
    BY <1>5 DEF RemoveListed, Shutdown, RmOk, RmFault, daemonVars, resultVars
  <2> QED BY <2>1, ProgramMoves DEF callState, is_success
<1>6. CASE InspectImage \/ SpawnCli \/ SelectExited \/ Aborted \/ KillCli \/ Reap \/ JoinReaders \/ DrainOutput
  <2>1. /\ pc \notin {"done", "error"} /\ pc' \notin {"done", "error"}
        /\ UNCHANGED <<server, container, programExit>>
    BY <1>6 DEF InspectImage, SpawnCli, SelectExited, Aborted, Leave, KillCli, Reap, JoinReaders, DrainOutput, Step,
                daemonVars
  <2> QED BY <2>1, ProgramMoves DEF callState
<1>7. CASE Docker
  <2>1. UNCHANGED <<pc, completed, exitCode, server>>
    BY <1>7 DEF Docker, CreateContainer, RefuseContainer, StartContainer, WriteLine, ExitProgram, ExitCli, BreakPipe,
                DieCli, resultVars
  <2>2. StartContainer => callState \in {"open", "abandoned"}
    BY DEF StartContainer, callState, RunInv, CliFollowsCall, Before, After
  <2>3. UNCHANGED <<container, programExit>> \/ CreateContainer \/ StartContainer \/ ExitProgram
    BY <1>7 DEF Docker, RefuseContainer, WriteLine, ExitCli, BreakPipe, DieCli, daemonVars
  <2>4. UNCHANGED callState
    BY <2>1 DEF callState, is_success
  <2> QED BY <2>2, <2>3, <2>4, ProgramMoves
<1>8. CASE CheckLiveness \/ Readers \/ CancelRun \/ PassDeadline \/ ListContainers \/ UNCHANGED vars
  <2>1. /\ UNCHANGED <<pc, completed, exitCode, container, programExit>>
        /\ server' = server \/ (server = "up" /\ server' \in {"listed", "removed"})
    BY <1>8 DEF CheckLiveness, Readers, ReadLine, ReadEof, ReadUndecodable, CancelRun, PassDeadline, ListContainers,
                Shutdown, vars, daemonVars, resultVars
  <2>2. UNCHANGED callState
    BY <2>1 DEF callState, is_success
  <2> QED BY <2>1, <2>2, ProgramMoves
<1> QED BY <1>1, <1>2, <1>3, <1>4, <1>5, <1>6, <1>7, <1>8 DEF Next, Call

\* run_command_with_limits_and_volume_with_callback_and_env keeps what ContainerRun
\* promises when docker loses at most one removal: nothing of the run is alive, or can
\* still start, once the call has returned.
THEOREM RunKeepsPromise == ASSUME OneRemovalLost PROVE Spec => KeepsPromise
<1>1. Init => Promise!RunInit /\ RemovalInv
  BY DEF Init, Promise!RunInit, callState, programState, RemovalInv
<1>2. RunInv /\ RemovalInv /\ [Next]_vars => RemovalInv' /\ [Promise!RunNext]_<<callState, programState>>
  BY RemovalStep, RunImplements
<1> QED BY <1>1, <1>2, RunInvariant, PTL DEF Spec, KeepsPromise, Promise!RunSpec

\* What the promise comes to for a caller.
CallIsOver ==
  returned => container # "running" /\ (pc = "done" /\ is_success => programExit = 0)

\* Once run_command_with_limits_and_volume_with_callback_and_env has returned, and for
\* ever after, its program does not run, and a success means that it exited with 0,
\* when docker loses at most one removal.
THEOREM NothingOutlivesTheCall == ASSUME OneRemovalLost PROVE Spec => []CallIsOver
<1> DEFINE Kept == /\ callState \in {"succeeded", "failed"} => programState # "alive"
                   /\ callState = "succeeded" => programState = "exited_ok"
<1>1. Promise!RunInit => Kept
  BY DEF Promise!RunInit
<1>2. Kept /\ [Promise!RunNext]_<<callState, programState>> => Kept'
  BY DEF Promise!RunNext, Promise!ProgramBegins, Promise!ProgramFinishes, Promise!Succeeds, Promise!Fails,
         Promise!Abandoned
<1>3. Kept => CallIsOver
  BY DEF CallIsOver, returned, callState, programState
<1> HIDE DEF Kept
<1> QED BY <1>1, <1>2, <1>3, RunKeepsPromise, PTL DEF KeepsPromise, Promise!RunSpec
=============================================================================
