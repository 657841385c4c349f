-------------------------- MODULE ContainerProperties --------------------------
(***************************************************************************)
(* What a container run promises.                                          *)
(***************************************************************************)
EXTENDS DockerRun

returned == pc \in {"done", "error"}

is_success == completed /\ exitCode = 0

callState ==
  CASE pc = "done" -> IF is_success THEN "succeeded" ELSE "failed"
    [] pc = "error" -> "failed"
    [] OTHER -> IF server = "exited" THEN "abandoned" ELSE "open"

programState ==
  IF container = "running" THEN "alive"
  ELSE IF programExit = 0 THEN "exited_ok"
  ELSE IF programExit = 1 THEN "exited_bad"
  ELSE IF container = "gone" THEN "killed" ELSE "absent"

Promise == INSTANCE ContainerRun WITH call <- callState, program <- programState

\* run_command_with_limits_and_volume_with_callback_and_env implements
\* ContainerRun: it succeeds only for a program that exited with 0, and when it
\* returns nothing of the run is alive or can still start, with one removal lost.
KeepsPromise == Promise!RunSpec

\* execute_docker_command_v2: whatever ended the run, and even if the pipe never
\* closes, the output it returns is every line the program wrote, unless a line
\* was not UTF-8.
OutputComplete ==
  pc \in {"cleanup", "cleanup_again", "close", "done"} /\ readers # "broken" => output = written

\* The select and the liveness task: a run whose CLI is still there is given up
\* only for a cause, and a container that has not started yet is none.
AbortsForCause ==
  [][pc = "wait" /\ pc' = "kill_cli" =>
       cli = "exited" \/ token \/ due \/ container \in {"exited", "gone"}]_vars

\* A cancel, the deadline or the end of the container ends the call, whatever
\* the docker CLI does (the waits of execute_docker_command_v2 are all bounded).
StopsWhenAsked ==
  pc = "wait" /\ (token \/ due) ~> returned \/ server = "exited"

\* The reason for the liveness task: a call does not outlive its container for
\* ever when the docker CLI hangs.  (A container that the shutdown removed looks
\* like one that has not started, and the call waits for its deadline.)
EndsWithContainer ==
  pc = "wait" /\ container = "exited" ~> returned \/ server # "up"
=============================================================================
