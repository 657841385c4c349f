----------------------------- MODULE ContainerRun -----------------------------
(***************************************************************************)
(* What a caller of run_command_with_limits_and_volume relies on, whatever *)
(* Docker does: the program runs at most once and only during the call;    *)
(* the call succeeds only for a program that exited with 0; and once the   *)
(* call has returned nothing of the run is alive.                          *)
(***************************************************************************)

VARIABLES
  call,     \* "open", "succeeded", "failed"; "abandoned" when the server went away
  program   \* "absent", "alive", "exited_ok", "exited_bad", "killed"

RunInit == call = "open" /\ program = "absent"

ProgramBegins ==
  /\ program = "absent" /\ call \in {"open", "abandoned"}
  /\ program' = "alive" /\ UNCHANGED call

ProgramFinishes ==
  /\ \/ program = "alive" /\ program' \in {"exited_ok", "exited_bad", "killed"}
     \/ program = "absent" /\ program' = "killed"   \* removed before it began
  /\ UNCHANGED call

Succeeds ==
  /\ call = "open" /\ program = "exited_ok"
  /\ call' = "succeeded" /\ UNCHANGED program

Fails ==
  /\ call = "open" /\ program # "alive"
  /\ call' = "failed" /\ UNCHANGED program

Abandoned ==
  /\ call = "open"
  /\ call' = "abandoned" /\ UNCHANGED program

RunNext == ProgramBegins \/ ProgramFinishes \/ Succeeds \/ Fails \/ Abandoned

RunSpec == RunInit /\ [][RunNext]_<<call, program>>
=============================================================================
