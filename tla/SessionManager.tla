---------------------------- MODULE SessionManager ----------------------------
(***************************************************************************)
(* services/session_manager.rs: the map of sessions and, behind a lock of  *)
(* its own, the map of cancellation tokens.  A token, once inserted, is    *)
(* never removed and never un-fired.                                       *)
(***************************************************************************)
EXTENDS WebIdentifiers

RunStatus == {"PENDING", "RUNNING", "COMPLETED", "FAILED", "CANCELLED"}
Active == {"PENDING", "RUNNING"}
Terminal == RunStatus \ Active
Absent == "absent"

VARIABLES
  sessions,  \* session id -> its status in the map, or Absent
  tokens     \* session id -> "absent", "live" or "fired"

sessionVars == <<sessions, tokens>>

SessionTypeOK ==
  /\ sessions \in [Sessions -> RunStatus \cup {Absent}]
  /\ tokens \in [Sessions -> {"absent", "live", "fired"}]

SessionInit ==
  /\ sessions = [s \in Sessions |-> Absent]
  /\ tokens = [s \in Sessions |-> "absent"]

\* create_session takes the two locks one after the other.
InsertSession(s) ==
  /\ sessions' = [sessions EXCEPT ![s] = "PENDING"]
  /\ UNCHANGED tokens

InsertToken(s) ==
  /\ tokens' = [tokens EXCEPT ![s] = "live"]
  /\ UNCHANGED sessions

\* cancel_session when it returns true: the token is fired if there is one yet.
CancelSession(s) ==
  /\ sessions[s] \in Active
  /\ sessions' = [sessions EXCEPT ![s] = "CANCELLED"]
  /\ tokens' = [tokens EXCEPT ![s] = IF @ = "live" THEN "fired" ELSE @]

\* update_session overwrites whatever status the map holds.
UpdateSession(s, status) ==
  /\ sessions' = IF sessions[s] = Absent THEN sessions
                 ELSE [sessions EXCEPT ![s] = status]
  /\ UNCHANGED tokens

\* shutdown force-completes the active sessions and clears the map; the tokens
\* are left as they are.
ShutdownSessions ==
  /\ sessions' = [s \in Sessions |-> Absent]
  /\ UNCHANGED tokens
=============================================================================
