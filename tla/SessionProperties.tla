-------------------------- MODULE SessionProperties ---------------------------
(***************************************************************************)
(* What a session's verdict and its live output are worth.                 *)
(***************************************************************************)
EXTENDS SessionRun

\* What a language of a COMPLETED session stands for.  A partial solution passes
\* where tests are skipped: those of claude, which nobody patches, or marks that
\* test_patches.rs does not know.  The reference agent drops the errors of copying
\* and patching its tests.
Earned(l) ==
  \/ category = "aoc" /\ l > 1
  \/ judged[l] \in {"whole", "altered", "quietly"}
  \/ agent = "claude" /\ judged[l] = "partial" /\ Marked(Languages[l]) = "some"
  \/ agent # "claude" /\ judged[l] = "odd" /\ Marked(Languages[l]) = "some"
  \/ agent = "reference" /\ judged[l] = "cut"

\* A session ends COMPLETED only over results that were earned: in every language
\* tests that skipped nothing accepted the whole solution of reference or pi, unless
\* the agent changed the tests, they failed with exit status 0, their marks have a
\* form the patch does not know, or the reference agent ignored that its copy or its
\* patch of the tests had failed; pi's call ends with that error (agent/*.rs,
\* execute_single_exercise).
CompletedIsEarned ==
  (pc = "close" /\ status = "COMPLETED") => \A l \in DOMAIN Languages : Earned(l)

\* A work directory stays behind only when the agent call returned an error, so that
\* the session is not COMPLETED, or when removing it was tried and failed, which
\* nobody is told (prevents disk accumulation over many runs).
OnlyErrorsLeak ==
  /\ "silently" \notin leaked
  /\ "with_error" \in leaked /\ pc = "close" => status # "COMPLETED"

\* Once the shutdown flag is up every open stream ends, although the executor may
\* hold a sender for ever: graceful shutdown waits for these connections (lib.rs).
\* A stream looks at the flag only when it was silent for 100 ms, and the output
\* ends because the shutdown removes the containers (here it is bounded, MaxLines).
StreamsEnd == \A v \in Viewers : flag ~> vpc[v] # "open"

-----------------------------------------------------------------------------

\* The languages of the instance.
JavaThenGo == <<"java", "go">>
=============================================================================
