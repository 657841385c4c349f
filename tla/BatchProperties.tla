--------------------------- MODULE BatchProperties ---------------------------
(***************************************************************************)
(* What the model gate and a session over whole languages are to guarantee.*)
(***************************************************************************)
EXTENDS ExerciseBatch, TLC

CONSTANTS e1, e2, e3, m1

TwoLanguages == <<{e1, e2}, {e3}>>
OneModel == [c \in Callers |-> m1]

\* "One load at a time" (Inner::load_lock): of the callers that wait for a model,
\* at most one has asked the server to load it, and it holds the lock.
OneLoad ==
  \A c \in Callers : phase[c] \in Waiting => lock = c

\* run_all_exercises: "concurrent exercises for the same model queue behind one
\* check, and only the first pays for a load" - two warm-ups for a model are in
\* flight only if the caller of one went on without the model (it gave up, or
\* /running did not answer), or the server has dropped the model since.
OnlyFirstPays ==
  \A c, d \in warm :
    c # d /\ ModelOf[c] = ModelOf[d] =>
      evictions > 0 \/ abandoned \cap {c, d} # {}

\* A session is not COMPLETED when one of the results it counted was a failure,
\* in whichever language (execute_all_exercises, execute).
FailureIsShown ==
  bpc = "done" /\ status = "COMPLETED" => \A c \in Callers : result[c] # "failed"

\* Whatever the inference server does, a session over all exercises ends: the
\* gate "never fails: every outcome, including giving up, lets the exercise
\* proceed", and a parallelism of 0 is taken for 1.
BatchEnds == <>(bpc = "done")
=============================================================================
