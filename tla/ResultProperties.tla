---------------------------- MODULE ResultProperties ----------------------------
(***************************************************************************)
(* What the result files and the cache are to guarantee.                   *)
(***************************************************************************)
EXTENDS ResultStore, TLC

CONSTANTS k1, k2, w1, w2, m1, m2

TwoModels == k1 :> m1 @@ k2 :> m2
OwnFiles == w1 :> k1 @@ w2 :> k2
SameFile == w1 :> k1 @@ w2 :> k1
Failure == [success |-> FALSE, duration |-> 1]
Success(d) == [success |-> TRUE, duration |-> d]
SomeResults == w1 :> {Failure, Success(1), Success(2), Success(3)} @@ w2 :> {Success(2)}
Runs == w1 :> 2 @@ w2 :> 1

\* The contract of save_result: between runs, the file of an exercise is a
\* success if one was written since the file was begun, and it counts every run
\* since then, those that were not kept included.  No success was faster than
\* the duration in the file reads, which may be a millisecond short of it.  A
\* write that fails, a crash in the middle of one, and a run that could not read
\* the file begin it again.
FileIsBest ==
  \A k \in Keys : ~Busy(k) /\ tries[k] > 0 =>
    /\ file[k].kind = "whole" /\ file[k].attempts = tries[k]
    /\ file[k].success = (best[k] > 0)
    /\ best[k] > 0 => ReadBack(file[k].duration) <= best[k] /\ best[k] <= file[k].duration

\* When nobody saves the exercise and no load is running, the cache shows what
\* the file says and lists its model, unless the last save overlapped a load
\* or the last save or load could not read it (update_single_result,
\* load_all_results).
CacheAgrees ==
  (\A l \in Loads : lpc[l] = "idle") =>
    \A k \in Keys \ stale : ~Busy(k) /\ file[k].kind = "whole" =>
      cache[k] = Entry(file[k]) /\ ModelOf[k] \in models

\* "Never overwrite a successful result with a failed one" (save_result): once a
\* success was written, the file is one, as long as it is not begun again.
SuccessNotOverwritten ==
  \A k \in Keys : ~Busy(k) /\ best[k] > 0 => file[k].success
=============================================================================
