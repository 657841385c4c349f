------------------------------ MODULE ResultCache ------------------------------
(***************************************************************************)
(* The lock of cached_results (result_service/query.rs and load.rs): a     *)
(* std::sync::RwLock, which on Linux lets no reader in while a writer      *)
(* waits.  A query reads the cache and keeps its guard while it looks up   *)
(* the duration of every row it has found, with a read of its own; a trace *)
(* request keeps its guard while pi --export runs; a writer is a saved     *)
(* result (update_single_result) or a refresh (load_all_results).          *)
(***************************************************************************)
EXTENDS Naturals, FiniteSets

CONSTANTS
  Queries, Traces, Writers,  \* threads: requests for results and for a trace, updates
  MaxRows                    \* bound: rows that a query finds

VARIABLES
  pc,      \* threads -> idle, asked, reading, writing, done
  guards,  \* threads -> read guards it holds
  rows     \* Queries -> rows whose duration it has still to look up

vars == <<pc, guards, rows>>

Readers == Queries \cup Traces
Threads == Readers \cup Writers

Init ==
  /\ pc = [t \in Threads |-> "idle"]
  /\ guards = [t \in Threads |-> 0]
  /\ rows = [q \in Queries |-> 0]

\* A request arrives, or a run has saved its result.
Ask(t) ==
  /\ pc[t] = "idle"
  /\ pc' = [pc EXCEPT ![t] = "asked"]
  /\ UNCHANGED <<guards, rows>>

-----------------------------------------------------------------------------
(* The lock. *)

Writing == \E w \in Writers : pc[w] = "writing"
WriterWaits == \E w \in Writers : pc[w] = "asked"
Readable == ~Writing /\ ~WriterWaits
Writable == ~Writing /\ \A t \in Threads : guards[t] = 0

\* With the guard, the rows are collected and sorted (list_individual_results), or the
\* trace is looked for (get_trace_content).
Read(t) ==
  /\ t \in Readers /\ pc[t] = "asked" /\ Readable
  /\ pc' = [pc EXCEPT ![t] = "reading"]
  /\ guards' = [guards EXCEPT ![t] = 1]
  /\ \E n \in 0..MaxRows : rows' = [q \in Queries |-> IF q = t THEN n ELSE rows[q]]

\* The duration of a row: a second guard, for the time of the lookup.
LookUp(q) ==
  /\ pc[q] = "reading" /\ rows[q] > 0 /\ guards[q] = 1 /\ Readable
  /\ guards' = [guards EXCEPT ![q] = 2]
  /\ UNCHANGED <<pc, rows>>

FillIn(q) ==
  /\ guards[q] = 2
  /\ guards' = [guards EXCEPT ![q] = 1]
  /\ rows' = [rows EXCEPT ![q] = @ - 1]
  /\ UNCHANGED pc

Answer(t) ==
  /\ pc[t] = "reading" /\ guards[t] = 1 /\ (t \in Queries => rows[t] = 0)
  /\ pc' = [pc EXCEPT ![t] = "done"]
  /\ guards' = [guards EXCEPT ![t] = 0]
  /\ UNCHANGED rows

Write(w) ==
  /\ w \in Writers /\ pc[w] = "asked" /\ Writable
  /\ pc' = [pc EXCEPT ![w] = "writing"]
  /\ UNCHANGED <<guards, rows>>

Written(w) ==
  /\ pc[w] = "writing"
  /\ pc' = [pc EXCEPT ![w] = "done"]
  /\ UNCHANGED <<guards, rows>>

Step(t) ==
  \/ t \in Readers /\ (Read(t) \/ Answer(t))
  \/ t \in Queries /\ (LookUp(t) \/ FillIn(t))
  \/ t \in Writers /\ (Write(t) \/ Written(t))

Next == \E t \in Threads : Ask(t) \/ Step(t)

\* Threads run; pi --export ends.  Requests and runs come when they like.
FairSpec == Init /\ [][Next]_vars /\ \A t \in Threads : WF_vars(Step(t))

-----------------------------------------------------------------------------

\* A request for results is answered ("{results, total}", docs/API.md).
QueriesAnswer == \A q \in Queries : pc[q] = "asked" ~> pc[q] = "done"
=============================================================================
