---------------------------- MODULE BenchmarkQueue ----------------------------
(***************************************************************************)
(* The in-memory queue of benchmark-web (models/queue.rs, queue_item.rs):  *)
(* one mutex over the vector all_items (what the UI lists), the deque      *)
(* inner (what the dispatcher polls) and the map current_items (what is    *)
(* being run).  Every method holds the mutex for all it does, so each is   *)
(* one action, except retry_item, which drops it half-way.                 *)
(*                                                                         *)
(* Both containers are only ever pushed at the back, together, and         *)
(* filtered, so a push is given a number and each container is a function  *)
(* from the numbers of the pushes it still holds: its order is theirs.     *)
(***************************************************************************)
EXTENDS WebIdentifiers, Sequences, FiniteSetsExt, Functions

ItemStatus == {"PENDING", "RUNNING", "COMPLETED", "FAILED", "CANCELLED"}
Item == [id : ItemIds, key : Keys, status : ItemStatus,
         session : Sessions \cup {NoSession}]

VARIABLES
  pushes,        \* how many pushes there have been
  all_items,     \* listed pushes -> Item
  inner,         \* pushes waiting to be polled -> Item
  current_items, \* ids of the items being run
  cancelled,     \* history: ids that cancel_item has found in all_items
  withdrawn,     \* history: those of them that it found PENDING
  retried        \* history: ids that retry_item has reset

historyVars == <<cancelled, withdrawn, retried>>
queueVars == <<pushes, all_items, inner, current_items, historyVars>>

QueueTypeOK ==
  /\ pushes \in Nat
  /\ DOMAIN all_items \subseteq 1..pushes
  /\ all_items \in [DOMAIN all_items -> Item]
  /\ DOMAIN inner \subseteq 1..pushes
  /\ inner \in [DOMAIN inner -> Item]
  /\ current_items \subseteq ItemIds
  /\ cancelled \subseteq ItemIds
  /\ withdrawn \subseteq ItemIds
  /\ retried \subseteq ItemIds

QueueInit ==
  /\ pushes = 0
  /\ all_items = [n \in {} |-> 0]
  /\ inner = [n \in {} |-> 0]
  /\ current_items = {}
  /\ cancelled = {}
  /\ withdrawn = {}
  /\ retried = {}

-----------------------------------------------------------------------------
(* Reading and rewriting the vector. *)

Retain(vec, kept) == Restrict(vec, {n \in DOMAIN vec : vec[n].status \in kept})

Entries(id) == {n \in DOMAIN all_items : all_items[n].id = id}
First(id) == Min(Entries(id))
Listed(id) == Entries(id) # {}

WithFirst(id, item) ==
  IF Listed(id) THEN [all_items EXCEPT ![First(id)] = item] ELSE all_items

WithStatus(id, status) ==
  WithFirst(id, [all_items[First(id)] EXCEPT !.status = status])

PendingKeys ==
  {all_items[n].key : n \in {m \in DOMAIN all_items : all_items[m].status = "PENDING"}}

SessionIdFor(id) == IF Listed(id) THEN all_items[First(id)].session ELSE NoSession

-----------------------------------------------------------------------------
(* The methods. *)

Pushed(vec, items) ==
  [n \in DOMAIN vec \cup (pushes + 1)..(pushes + Len(items)) |->
     IF n \in DOMAIN vec THEN vec[n] ELSE items[n - pushes]]

AddAll(items) ==
  /\ pushes' = pushes + Len(items)
  /\ inner' = Pushed(inner, items)
  /\ all_items' = Pushed(all_items, items)
  /\ UNCHANGED <<current_items, historyVars>>

PolledUnmarked == inner[Min(DOMAIN inner)]  \* mutated: not marked RUNNING
Polled == [inner[Min(DOMAIN inner)] EXCEPT !.status = "RUNNING"]

\* The popped clone overwrites the listed entry whole, its session id included.
PollNext ==
  /\ DOMAIN inner # {}
  /\ inner' = Restrict(inner, DOMAIN inner \ {Min(DOMAIN inner)})
  /\ all_items' = WithFirst(Polled.id, Polled)
  /\ current_items' = current_items \cup {Polled.id}
  /\ UNCHANGED <<pushes, historyVars>>

\* mutated: the id stays in the map
FinishCurrentKept(id, status) ==
  /\ all_items' = IF id \in current_items THEN WithStatus(id, status) ELSE all_items
  /\ UNCHANGED <<pushes, inner, current_items, historyVars>>

\* complete_current and fail_current: nothing unless the id is being run.
FinishCurrent(id, status) ==
  /\ current_items' = current_items \ {id}
  /\ all_items' = IF id \in current_items THEN WithStatus(id, status) ELSE all_items
  /\ UNCHANGED <<pushes, inner, historyVars>>

Uncancelled(id) == inner  \* mutated: the retain is forgotten
WithoutItem(id) == Restrict(inner, {n \in DOMAIN inner : inner[n].id # id})

\* Only a PENDING entry becomes CANCELLED, but the id leaves both other
\* containers whatever its status.
CancelItem(id) ==
  /\ Listed(id)
  /\ all_items' = IF all_items[First(id)].status = "PENDING"
                  THEN WithStatus(id, "CANCELLED") ELSE all_items
  /\ inner' = WithoutItem(id)
  /\ current_items' = current_items \ {id}
  /\ cancelled' = cancelled \cup {id}
  /\ withdrawn' = withdrawn \cup {i \in {id} : all_items[First(i)].status = "PENDING"}
  /\ UNCHANGED <<pushes, retried>>

\* mutated: clears the map as well
ClearPendingAndCurrent ==
  /\ inner' = Retain(inner, ItemStatus \ {"PENDING"})
  /\ all_items' = Retain(all_items, ItemStatus \ {"PENDING"})
  /\ current_items' = {}
  /\ UNCHANGED <<pushes, historyVars>>

NotPending == ItemStatus \ {"PENDING"}
ClearPending ==
  /\ inner' = Retain(inner, NotPending)
  /\ all_items' = Retain(all_items, NotPending)
  /\ UNCHANGED <<pushes, current_items, historyVars>>

NotCleared == ItemStatus \ {"COMPLETED", "CANCELLED"}
ClearTerminalItems ==
  /\ inner' = Retain(inner, NotCleared)
  /\ all_items' = Retain(all_items, NotCleared)
  /\ UNCHANGED <<pushes, current_items, historyVars>>

ClearAllItems ==
  /\ inner' = Restrict(inner, {})
  /\ all_items' = Restrict(all_items, {})
  /\ current_items' = {}
  /\ UNCHANGED <<pushes, historyVars>>

FinishedEntries(id) == Entries(id)  \* mutated: any entry can be retried
FailedEntries(id) == {n \in Entries(id) : all_items[n].status = "FAILED"}

\* First half of retry_item: the entry is reset under the lock; the clone that
\* will be pushed was taken before the reset, so it still says FAILED.
RetryClone(id) == all_items[Min(FailedEntries(id))]
RetryReset(id) ==
  /\ FailedEntries(id) # {}
  /\ all_items' = [all_items EXCEPT ![Min(FailedEntries(id))] =
                     [@ EXCEPT !.status = "PENDING", !.session = NoSession]]
  /\ retried' = retried \cup {id}
  /\ UNCHANGED <<pushes, inner, current_items, cancelled, withdrawn>>

SetSessionId(id, session) ==
  /\ all_items' = WithFirst(id, [all_items[First(id)] EXCEPT !.session = session])
  /\ UNCHANGED <<pushes, inner, current_items, historyVars>>
=============================================================================
