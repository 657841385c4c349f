------------------------ MODULE QueueContents_proofs ------------------------
(***************************************************************************)
(* What the queue holds, for every value of the constants: the deque, the  *)
(* list, the map and the runs agree on an item that nobody retried.  The   *)
(* induction is per item: ItemInv(id) relates everything that knows of id. *)
(***************************************************************************)
EXTENDS Queue_proofs, SequenceTheorems

Over(r) == rpc[r] \in {"release_count", "release_permit", "notify", "done"}

InHand(id) == ditem # NoItem /\ ditem.id = id
Given(id, r) == ritem[r] # NoItem /\ ritem[r].id = id
Owned(id) == InHand(id) \/ \E r \in Runs : Working(r) /\ Given(id, r)
NeverPolled(id) == ~InHand(id) /\ \A r \in Runs : ~Given(id, r)
BatchedAt(id, h, k) == k \in DOMAIN hbatch[h] /\ hbatch[h][k].id = id
Batched(id) == \E h \in Handlers, k \in Nat : BatchedAt(id, h, k)
WaitsAt(id, n) == n \in DOMAIN inner /\ inner[n].id = id

\* An item that is not in the queue yet is known only to the one handler that
\* is about to add it.
BatchPart(id) ==
  /\ id > created => ~Batched(id)
  /\ id > created \/ Batched(id) =>
       Entries(id) = {} /\ NeverPolled(id) /\ id \notin cancelled \cup withdrawn
  /\ \A h, g \in Handlers : \A k, j \in Nat :
       BatchedAt(id, h, k) /\ BatchedAt(id, g, j) => h = g /\ k = j
  /\ \A h \in Handlers, k \in Nat : BatchedAt(id, h, k) => hbatch[h][k].status = "PENDING"

\* The same push holds it in the deque and in the list, where it is PENDING
\* exactly as long.
ViewPart(id) ==
  /\ \A n, m \in Entries(id) : n = m
  /\ \A n : WaitsAt(id, n) => n \in Entries(id) /\ inner[n].status = "PENDING"
  /\ \A n \in Entries(id) : all_items[n].status = "PENDING" <=> WaitsAt(id, n)

\* It is polled once: not after it was withdrawn, and not while it waits.
PolledPart(id) ==
  /\ id \in withdrawn => NeverPolled(id)
  /\ \A n : WaitsAt(id, n) => NeverPolled(id) /\ id \notin withdrawn
  /\ InHand(id) => \A r \in Runs : ~Given(id, r)
  /\ \A r, q \in Runs : Given(id, r) /\ Given(id, q) => r = q

\* Who has it in hand, what the map says, and what the list says.
CurrentPart(id) ==
  /\ id \in current_items =>
       Owned(id) /\ Listed(id) /\ \A n \in Entries(id) : all_items[n].status = "RUNNING"
  /\ Owned(id) /\ Listed(id) /\ id \notin cancelled => id \in current_items
  /\ \A r \in Runs : Given(id, r) /\ Over(r) /\ id \notin cancelled =>
       \A n \in Entries(id) : all_items[n].status = rlocal[r]

ItemInv(id) == BatchPart(id) /\ ViewPart(id) /\ PolledPart(id) /\ CurrentPart(id)

\* What the locals of the actors say, whatever the item.
LocalsInv ==
  /\ ditem # NoItem => dpc \in {"increment", "spawn", "aborted"}
  /\ \A r \in Runs : rpc[r] = "none" => ritem[r] = NoItem
  /\ \A r \in Runs : rpc[r] = "settle" \/ Over(r) => rlocal[r] \in Terminal
  /\ \A h \in Handlers : hpc[h] # "add" => hbatch[h] = <<>>

ContentsInv == LocalsInv /\ \A id \in ItemIds \ retried : ItemInv(id)

-----------------------------------------------------------------------------
(* What a step leaves as it was, for one item. *)

SameHands(id) ==
  /\ InHand(id)' <=> InHand(id)
  /\ \A r \in Runs :
       /\ Given(id, r)' <=> Given(id, r)
       /\ Given(id, r) => /\ Working(r)' <=> Working(r)
                          /\ Over(r)' <=> Over(r)
                          /\ Over(r) => rlocal'[r] = rlocal[r]

SameBatches(id) ==
  /\ id > created' <=> id > created
  /\ \A h \in Handlers, k \in Nat :
       /\ BatchedAt(id, h, k)' <=> BatchedAt(id, h, k)
       /\ BatchedAt(id, h, k) => hbatch'[h][k].status = hbatch[h][k].status

SameMarks(id) ==
  /\ id \in cancelled' <=> id \in cancelled
  /\ id \in withdrawn' <=> id \in withdrawn

SameList(id) ==
  /\ Entries(id)' = Entries(id)
  /\ \A n \in Entries(id) : all_items'[n].status = all_items[n].status
  /\ \A n : /\ WaitsAt(id, n)' <=> WaitsAt(id, n)
            /\ WaitsAt(id, n) => inner'[n].status = inner[n].status
  /\ id \in current_items' <=> id \in current_items

LEMMA HandsSame ==
  ASSUME NEW id, SameHands(id)
  PROVE  (Owned(id)' <=> Owned(id)) /\ (NeverPolled(id)' <=> NeverPolled(id))
BY DEF SameHands, Owned, NeverPolled

LEMMA BatchKept ==
  ASSUME NEW id, BatchPart(id), SameBatches(id),
         Batched(id) \/ id > created =>
           Entries(id)' = {} /\ NeverPolled(id)' /\ id \notin cancelled' \cup withdrawn'
  PROVE  BatchPart(id)'
<1>1. Batched(id)' <=> Batched(id)
  BY DEF Batched, SameBatches
<1> QED BY <1>1 DEF BatchPart, SameBatches

LEMMA OthersKept ==
  ASSUME NEW id, ItemInv(id), SameHands(id), SameList(id), SameMarks(id)
  PROVE  ViewPart(id)' /\ PolledPart(id)' /\ CurrentPart(id)'
<1>1. ViewPart(id)'
  BY DEF ItemInv, ViewPart, SameList
<1>2. PolledPart(id)'
  BY HandsSame DEF ItemInv, PolledPart, SameList, SameMarks, SameHands
<1>3. Listed(id)' <=> Listed(id)
  BY DEF Listed, SameList
<1>4. CurrentPart(id)'
  BY <1>3, HandsSame DEF ItemInv, CurrentPart, SameList, SameMarks, SameHands
<1> QED BY <1>1, <1>2, <1>4

\* A step that is about other items.
LEMMA ItemElsewhere ==
  ASSUME NEW id, ItemInv(id), SameHands(id), SameBatches(id), SameList(id), SameMarks(id)
  PROVE  ItemInv(id)'
<1>1. BatchPart(id)'
  BY HandsSame, BatchKept DEF ItemInv, BatchPart, SameList, SameMarks
<1> QED BY <1>1, OthersKept DEF ItemInv

\* Variables left alone.
LEMMA Unchanged ==
  ASSUME NEW id
  PROVE  /\ UNCHANGED <<ditem, ritem, rpc, rlocal>> => SameHands(id)
         /\ UNCHANGED <<hbatch, created>> => SameBatches(id)
         /\ UNCHANGED <<all_items, inner, current_items>> => SameList(id)
         /\ UNCHANGED historyVars => SameMarks(id)
<1>1. UNCHANGED <<ditem, ritem, rpc, rlocal>> => SameHands(id)
  BY DEF SameHands, InHand, Given, Working, Live, Over
<1>2. UNCHANGED <<hbatch, created>> => SameBatches(id)
  BY DEF SameBatches, BatchedAt
<1>3. UNCHANGED <<all_items, inner, current_items>> => SameList(id)
  BY DEF SameList, Entries, WaitsAt
<1> QED BY <1>1, <1>2, <1>3 DEF SameMarks, historyVars

-----------------------------------------------------------------------------
(* The queue's methods. *)

\* One entry is rewritten whole: the others stay what they were.
LEMMA Rewritten ==
  ASSUME QueueTypeOK, NEW wid, NEW item \in Item, item.id = wid,
         all_items' = WithFirst(wid, item), NEW id
  PROVE  /\ Entries(id)' = Entries(id)
         /\ id # wid => \A n \in Entries(id) : all_items'[n] = all_items[n]
         /\ (\A n, m \in Entries(wid) : n = m) => \A n \in Entries(wid) : all_items'[n] = item
<1>1. CASE Listed(wid)
  <2>1. /\ First(wid) \in DOMAIN all_items /\ First(wid) \in Entries(wid)
        /\ all_items[First(wid)].id = wid
    BY <1>1, FirstExists DEF First, Entries, Listed, QueueTypeOK
  <2>2. all_items' = [all_items EXCEPT ![First(wid)] = item]
    BY <1>1 DEF WithFirst
  <2>3. DOMAIN all_items' = DOMAIN all_items
    BY <2>2
  <2>4. \A n \in DOMAIN all_items : all_items'[n] = IF n = First(wid) THEN item ELSE all_items[n]
    BY <2>1, <2>2
  <2>5. Entries(id)' = Entries(id)
    BY <2>1, <2>3, <2>4 DEF Entries
  <2>6. id # wid => \A n \in Entries(id) : n # First(wid) /\ n \in DOMAIN all_items
    BY <2>1 DEF Entries
  <2>7. id # wid => \A n \in Entries(id) : all_items'[n] = all_items[n]
    BY <2>4, <2>6
  <2>8. (\A n, m \in Entries(wid) : n = m) => \A n \in Entries(wid) : n = First(wid)
    BY <2>1
  <2> QED BY <2>1, <2>4, <2>5, <2>7, <2>8
<1>2. CASE ~Listed(wid)
  <2>1. all_items' = all_items
    BY <1>2 DEF WithFirst
  <2> QED BY <1>2, <2>1 DEF Entries, Listed
<1> QED BY <1>1, <1>2

LEMMA StatusRewritten ==
  ASSUME QueueTypeOK, NEW wid, NEW status \in ItemStatus, all_items' = WithStatus(wid, status),
         NEW id
  PROVE  /\ Entries(id)' = Entries(id)
         /\ id # wid => \A n \in Entries(id) : all_items'[n] = all_items[n]
         /\ (\A n, m \in Entries(wid) : n = m) =>
              \A n \in Entries(wid) : all_items'[n].status = status
<1> DEFINE item == [all_items[First(wid)] EXCEPT !.status = status]
<1>1. CASE Listed(wid)
  <2>1. all_items[First(wid)] \in Item /\ all_items[First(wid)].id = wid
    BY <1>1, FirstListed, FirstExists DEF First, Entries, Listed, QueueTypeOK
  <2>2. item \in Item /\ item.id = wid /\ item.status = status
    BY <2>1 DEF Item
  <2>3. all_items' = WithFirst(wid, item)
    BY DEF WithStatus
  <2> HIDE DEF item
  <2> QED BY <2>2, <2>3, Rewritten
<1>2. CASE ~Listed(wid)
  <2>1. all_items' = all_items
    BY <1>2 DEF WithStatus, WithFirst
  <2> QED BY <1>2, <2>1 DEF Entries, Listed
<1> QED BY <1>1, <1>2

\* A container that is filtered holds what it held, where the filter keeps it.
LEMMA FilteredView ==
  ASSUME NEW S \in SUBSET DOMAIN all_items, NEW T \in SUBSET DOMAIN inner,
         all_items' = Restrict(all_items, S), inner' = Restrict(inner, T), NEW id
  PROVE  /\ Entries(id)' = Entries(id) \cap S
         /\ \A n \in Entries(id)' : all_items'[n] = all_items[n]
         /\ \A n : /\ WaitsAt(id, n)' <=> WaitsAt(id, n) /\ n \in T
                   /\ WaitsAt(id, n)' => inner'[n] = inner[n]
<1>1. DOMAIN all_items' = S /\ \A n \in S : all_items'[n] = all_items[n]
  BY DEF Restrict
<1>2. DOMAIN inner' = T /\ \A n \in T : inner'[n] = inner[n]
  BY DEF Restrict
<1> QED BY <1>1, <1>2 DEF Entries, WaitsAt

LEMMA ItemFiltered ==
  ASSUME NEW id, ItemInv(id), SameHands(id), SameBatches(id), SameMarks(id),
         NEW S \in SUBSET DOMAIN all_items, NEW T \in SUBSET DOMAIN inner,
         all_items' = Restrict(all_items, S), inner' = Restrict(inner, T),
         \A n : WaitsAt(id, n) => (n \in S <=> n \in T),
         \/ /\ current_items' = current_items
            /\ \A n \in Entries(id) : all_items[n].status = "RUNNING" => n \in S
         \/ current_items' = {} /\ S = {}
  PROVE  ItemInv(id)'
<1>1. /\ Entries(id)' = Entries(id) \cap S
      /\ \A n \in Entries(id)' : all_items'[n] = all_items[n]
      /\ \A n : /\ WaitsAt(id, n)' <=> WaitsAt(id, n) /\ n \in T
                /\ WaitsAt(id, n)' => inner'[n] = inner[n]
  BY FilteredView
<1>2. BatchPart(id)'
  BY <1>1, HandsSame, BatchKept DEF ItemInv, BatchPart, SameMarks
<1>3. ViewPart(id)'
  BY <1>1 DEF ItemInv, ViewPart
<1>4. PolledPart(id)'
  BY <1>1, HandsSame DEF ItemInv, PolledPart, SameMarks, SameHands
<1>5. CurrentPart(id)'
  BY <1>1, HandsSame DEF ItemInv, CurrentPart, SameMarks, SameHands, Listed
<1> QED BY <1>2, <1>3, <1>4, <1>5 DEF ItemInv

LEMMA ItemCleared ==
  ASSUME NEW id, QueueTypeOK, ItemInv(id), SameHands(id), SameBatches(id),
         ClearPending \/ ClearTerminalItems \/ ClearAllItems
  PROVE  ItemInv(id)'
<1>1. SameMarks(id)
  BY Unchanged DEF ClearPending, ClearTerminalItems, ClearAllItems
<1>2. ASSUME NEW kept, "RUNNING" \in kept, all_items' = Retain(all_items, kept),
             inner' = Retain(inner, kept), UNCHANGED current_items
      PROVE  ItemInv(id)'
  <2> DEFINE S == {n \in DOMAIN all_items : all_items[n].status \in kept}
             T == {n \in DOMAIN inner : inner[n].status \in kept}
  <2>1. all_items' = Restrict(all_items, S) /\ inner' = Restrict(inner, T)
    BY <1>2 DEF Retain
  <2>2. \A n : WaitsAt(id, n) => (n \in S <=> n \in T)
    BY DEF ItemInv, ViewPart, WaitsAt, Entries
  <2>3. \A n \in Entries(id) : all_items[n].status = "RUNNING" => n \in S
    BY <1>2 DEF Entries
  <2> HIDE DEF S, T
  <2>4. S \in SUBSET DOMAIN all_items /\ T \in SUBSET DOMAIN inner
    BY DEF S, T
  <2> QED BY <1>1, <1>2, <2>1, <2>2, <2>3, <2>4, ItemFiltered
<1>3. CASE ClearAllItems
  BY <1>1, <1>3, ItemFiltered DEF ClearAllItems
<1> QED BY <1>2, <1>3 DEF ClearPending, ClearTerminalItems, NotPending, NotCleared, ItemStatus
LEMMA FinishedItem ==
  ASSUME QueueTypeOK, NEW wid, NEW status \in ItemStatus, FinishCurrent(wid, status), NEW id
  PROVE  /\ Entries(id)' = Entries(id) /\ UNCHANGED <<inner, historyVars>>
         /\ id \in current_items' <=> id \in current_items /\ id # wid
         /\ id # wid => \A n \in Entries(id) : all_items'[n] = all_items[n]
         /\ id = wid /\ id \in current_items /\ (\A n, m \in Entries(id) : n = m) =>
              \A n \in Entries(id) : all_items'[n].status = status
         /\ id \notin current_items => \A n \in Entries(id) : all_items'[n] = all_items[n]
<1>1. CASE wid \in current_items
  <2>1. all_items' = WithStatus(wid, status) /\ current_items' = current_items \ {wid}
        /\ UNCHANGED <<inner, historyVars>>
    BY <1>1 DEF FinishCurrent
  <2> QED BY <1>1, <2>1, StatusRewritten
<1>2. CASE wid \notin current_items
  <2>1. all_items' = all_items /\ current_items' = current_items \ {wid}
        /\ UNCHANGED <<inner, historyVars>>
    BY <1>2 DEF FinishCurrent
  <2> QED BY <1>2, <2>1 DEF Entries
<1> QED BY <1>1, <1>2

LEMMA CancelledItem ==
  ASSUME QueueTypeOK, NEW wid, CancelItem(wid), NEW id
  PROVE  /\ Entries(id)' = Entries(id)
         /\ \A n : /\ WaitsAt(id, n)' <=> WaitsAt(id, n) /\ id # wid
                   /\ WaitsAt(id, n)' => inner'[n] = inner[n]
         /\ id \in current_items' <=> id \in current_items /\ id # wid
         /\ id \in cancelled' <=> id \in cancelled \/ id = wid
         /\ id # wid => (id \in withdrawn' <=> id \in withdrawn)
         /\ id # wid => \A n \in Entries(id) : all_items'[n] = all_items[n]
         /\ id = wid /\ (\A n, m \in Entries(id) : n = m) =>
              \A n \in Entries(id) :
                /\ all_items[n].status = "PENDING" =>
                     all_items'[n].status = "CANCELLED" /\ id \in withdrawn'
                /\ all_items[n].status # "PENDING" =>
                     /\ all_items'[n] = all_items[n]
                     /\ id \in withdrawn' <=> id \in withdrawn
<1>1. Listed(wid) /\ First(wid) \in Entries(wid)
  BY FirstExists DEF CancelItem, First, Entries, Listed, QueueTypeOK
<1>2. \A n : /\ WaitsAt(id, n)' <=> WaitsAt(id, n) /\ id # wid
             /\ WaitsAt(id, n)' => inner'[n] = inner[n]
  BY DEF CancelItem, WithoutItem, Restrict, WaitsAt
<1>3. /\ id \in current_items' <=> id \in current_items /\ id # wid
      /\ id \in cancelled' <=> id \in cancelled \/ id = wid
      /\ id # wid => (id \in withdrawn' <=> id \in withdrawn)
      /\ id = wid => (id \in withdrawn' <=> \/ id \in withdrawn
                                            \/ all_items[First(wid)].status = "PENDING")
  BY DEF CancelItem
<1>4. CASE all_items[First(wid)].status = "PENDING"
  <2>1. all_items' = WithStatus(wid, "CANCELLED") /\ "CANCELLED" \in ItemStatus
    BY <1>4 DEF CancelItem, ItemStatus
  <2> QED BY <1>1, <1>2, <1>3, <1>4, <2>1, StatusRewritten
<1>5. CASE all_items[First(wid)].status # "PENDING"
  <2>1. all_items' = all_items /\ Entries(id)' = Entries(id)
    BY <1>5 DEF CancelItem, Entries
  <2> QED BY <1>1, <1>2, <1>3, <1>5, <2>1
<1> QED BY <1>4, <1>5

LEMMA ItemCancelled ==
  ASSUME QueueTypeOK, NEW wid, CancelItem(wid), NEW id, ItemInv(id), SameBatches(id),
         UNCHANGED <<ditem, ritem>>, id # wid => SameHands(id)
  PROVE  ItemInv(id)'
<1>1. Listed(wid)
  BY DEF CancelItem
<1>2. CASE id # wid
  <2>1. SameList(id) /\ SameMarks(id)
    BY <1>2, CancelledItem DEF SameList, SameMarks
  <2> QED BY <1>2, <2>1, ItemElsewhere
<1>3. CASE id = wid
  <2>1. /\ Entries(id)' = Entries(id) /\ Entries(id) # {}
        /\ \A n : ~WaitsAt(id, n)'
        /\ id \notin current_items' /\ id \in cancelled'
        /\ \A n \in Entries(id) :
                /\ all_items[n].status = "PENDING" =>
                     all_items'[n].status = "CANCELLED" /\ id \in withdrawn'
                /\ all_items[n].status # "PENDING" =>
                     /\ all_items'[n] = all_items[n]
                     /\ id \in withdrawn' <=> id \in withdrawn
    BY <1>1, <1>3, CancelledItem DEF ItemInv, ViewPart, Listed
  <2>2. /\ InHand(id)' <=> InHand(id)
        /\ \A r \in Runs : Given(id, r)' <=> Given(id, r)
        /\ NeverPolled(id)' <=> NeverPolled(id)
    BY DEF InHand, Given, NeverPolled
  <2>3. BatchPart(id)'
    BY <2>1, BatchKept DEF ItemInv, BatchPart
  <2>4. ViewPart(id)'
    BY <2>1 DEF ItemInv, ViewPart
  <2>5. PolledPart(id)'
    BY <2>1, <2>2 DEF ItemInv, PolledPart, ViewPart
  <2>6. CurrentPart(id)'
    BY <2>1 DEF CurrentPart
  <2> QED BY <2>3, <2>4, <2>5, <2>6 DEF ItemInv
<1> QED BY <1>2, <1>3
-----------------------------------------------------------------------------
(* The dispatcher's steps. *)

LEMMA PolledView ==
  ASSUME QueueTypeOK, PollNext, NEW id, ViewPart(id)
  PROVE  /\ Entries(id)' = Entries(id)
         /\ id # Polled.id =>
              /\ \A n \in Entries(id) : all_items'[n] = all_items[n]
              /\ \A n : /\ WaitsAt(id, n)' <=> WaitsAt(id, n)
                        /\ WaitsAt(id, n) => inner'[n] = inner[n]
              /\ id \in current_items' <=> id \in current_items
         /\ id = Polled.id =>
              /\ \E n \in Entries(id) : WaitsAt(id, n)
              /\ \A n \in Entries(id) : all_items'[n].status = "RUNNING"
              /\ \A n : ~WaitsAt(id, n)'
              /\ id \in current_items'
<1> DEFINE first == Min(DOMAIN inner)
<1>1. /\ first \in DOMAIN inner /\ Polled \in Item /\ Polled.status = "RUNNING"
      /\ Polled.id = inner[first].id
  <2>1. first \in DOMAIN inner /\ Polled \in Item
    BY PolledTyped DEF PollNext
  <2>2. inner[first] \in Item
    BY <2>1 DEF QueueTypeOK
  <2> QED BY <2>1, <2>2 DEF Polled, Item
<1>2. /\ DOMAIN inner' = DOMAIN inner \ {first}
      /\ \A n \in DOMAIN inner' : inner'[n] = inner[n]
  BY DEF PollNext, Restrict
<1>3. /\ Entries(id)' = Entries(id)
      /\ id # Polled.id => \A n \in Entries(id) : all_items'[n] = all_items[n]
      /\ (\A n, m \in Entries(Polled.id) : n = m) =>
           \A n \in Entries(Polled.id) : all_items'[n] = Polled
  BY <1>1, Rewritten DEF PollNext
<1> HIDE DEF first
<1>4. CASE id # Polled.id
  BY <1>1, <1>2, <1>3, <1>4 DEF PollNext, WaitsAt
<1>5. CASE id = Polled.id
  <2>1. WaitsAt(id, first) /\ first \in Entries(id)
    BY <1>1, <1>5 DEF WaitsAt, ViewPart
  <2>2. \A n : WaitsAt(id, n) => n = first
    BY <2>1 DEF ViewPart
  <2>3. \A n : ~WaitsAt(id, n)'
    BY <1>2, <2>2 DEF WaitsAt
  <2> QED BY <1>1, <1>3, <1>5, <2>1, <2>3 DEF PollNext, ViewPart
<1> QED BY <1>4, <1>5

LEMMA ItemPolled ==
  ASSUME QueueTypeOK, LocalsInv, NEW id, ItemInv(id), Poll
  PROVE  ItemInv(id)'
<1>1. ditem = NoItem /\ SameBatches(id)
  BY Unchanged DEF Poll, DispatcherGoto, LocalsInv, handlerVars
<1>2. /\ \A r \in Runs : Given(id, r)' <=> Given(id, r)
      /\ \A r \in Runs : Working(r)' <=> Working(r)
      /\ \A r \in Runs : (Over(r)' <=> Over(r)) /\ rlocal'[r] = rlocal[r]
  BY DEF Poll, runVars, Given, Working, Live, Over
<1>3. CASE UNCHANGED <<queueVars, ditem>>
  <2>1. SameHands(id) /\ SameList(id) /\ SameMarks(id)
    BY <1>3, Unchanged DEF Poll, runVars, queueVars
  <2> QED BY <1>1, <2>1, ItemElsewhere
<1>4. CASE PollNext /\ ditem' = Polled /\ id # Polled.id
  <2>1. SameHands(id)
    BY <1>1, <1>2, <1>4 DEF SameHands, InHand
  <2>2. SameList(id)
    BY <1>4, PolledView DEF SameList, ItemInv
  <2>3. SameMarks(id)
    BY <1>4, Unchanged DEF PollNext
  <2> QED BY <1>1, <2>1, <2>2, <2>3, ItemElsewhere
<1>5. CASE PollNext /\ ditem' = Polled /\ id = Polled.id
  <2>1. /\ Entries(id)' = Entries(id) /\ (\E n \in Entries(id) : WaitsAt(id, n))
        /\ \A n \in Entries(id) : all_items'[n].status = "RUNNING"
        /\ \A n : ~WaitsAt(id, n)'
        /\ id \in current_items'
    BY <1>5, PolledView DEF ItemInv
  <2>2. InHand(id)' /\ SameMarks(id)
    BY <1>5, PolledTyped, PoolAssumption, Unchanged DEF InHand, PollNext
  <2>3. \A r \in Runs : ~Given(id, r)
    BY <2>1 DEF ItemInv, PolledPart, NeverPolled
  <2>4. BatchPart(id)'
    BY <1>1, <2>1, BatchKept DEF ItemInv, BatchPart
  <2>5. ViewPart(id)'
    BY <2>1 DEF ItemInv, ViewPart
  <2>6. PolledPart(id)'
    BY <1>2, <2>1, <2>2, <2>3 DEF ItemInv, PolledPart, SameMarks
  <2>7. CurrentPart(id)'
    BY <1>2, <2>1, <2>2, <2>3 DEF CurrentPart, Owned, Listed
  <2> QED BY <2>4, <2>5, <2>6, <2>7 DEF ItemInv
<1> QED BY <1>3, <1>4, <1>5 DEF Poll

LEMMA ItemSpawned ==
  ASSUME TypeInv, PoolInv, LocalsInv, NEW id, ItemInv(id), SpawnWorker
  PROVE  ItemInv(id)'
<1>1. PICK run \in Runs : run = spawned + 1
  BY BoundFacts DEF SpawnWorker, TypeInv, OthersTyped, Runs, Pushes
<1> /\ rpc[run] = "none" /\ ritem[run] = NoItem
    /\ rpc' = [rpc EXCEPT ![run] = "insert_session"]
    /\ ritem' = [ritem EXCEPT ![run] = ditem]
  BY <1>1, BoundFacts DEF SpawnWorker, TypeInv, OthersTyped, PoolInv, SpawnOrder, LocalsInv, Runs, Pushes
<1>2. /\ ditem \in Item /\ ditem # NoItem /\ ditem' = NoItem /\ UNCHANGED rlocal
      /\ rpc \in [Runs -> RunPC] /\ ritem \in [Runs -> Item \cup {NoItem}]
  BY PoolAssumption
     DEF SpawnWorker, DispatcherGoto, TypeInv, DispatcherTyped, RunsTyped
<1>3. SameBatches(id) /\ SameList(id) /\ SameMarks(id)
  BY Unchanged DEF SpawnWorker, handlerVars, queueVars
<1>4. /\ \A r \in Runs \ {run} : /\ Given(id, r)' <=> Given(id, r)
                                 /\ Working(r)' <=> Working(r)
                                 /\ Over(r)' <=> Over(r)
      /\ ~Given(id, run) /\ (Given(id, run)' <=> InHand(id))
      /\ Working(run)' /\ ~Over(run)'
      /\ ~InHand(id)'
  BY <1>1, <1>2 DEF Given, Working, Live, Over, InHand
<1>5. CASE ~InHand(id)
  <2>1. SameHands(id)
    BY <1>2, <1>4, <1>5 DEF SameHands
  <2> QED BY <1>3, <2>1, ItemElsewhere
<1>6. CASE InHand(id)
  <2>1. \A r \in Runs : Given(id, r)' <=> r = run
    BY <1>1, <1>4, <1>6 DEF ItemInv, PolledPart
  <2>2. Owned(id) /\ Owned(id)' /\ ~NeverPolled(id)
    BY <1>1, <1>4, <1>6 DEF Owned, NeverPolled
  <2>3. BatchPart(id)'
    BY <1>3, <2>2, BatchKept DEF ItemInv, BatchPart
  <2>4. ViewPart(id)'
    BY <1>3 DEF ItemInv, ViewPart, SameList
  <2>5. PolledPart(id)'
    BY <1>3, <1>4, <2>1, <2>2 DEF ItemInv, PolledPart, SameList, SameMarks
  <2>6. CurrentPart(id)'
    BY <1>3, <1>4, <2>1, <2>2 DEF ItemInv, CurrentPart, SameList, SameMarks, Listed
  <2> QED BY <2>3, <2>4, <2>5, <2>6 DEF ItemInv
<1> QED BY <1>5, <1>6
-----------------------------------------------------------------------------
(* The runs' steps. *)

LEMMA LinkedView ==
  ASSUME QueueTypeOK, NEW wid, NEW s \in Sessions, SetSessionId(wid, s), NEW id, ViewPart(id)
  PROVE  SameList(id) /\ SameMarks(id)
<1>1. UNCHANGED <<inner, current_items>> /\ SameMarks(id)
  BY Unchanged DEF SetSessionId
<1>2. \A n : (WaitsAt(id, n)' <=> WaitsAt(id, n)) /\ inner'[n] = inner[n]
  BY <1>1 DEF WaitsAt
<1> DEFINE item == [all_items[First(wid)] EXCEPT !.session = s]
<1>3. CASE Listed(wid)
  <2>1. First(wid) \in Entries(wid) /\ all_items[First(wid)] \in Item
    BY <1>3, FirstExists, FirstListed DEF First, Entries, Listed, QueueTypeOK
  <2>2. item \in Item /\ item.id = wid /\ item.status = all_items[First(wid)].status
    BY <2>1 DEF Item, Entries
  <2>3. all_items' = WithFirst(wid, item)
    BY DEF SetSessionId
  <2> HIDE DEF item
  <2>4. /\ Entries(id)' = Entries(id)
        /\ id # wid => \A n \in Entries(id) : all_items'[n] = all_items[n]
        /\ (\A n, m \in Entries(wid) : n = m) => \A n \in Entries(wid) : all_items'[n] = item
    BY <2>2, <2>3, Rewritten
  <2>5. \A n \in Entries(id) : all_items'[n].status = all_items[n].status
    BY <2>1, <2>2, <2>4 DEF ViewPart
  <2> QED BY <1>1, <1>2, <2>4, <2>5 DEF SameList
<1>4. CASE ~Listed(wid)
  <2>1. UNCHANGED all_items
    BY <1>4 DEF SetSessionId, WithFirst
  <2> QED BY <1>1, <2>1, Unchanged
<1> QED BY <1>3, <1>4

LEMMA ItemSettled ==
  ASSUME TypeInv, LocalsInv, NEW id, ItemInv(id), NEW r \in Runs, SettleItem(r)
  PROVE  ItemInv(id)'
<1> DEFINE wid == ritem[r].id
<1>1. /\ rpc[r] = "settle" /\ rpc' = [rpc EXCEPT ![r] = "release_count"]
      /\ rpc \in [Runs -> RunPC] /\ rlocal[r] \in Terminal
      /\ UNCHANGED <<ditem, ritem, rlocal>>
  BY DEF SettleItem, RunGoto, TypeInv, RunsTyped, LocalsInv, dispatcherVars
<1>2. Given(id, r) <=> id = wid
  BY <1>1, PoolAssumption DEF TypeInv, RunsTyped, Given
<1>3. SameBatches(id) /\ QueueTypeOK
  BY Unchanged DEF SettleItem, handlerVars, TypeInv
<1>4. /\ InHand(id)' <=> InHand(id)
      /\ \A q \in Runs : Given(id, q)' <=> Given(id, q)
      /\ NeverPolled(id)' <=> NeverPolled(id)
      /\ \A q \in Runs \ {r} : (Working(q)' <=> Working(q)) /\ (Over(q)' <=> Over(q))
      /\ ~Working(r)' /\ Working(r) /\ Over(r)'
  BY <1>1 DEF InHand, Given, NeverPolled, Working, Live, Over
<1> HIDE DEF wid
<1>5. id # wid => SameHands(id)
  BY <1>1, <1>2, <1>4 DEF SameHands
<1>6. CASE CancelItem(wid)
  BY <1>1, <1>3, <1>5, <1>6, ItemCancelled
<1>7. CASE UNCHANGED queueVars /\ ~Listed(wid)
  <2>1. SameList(id) /\ SameMarks(id)
    BY <1>7, Unchanged DEF queueVars
  <2>2. CASE id # wid
    BY <1>3, <1>5, <2>1, <2>2, ItemElsewhere
  <2>3. CASE id = wid
    <3>1. Entries(id)' = {} /\ id \notin current_items' /\ ~NeverPolled(id)
      BY <1>2, <1>7, <2>1, <2>3 DEF SameList, Listed, ItemInv, CurrentPart, NeverPolled
    <3>2. BatchPart(id)'
      BY <1>3, <3>1, BatchKept DEF ItemInv, BatchPart
    <3>3. ViewPart(id)'
      BY <2>1 DEF ItemInv, ViewPart, SameList
    <3>4. PolledPart(id)'
      BY <1>4, <2>1 DEF ItemInv, PolledPart, SameList, SameMarks
    <3>5. CurrentPart(id)'
      BY <3>1 DEF CurrentPart, Listed
    <3> QED BY <3>2, <3>3, <3>4, <3>5 DEF ItemInv
  <2> QED BY <2>2, <2>3
<1>8. CASE FinishCurrent(wid, rlocal[r])
  <2>0. rlocal[r] \in ItemStatus /\ rlocal[r] # "PENDING"
    BY <1>1 DEF Terminal, RunStatus, Active, ItemStatus
  <2>1. /\ Entries(id)' = Entries(id) /\ UNCHANGED <<inner, historyVars>>
        /\ id \in current_items' <=> id \in current_items /\ id # wid
        /\ id # wid => \A n \in Entries(id) : all_items'[n] = all_items[n]
        /\ id = wid /\ id \in current_items /\ (\A n, m \in Entries(id) : n = m) =>
             \A n \in Entries(id) : all_items'[n].status = rlocal[r]
        /\ id \notin current_items => \A n \in Entries(id) : all_items'[n] = all_items[n]
    BY <1>3, <1>8, <2>0, FinishedItem
  <2>2. SameMarks(id) /\ \A n : (WaitsAt(id, n)' <=> WaitsAt(id, n)) /\ inner'[n] = inner[n]
    BY <2>1, Unchanged DEF WaitsAt
  <2>3. CASE id # wid
    <3>1. SameList(id)
      BY <2>1, <2>2, <2>3 DEF SameList
    <3> QED BY <1>3, <1>5, <2>2, <2>3, <3>1, ItemElsewhere
  <2>4. CASE id = wid
    <3>1. /\ ~NeverPolled(id) /\ ~InHand(id) /\ \A n : ~WaitsAt(id, n)
          /\ \A q \in Runs : Given(id, q) => q = r
      BY <1>2, <2>4 DEF NeverPolled, ItemInv, PolledPart
    <3>2. BatchPart(id)'
      BY <1>3, <3>1, BatchKept DEF ItemInv, BatchPart
    <3>3. /\ \A n, m \in Entries(id) : n = m
          /\ id \in current_items => \A n \in Entries(id) : all_items'[n].status = rlocal[r]
          /\ id \notin current_items => \A n \in Entries(id) : all_items'[n] = all_items[n]
      BY <2>1, <2>4 DEF ItemInv, ViewPart
    <3>4. ViewPart(id)'
      BY <2>0, <2>1, <2>2, <3>1, <3>3 DEF ItemInv, ViewPart
    <3>5. PolledPart(id)'
      BY <1>4, <2>2 DEF ItemInv, PolledPart, SameMarks
    <3>6. ~Owned(id)' /\ Owned(id)
      BY <1>2, <1>4, <2>4, <3>1 DEF Owned
    <3>7. CurrentPart(id)'
      BY <1>1, <1>4, <2>1, <2>2, <2>4, <3>1, <3>3, <3>6
         DEF ItemInv, CurrentPart, Listed, SameMarks
    <3> QED BY <3>2, <3>4, <3>5, <3>7 DEF ItemInv
  <2> QED BY <2>3, <2>4
<1> QED BY <1>6, <1>7, <1>8 DEF SettleItem, wid

LEMMA ItemRunStep ==
  ASSUME TypeInv, LocalsInv, NEW id, ItemInv(id), NEW r \in Runs, RunStep(r)
  PROVE  ItemInv(id)'
<1>1. CASE SettleItem(r)
  BY <1>1, ItemSettled
<1>2. CASE ~SettleItem(r)
  <2>1. /\ UNCHANGED <<ditem, ritem, hbatch, created>>
        /\ UNCHANGED queueVars \/ LinkSession(r)
    BY <1>2 DEF RunStep, CreateSession, RegisterToken, LinkSession, StartSession, CheckCancelled,
       RunExercise, Finalize, PublishStatus, AwaitSession, ReleaseCount, ReleasePermit,
       NotifyCapacity, handlerVars, dispatcherVars
  <2>2. PICK pc \in RunPC :
          /\ rpc' = [rpc EXCEPT ![r] = pc]
          /\ \/ rpc[r] \notin {"none", "release_count", "release_permit", "notify", "done"}
                /\ pc \notin {"none", "release_count", "release_permit", "notify", "done"}
             \/ rpc[r] \in {"release_count", "release_permit", "notify"}
                /\ pc \in {"release_permit", "notify", "done"} /\ UNCHANGED rlocal
    BY <1>2 DEF RunStep, CreateSession, RegisterToken, LinkSession, StartSession, CheckCancelled,
       RunExercise, Finalize, PublishStatus, AfterPublish, AwaitSession, ReleaseCount,
       ReleasePermit, NotifyCapacity, RunGoto, RunPC
  <2>3. \A q \in Runs \ {r} : rlocal'[q] = rlocal[q]
    <3>1. rlocal' = rlocal \/ \E status : rlocal' = [rlocal EXCEPT ![r] = status]
      BY <1>2 DEF RunStep, CreateSession, RegisterToken, LinkSession, StartSession,
         CheckCancelled, RunExercise, Finalize, PublishStatus, AwaitSession, ReleaseCount,
         ReleasePermit, NotifyCapacity
    <3> QED BY <3>1 DEF TypeInv, RunsTyped
  <2>4. SameHands(id)
    <3>1. rpc \in [Runs -> RunPC]
      BY DEF TypeInv, RunsTyped
    <3> QED BY <2>1, <2>2, <2>3, <3>1 DEF SameHands, InHand, Given, Working, Live, Over
  <2>5. SameList(id) /\ SameMarks(id)
    <3>1. CASE UNCHANGED queueVars
      BY <3>1, Unchanged DEF queueVars
    <3>2. CASE LinkSession(r)
      BY <3>2, LinkedView, BoundFacts DEF LinkSession, TypeInv, ItemInv
    <3> QED BY <2>1, <3>1, <3>2
  <2>6. SameBatches(id)
    BY <2>1, Unchanged
  <2> QED BY <2>4, <2>5, <2>6, ItemElsewhere
<1> QED BY <1>1, <1>2
-----------------------------------------------------------------------------
(* The handlers' steps. *)

LEMMA ScheduledView ==
  ASSUME TypeInv, NEW id \in ItemIds, NEW h \in Handlers, ScheduleBatch(h)
  PROVE  \E count \in Nat :
           /\ created' = created + count
           /\ \A k \in Nat : BatchedAt(id, h, k)' <=> k \in 1..count /\ id = created + k
           /\ \A k \in Nat : BatchedAt(id, h, k)' => hbatch'[h][k].status = "PENDING"
           /\ \A g \in Handlers \ {h}, k \in Nat :
                (BatchedAt(id, g, k)' <=> BatchedAt(id, g, k)) /\ hbatch'[g] = hbatch[g]
<1>1. PICK kept \in SUBSET Keys : \E order \in SetToSeqs(kept) \cup {SetToSeq(kept)} :
        /\ created + Cardinality(kept) <= MaxItems
        /\ created' = created + Cardinality(kept)
        /\ hbatch' = [hbatch EXCEPT ![h] =
                        [k \in DOMAIN order |-> NewItem(created + k, order[k])]]
  BY ScheduledOrder
<1>2. PICK order \in SetToSeqs(kept) \cup {SetToSeq(kept)} :
        /\ created' = created + Cardinality(kept)
        /\ hbatch' = [hbatch EXCEPT ![h] =
                        [k \in DOMAIN order |-> NewItem(created + k, order[k])]]
  BY <1>1
<1>3. /\ Cardinality(kept) \in Nat /\ DOMAIN order = 1..Cardinality(kept)
      /\ hbatch \in [Handlers -> Seq(Item)]
  BY BoundsAssumption, FS_Subset, OrderTyped DEF TypeInv, HandlersTyped
<1>4. /\ \A k \in Nat : BatchedAt(id, h, k)' <=> k \in 1..Cardinality(kept) /\ id = created + k
      /\ \A k \in Nat : BatchedAt(id, h, k)' => hbatch'[h][k].status = "PENDING"
      /\ \A g \in Handlers \ {h}, k \in Nat :
           (BatchedAt(id, g, k)' <=> BatchedAt(id, g, k)) /\ hbatch'[g] = hbatch[g]
  BY <1>2, <1>3 DEF BatchedAt, NewItem
<1> QED BY <1>2, <1>3, <1>4

LEMMA ItemScheduled ==
  ASSUME TypeInv, LocalsInv, NEW id \in ItemIds, ItemInv(id), NEW h \in Handlers, ScheduleBatch(h)
  PROVE  ItemInv(id)'
<1>1. PICK count \in Nat :
        /\ created' = created + count
        /\ \A k \in Nat : BatchedAt(id, h, k)' <=> k \in 1..count /\ id = created + k
        /\ \A k \in Nat : BatchedAt(id, h, k)' => hbatch'[h][k].status = "PENDING"
        /\ \A g \in Handlers \ {h}, k \in Nat :
             (BatchedAt(id, g, k)' <=> BatchedAt(id, g, k)) /\ hbatch'[g] = hbatch[g]
  BY ScheduledView
<1>2. created \in Nat /\ id \in Nat
  BY BoundFacts DEF TypeInv, HandlersTyped, ItemIds
<1>4. SameHands(id) /\ SameList(id) /\ SameMarks(id)
  BY Unchanged DEF ScheduleBatch, queueVars, dispatcherVars, runVars
<1>5. /\ id > created => ~Batched(id)
      /\ \A g, f \in Handlers : \A k, j \in Nat :
           BatchedAt(id, g, k) /\ BatchedAt(id, f, j) => g = f /\ k = j
      /\ \A g \in Handlers, k \in Nat : BatchedAt(id, g, k) => hbatch[g][k].status = "PENDING"
      /\ id > created \/ Batched(id) =>
           Entries(id) = {} /\ NeverPolled(id) /\ id \notin cancelled \cup withdrawn
  BY DEF ItemInv, BatchPart
<1>6. CASE id > created
  <2>1. \A g \in Handlers, k \in Nat :
          BatchedAt(id, g, k)' <=> g = h /\ k \in 1..count /\ id = created + k
    BY <1>1, <1>5, <1>6 DEF Batched
  <2>2. id > created' => \A g \in Handlers, k \in Nat : ~BatchedAt(id, g, k)'
    BY <1>1, <1>2, <2>1
  <2>3. \A g, f \in Handlers : \A k, j \in Nat :
          BatchedAt(id, g, k)' /\ BatchedAt(id, f, j)' => g = f /\ k = j
    BY <1>2, <2>1
  <2>4. \A g \in Handlers, k \in Nat : BatchedAt(id, g, k)' => hbatch'[g][k].status = "PENDING"
    BY <1>1, <2>1
  <2>5. Entries(id)' = {} /\ NeverPolled(id)' /\ id \notin cancelled' \cup withdrawn'
    BY <1>4, <1>5, <1>6, HandsSame DEF SameList, SameMarks
  <2>6. BatchPart(id)'
    BY <2>2, <2>3, <2>4, <2>5 DEF BatchPart, Batched
  <2> QED BY <1>4, <2>6, OthersKept DEF ItemInv
<1>7. CASE id <= created
  <2>1. \A g \in Handlers, k \in Nat : BatchedAt(id, g, k)' <=> g # h /\ BatchedAt(id, g, k)
    BY <1>1, <1>2, <1>7
  <2>2. Batched(id)' => Batched(id)
    BY <2>1 DEF Batched
  <2>3. ~(id > created')
    BY <1>1, <1>2, <1>7
  <2>4. BatchPart(id)'
    BY <1>1, <1>4, <1>5, <2>1, <2>2, <2>3, HandsSame DEF BatchPart, SameList, SameMarks
  <2> QED BY <1>4, <2>4, OthersKept DEF ItemInv
<1> QED BY <1>2, <1>6, <1>7

LEMMA RetryElsewhere ==
  ASSUME TypeInv, LocalsInv, NEW id, NEW h \in Handlers, RetryItem(h), id \notin retried'
  PROVE  SameHands(id) /\ SameBatches(id) /\ SameList(id) /\ SameMarks(id)
<1>1. PICK rid \in 1..created :
        RetryReset(rid) /\ hbatch' = [hbatch EXCEPT ![h] = <<RetryClone(rid)>>]
  BY DEF RetryItem
<1> DEFINE reset == Min(FailedEntries(rid))
<1>2. /\ id # rid /\ hbatch[h] = <<>> /\ hbatch \in [Handlers -> Seq(Item)]
      /\ UNCHANGED <<inner, current_items, cancelled, withdrawn, created, ditem, ritem, rpc, rlocal>>
  BY <1>1 DEF RetryReset, RetryItem, Call, LocalsInv, TypeInv, HandlersTyped, dispatcherVars, runVars
<1>3. reset \in Entries(rid) /\ reset \in DOMAIN all_items /\ all_items[reset].id = rid
  BY <1>1, FirstExists DEF RetryReset, FailedEntries, Entries, TypeInv, QueueTypeOK
<1>4. all_items[reset] \in Item
  BY <1>3 DEF TypeInv, QueueTypeOK
<1>5. /\ DOMAIN all_items' = DOMAIN all_items /\ all_items'[reset].id = rid
      /\ \A n \in DOMAIN all_items : n # reset => all_items'[n] = all_items[n]
  BY <1>1, <1>3, <1>4 DEF RetryReset, Item
<1>6. SameHands(id) /\ SameMarks(id)
  BY <1>2, Unchanged DEF SameMarks
<1>7. SameList(id)
  BY <1>2, <1>3, <1>5 DEF SameList, Entries, WaitsAt
<1>8. SameBatches(id)
  <2>1. RetryClone(rid).id = rid
    BY <1>3 DEF RetryClone
  <2> HIDE DEF reset
  <2>2. hbatch'[h] = <<RetryClone(rid)>> /\ \A g \in Handlers : g # h => hbatch'[g] = hbatch[g]
    BY <1>1, <1>2
  <2>3. \A k \in Nat : ~BatchedAt(id, h, k) /\ ~BatchedAt(id, h, k)'
    BY <1>2, <2>1, <2>2 DEF BatchedAt
  <2> QED BY <1>2, <2>2, <2>3 DEF SameBatches, BatchedAt
<1> QED BY <1>6, <1>7, <1>8

\* The pushed items follow what each container held.
LEMMA PushedView ==
  ASSUME QueueTypeOK, NEW items \in Seq(Item), AddAll(items)
  PROVE  /\ \A n \in DOMAIN all_items : n \in DOMAIN all_items' /\ all_items'[n] = all_items[n]
         /\ \A n \in DOMAIN inner : n \in DOMAIN inner' /\ inner'[n] = inner[n]
         /\ \A k \in 1..Len(items) :
              /\ pushes + k \in DOMAIN all_items' /\ all_items'[pushes + k] = items[k]
              /\ pushes + k \in DOMAIN inner' /\ inner'[pushes + k] = items[k]
         /\ \A n \in DOMAIN all_items' :
              n \in DOMAIN all_items \/ \E k \in 1..Len(items) : n = pushes + k
         /\ \A n \in DOMAIN inner' :
              n \in DOMAIN inner \/ \E k \in 1..Len(items) : n = pushes + k
<1>1. pushes \in Nat /\ Len(items) \in Nat
  BY DEF QueueTypeOK
<1>2. ASSUME NEW vec, DOMAIN vec \subseteq 1..pushes
      PROVE  /\ \A n \in DOMAIN vec :
                  n \in DOMAIN Pushed(vec, items) /\ Pushed(vec, items)[n] = vec[n]
             /\ \A k \in 1..Len(items) :
                  /\ pushes + k \in DOMAIN Pushed(vec, items)
                  /\ Pushed(vec, items)[pushes + k] = items[k]
             /\ \A n \in DOMAIN Pushed(vec, items) :
                  n \in DOMAIN vec \/ \E k \in 1..Len(items) : n = pushes + k
  <2>1. DOMAIN Pushed(vec, items) = DOMAIN vec \cup (pushes + 1)..(pushes + Len(items))
    BY DEF Pushed
  <2>2. \A n \in DOMAIN vec : Pushed(vec, items)[n] = vec[n]
    BY <2>1 DEF Pushed
  <2>3. \A k \in 1..Len(items) :
          /\ pushes + k \in (pushes + 1)..(pushes + Len(items)) /\ pushes + k \notin DOMAIN vec
          /\ (pushes + k) - pushes = k
    BY <1>1, <1>2
  <2>4. \A k \in 1..Len(items) : Pushed(vec, items)[pushes + k] = items[k]
    BY <2>1, <2>3 DEF Pushed
  <2>5. \A n \in (pushes + 1)..(pushes + Len(items)) :
          n - pushes \in 1..Len(items) /\ n = pushes + (n - pushes)
    BY <1>1
  <2> QED BY <2>1, <2>2, <2>3, <2>4, <2>5
<1>3. /\ all_items' = Pushed(all_items, items) /\ inner' = Pushed(inner, items)
      /\ DOMAIN all_items \subseteq 1..pushes /\ DOMAIN inner \subseteq 1..pushes
  BY DEF AddAll, QueueTypeOK
<1> QED BY <1>2, <1>3

\* The same, for one item.
LEMMA AddedView ==
  ASSUME QueueTypeOK, NEW items \in Seq(Item), AddAll(items), NEW id
  PROVE  /\ \A n : n \in Entries(id)' <=>
                  \/ n \in Entries(id)
                  \/ \E k \in 1..Len(items) : n = pushes + k /\ items[k].id = id
         /\ (\A k \in 1..Len(items) : items[k].id # id) => Entries(id)' = Entries(id)
         /\ \A n \in Entries(id) : all_items'[n] = all_items[n]
         /\ \A n : WaitsAt(id, n)' <=>
                  \/ WaitsAt(id, n)
                  \/ \E k \in 1..Len(items) : n = pushes + k /\ items[k].id = id
         /\ \A n : WaitsAt(id, n) => inner'[n] = inner[n]
         /\ \A k \in 1..Len(items) :
              all_items'[pushes + k] = items[k] /\ inner'[pushes + k] = items[k]
<1> /\ \A n \in DOMAIN all_items : n \in DOMAIN all_items' /\ all_items'[n] = all_items[n]
    /\ \A n \in DOMAIN inner : n \in DOMAIN inner' /\ inner'[n] = inner[n]
    /\ \A k \in 1..Len(items) :
         /\ pushes + k \in DOMAIN all_items' /\ all_items'[pushes + k] = items[k]
         /\ pushes + k \in DOMAIN inner' /\ inner'[pushes + k] = items[k]
    /\ \A n \in DOMAIN all_items' :
         n \in DOMAIN all_items \/ \E k \in 1..Len(items) : n = pushes + k
    /\ \A n \in DOMAIN inner' :
         n \in DOMAIN inner \/ \E k \in 1..Len(items) : n = pushes + k
  BY PushedView
<1>1. \A n : n \in Entries(id)' <=>
             \/ n \in Entries(id)
             \/ \E k \in 1..Len(items) : n = pushes + k /\ items[k].id = id
  BY DEF Entries
<1>2. \A n : WaitsAt(id, n)' <=>
             \/ WaitsAt(id, n)
             \/ \E k \in 1..Len(items) : n = pushes + k /\ items[k].id = id
  BY DEF WaitsAt
<1>3. (\A k \in 1..Len(items) : items[k].id # id) => Entries(id)' = Entries(id)
  BY <1>1 DEF Entries
<1> QED BY <1>1, <1>2, <1>3 DEF Entries, WaitsAt

LEMMA ItemAdded ==
  ASSUME TypeInv, LocalsInv, NEW id \in ItemIds, ItemInv(id), NEW h \in Handlers, AddItems(h)
  PROVE  ItemInv(id)'
<1> DEFINE items == hbatch[h]
<1>1. /\ items \in Seq(Item) /\ AddAll(items) /\ QueueTypeOK /\ hbatch \in [Handlers -> Seq(Item)]
      /\ hbatch' = [hbatch EXCEPT ![h] = <<>>]
      /\ UNCHANGED <<created, current_items, historyVars, ditem, ritem, rpc, rlocal>>
  BY DEF AddItems, AddAll, TypeInv, HandlersTyped, runVars
<1> HIDE DEF items
<1>0. /\ \A n : n \in Entries(id)' <=>
                  \/ n \in Entries(id)
                  \/ \E k \in 1..Len(items) : n = pushes + k /\ items[k].id = id
      /\ (\A k \in 1..Len(items) : items[k].id # id) => Entries(id)' = Entries(id)
      /\ \A n \in Entries(id) : all_items'[n] = all_items[n]
      /\ \A n : WaitsAt(id, n)' <=>
                  \/ WaitsAt(id, n)
                  \/ \E k \in 1..Len(items) : n = pushes + k /\ items[k].id = id
      /\ \A n : WaitsAt(id, n) => inner'[n] = inner[n]
      /\ \A k \in 1..Len(items) :
           all_items'[pushes + k] = items[k] /\ inner'[pushes + k] = items[k]
  BY <1>1, AddedView
<1>2. SameHands(id) /\ SameMarks(id)
  BY <1>1, Unchanged
<1>3. /\ \A k \in Nat : ~BatchedAt(id, h, k)'
      /\ \A g \in Handlers \ {h}, k \in Nat :
           (BatchedAt(id, g, k)' <=> BatchedAt(id, g, k)) /\ hbatch'[g] = hbatch[g]
  BY <1>1 DEF BatchedAt
<1>4. CASE \A k \in Nat : ~BatchedAt(id, h, k)
  <2>1. SameBatches(id)
    BY <1>1, <1>3, <1>4 DEF SameBatches
  <2>2. \A k \in 1..Len(items) : items[k].id # id
    BY <1>1, <1>4 DEF BatchedAt, items
  <2>3. /\ Entries(id)' = Entries(id) /\ \A n \in Entries(id) : all_items'[n] = all_items[n]
        /\ \A n : (WaitsAt(id, n)' <=> WaitsAt(id, n)) /\ (WaitsAt(id, n) => inner'[n] = inner[n])
    BY <1>0, <2>2
  <2>4. SameList(id)
    BY <1>1, <2>3 DEF SameList
  <2> QED BY <1>2, <2>1, <2>4, ItemElsewhere
<1>5. ASSUME NEW k \in Nat, BatchedAt(id, h, k) PROVE ItemInv(id)'
  <2>1. /\ Entries(id) = {} /\ NeverPolled(id) /\ id \notin cancelled \cup withdrawn
        /\ \A n : ~WaitsAt(id, n)
        /\ \A g \in Handlers, j \in Nat : BatchedAt(id, g, j) => g = h /\ j = k
        /\ ~(id > created) /\ items[k].status = "PENDING" /\ items[k].id = id
    BY <1>5 DEF ItemInv, BatchPart, ViewPart, Batched, BatchedAt, items
  <2>2. /\ k \in 1..Len(items) /\ pushes \in Nat
        /\ \A j \in 1..Len(items) : items[j].id = id => j = k
    BY <1>1, <1>5, <2>1 DEF BatchedAt, QueueTypeOK, items
  <2> DEFINE m == pushes + k
  <2>3. /\ \A n : n \in Entries(id)' <=> n = m
        /\ \A n : WaitsAt(id, n)' <=> n = m
        /\ all_items'[m].status = "PENDING" /\ inner'[m].status = "PENDING"
    BY <1>0, <2>1, <2>2
  <2>4. ~Batched(id)' /\ ~(id > created')
    BY <1>1, <1>3, <2>1 DEF Batched
  <2>5. /\ InHand(id)' <=> InHand(id)
        /\ \A r \in Runs : Given(id, r)' <=> Given(id, r)
        /\ NeverPolled(id)' /\ ~Owned(id)'
    BY <1>2, <2>1, HandsSame DEF SameHands, NeverPolled, Owned
  <2>6. BatchPart(id)'
    BY <2>4 DEF BatchPart, Batched
  <2>7. ViewPart(id)'
    BY <2>3 DEF ViewPart
  <2>8. PolledPart(id)'
    BY <1>2, <2>1, <2>5 DEF PolledPart, SameMarks, NeverPolled
  <2>9. id \notin current_items'
    BY <1>1, <2>1 DEF ItemInv, CurrentPart, Listed
  <2>10. CurrentPart(id)'
    BY <2>5, <2>9 DEF CurrentPart, NeverPolled
  <2> QED BY <2>6, <2>7, <2>8, <2>10 DEF ItemInv
<1> QED BY <1>4, <1>5
LEMMA ItemHandler ==
  ASSUME TypeInv, LocalsInv, NEW id \in ItemIds, id \notin retried', ItemInv(id),
         NEW h \in Handlers, HandlerCall(h) \/ HandlerStep(h)
  PROVE  ItemInv(id)'
<1>1. CASE ScheduleBatch(h)
  BY <1>1, ItemScheduled
<1>2. CASE RetryItem(h)
  BY <1>2, RetryElsewhere, ItemElsewhere
<1>3. CASE AddItems(h)
  BY <1>3, ItemAdded
<1>4. CASE \/ CancelQueueItem(h) \/ CancelBenchmark(h) \/ ClearPendingQueue(h)
           \/ ClearCompletedAndCancelled(h) \/ ClearAll(h) \/ CancelTheItem(h)
           \/ CancelTheSession(h) \/ ClearAllStep(h)
  <2>1. /\ UNCHANGED <<ditem, ritem, rpc, rlocal, hbatch, created>>
        /\ \/ UNCHANGED queueVars \/ CancelItem(hitem[h])
           \/ ClearPending \/ ClearTerminalItems \/ ClearAllItems
    BY <1>4 DEF CancelQueueItem, CancelBenchmark, ClearPendingQueue, ClearCompletedAndCancelled,
       ClearAll, CancelTheItem, CancelTheSession, ClearAllStep, dispatcherVars, runVars,
       handlerVars
  <2>2. SameHands(id) /\ SameBatches(id) /\ QueueTypeOK
    BY <2>1, Unchanged DEF TypeInv
  <2>3. CASE UNCHANGED queueVars
    <3>1. SameList(id) /\ SameMarks(id)
      BY <2>3, Unchanged DEF queueVars
    <3> QED BY <2>2, <3>1, ItemElsewhere
  <2>4. CASE CancelItem(hitem[h])
    BY <2>1, <2>2, <2>4, ItemCancelled
  <2>5. CASE ClearPending \/ ClearTerminalItems \/ ClearAllItems
    BY <2>2, <2>5, ItemCleared
  <2> QED BY <2>1, <2>3, <2>4, <2>5
<1> QED BY <1>1, <1>2, <1>3, <1>4 DEF HandlerCall, HandlerStep

-----------------------------------------------------------------------------
(* The inductive invariant. *)

LEMMA ItemNext ==
  ASSUME TypeInv, PoolInv, LocalsInv, NEW id \in ItemIds, id \notin retried', ItemInv(id),
         [Next]_vars
  PROVE  ItemInv(id)'
<1>1. CASE Poll
  BY <1>1, ItemPolled DEF TypeInv
<1>2. CASE SpawnWorker
  BY <1>2, ItemSpawned
<1>3. CASE \E r \in Runs : RunStep(r)
  BY <1>3, ItemRunStep
<1>4. CASE \E h \in Handlers : HandlerCall(h) \/ HandlerStep(h)
  BY <1>4, ItemHandler
<1>5. CASE UNCHANGED <<queueVars, ditem, runVars, handlerVars>>
  <2>1. SameHands(id) /\ SameBatches(id) /\ SameList(id) /\ SameMarks(id)
    BY <1>5, Unchanged DEF queueVars, runVars, handlerVars
  <2> QED BY <2>1, ItemElsewhere
<1>6. CASE DispatcherStep /\ ~Poll /\ ~SpawnWorker
  BY <1>5, <1>6 DEF DispatcherStep, CheckShutdown, CheckCapacity, ArmCapacity, ArmItem, Arm,
     AcquirePermit, Backoff, CheckIdle, IncrementWorkers
<1>7. CASE \/ StartQueueWorker \/ ShutdownSessionManager \/ ShutdownStep \/ UNCHANGED vars
  BY <1>5, <1>7 DEF StartQueueWorker, ShutdownSessionManager, ShutdownStep, RequestShutdown,
     AbortQueueTask, vars, dispatcherVars
<1> QED BY <1>1, <1>2, <1>3, <1>4, <1>6, <1>7 DEF Next

\* Once an item was retried, nothing is said of it any more.
LEMMA RetriedGrows == [Next]_vars => retried \subseteq retried'
<1> SUFFICES ASSUME [Next]_vars PROVE retried \subseteq retried'
  OBVIOUS
<1>1. UNCHANGED queueVars => retried' = retried
  BY DEF queueVars, historyVars
<1>2. ASSUME NEW id, NEW x,
             \/ CancelItem(id) \/ FinishCurrent(id, x) \/ SetSessionId(id, x) \/ AddAll(x)
             \/ ClearPending \/ ClearTerminalItems \/ ClearAllItems \/ PollNext
      PROVE  retried' = retried
  BY <1>2 DEF CancelItem, FinishCurrent, SetSessionId, AddAll, ClearPending, ClearTerminalItems,
     ClearAllItems, PollNext, historyVars
<1>3. CASE \E r \in Runs : RunStep(r)
  <2>1. PICK r \in Runs : RunStep(r)
    BY <1>3
  <2>2. \/ UNCHANGED queueVars \/ CancelItem(ritem[r].id) \/ FinishCurrent(ritem[r].id, rlocal[r])
        \/ SetSessionId(ritem[r].id, r)
    BY <2>1 DEF RunStep, CreateSession, RegisterToken, LinkSession, StartSession, CheckCancelled,
       RunExercise, Finalize, PublishStatus, AwaitSession, SettleItem, ReleaseCount, ReleasePermit,
       NotifyCapacity
  <2> QED BY <1>1, <1>2, <2>2
<1>4. CASE \E h \in Handlers : HandlerCall(h) \/ HandlerStep(h)
  <2>1. PICK h \in Handlers : HandlerCall(h) \/ HandlerStep(h)
    BY <1>4
  <2>2. \/ UNCHANGED queueVars \/ CancelItem(hitem[h]) \/ AddAll(hbatch[h]) \/ ClearPending
        \/ ClearTerminalItems \/ ClearAllItems \/ RetryItem(h)
    BY <2>1 DEF HandlerCall, HandlerStep, ScheduleBatch, CancelQueueItem, CancelBenchmark,
       ClearPendingQueue, ClearCompletedAndCancelled, ClearAll, AddItems, CancelTheItem,
       CancelTheSession, ClearAllStep
  <2>3. CASE RetryItem(h)
    BY <2>3 DEF RetryItem, RetryReset
  <2> QED BY <1>1, <1>2, <2>2, <2>3
<1>5. CASE DispatcherStep
  <2>1. UNCHANGED queueVars \/ PollNext
    BY <1>5 DEF DispatcherStep, CheckShutdown, CheckCapacity, ArmCapacity, ArmItem, Arm,
       AcquirePermit, Backoff, CheckIdle, Poll, IncrementWorkers, SpawnWorker
  <2> QED BY <1>1, <1>2, <2>1
<1>6. CASE \/ StartQueueWorker \/ ShutdownSessionManager \/ ShutdownStep \/ UNCHANGED vars
  BY <1>1, <1>6 DEF StartQueueWorker, ShutdownSessionManager, ShutdownStep, RequestShutdown,
     AbortQueueTask, vars
<1> QED BY <1>3, <1>4, <1>5, <1>6 DEF Next

HandLocal == ditem # NoItem => dpc \in {"increment", "spawn", "aborted"}
GivenLocal == \A r \in Runs : rpc[r] = "none" => ritem[r] = NoItem
SettledLocal == \A r \in Runs : rpc[r] = "settle" \/ Over(r) => rlocal[r] \in Terminal
BatchLocal == \A h \in Handlers : hpc[h] # "add" => hbatch[h] = <<>>

LEMMA LocalsSame ==
  /\ HandLocal /\ UNCHANGED <<dpc, ditem>> => HandLocal'
  /\ GivenLocal /\ SettledLocal /\ UNCHANGED <<rpc, ritem, rlocal>> => GivenLocal' /\ SettledLocal'
  /\ BatchLocal /\ UNCHANGED <<hpc, hbatch>> => BatchLocal'
BY DEF HandLocal, GivenLocal, SettledLocal, BatchLocal, Over

LEMMA LocalsOfRuns ==
  ASSUME TypeInv, GivenLocal, SettledLocal, NEW r \in Runs, RunStep(r)
  PROVE  GivenLocal' /\ SettledLocal'
<1>1. /\ rpc \in [Runs -> RunPC] /\ rlocal \in [Runs -> RunStatus]
      /\ sessions \in [Runs -> RunStatus \cup {Absent}] /\ UNCHANGED ritem
  BY BoundFacts DEF TypeInv, RunsTyped, SessionTypeOK, RunStep, CreateSession, RegisterToken,
     LinkSession, StartSession, CheckCancelled, RunExercise, Finalize, PublishStatus, AwaitSession,
     SettleItem, ReleaseCount, ReleasePermit, NotifyCapacity
<1>2. CASE PublishStatus(r)
  BY <1>1, <1>2 DEF PublishStatus, AfterPublish, RunGoto, GivenLocal, SettledLocal, Over, Terminal,
     RunStatus, Active
<1>3. CASE AwaitSession(r)
  <2>1. PICK status \in Terminal : rlocal' = [rlocal EXCEPT ![r] = status]
    BY <1>3 DEF AwaitSession, Verdicts, Terminal, RunStatus, Active
  <2> QED BY <1>1, <1>3, <2>1 DEF AwaitSession, RunGoto, GivenLocal, SettledLocal, Over
<1>4. CASE SettleItem(r) \/ ReleaseCount(r) \/ ReleasePermit(r) \/ NotifyCapacity(r)
  BY <1>1, <1>4 DEF SettleItem, ReleaseCount, ReleasePermit, NotifyCapacity, RunGoto, GivenLocal,
     SettledLocal, Over
<1>5. CASE \/ CreateSession(r) \/ RegisterToken(r) \/ LinkSession(r) \/ StartSession(r)
           \/ CheckCancelled(r) \/ RunExercise(r) \/ Finalize(r)
  <2>1. PICK pc : /\ rpc' = [rpc EXCEPT ![r] = pc]
                  /\ pc \in {"insert_token", "link", "start", "check_cancel", "docker", "finalize",
                             "publish"}
    BY <1>5 DEF CreateSession, RegisterToken, LinkSession, StartSession, CheckCancelled,
       RunExercise, Finalize, RunGoto
  <2>2. \A q \in Runs \ {r} : rlocal'[q] = rlocal[q]
    BY <1>1, <1>5 DEF CreateSession, RegisterToken, LinkSession, StartSession, CheckCancelled,
       RunExercise, Finalize
  <2> QED
    BY <1>1, <1>5, <2>1, <2>2 DEF GivenLocal, SettledLocal, Over, CreateSession, RegisterToken,
       LinkSession, StartSession, CheckCancelled, RunExercise, Finalize, RunGoto
<1> QED BY <1>2, <1>3, <1>4, <1>5 DEF RunStep

LEMMA LocalsNext == TypeInv /\ LocalsInv /\ [Next]_vars => LocalsInv'
<1> SUFFICES ASSUME TypeInv, HandLocal, GivenLocal, SettledLocal, BatchLocal, [Next]_vars
             PROVE  HandLocal' /\ GivenLocal' /\ SettledLocal' /\ BatchLocal'
  BY DEF LocalsInv, HandLocal, GivenLocal, SettledLocal, BatchLocal
<1>1. CASE DispatcherStep
  <2>1. BatchLocal'
    BY <1>1, LocalsSame DEF DispatcherStep, CheckShutdown, CheckCapacity, ArmCapacity, ArmItem, Arm,
       AcquirePermit, Backoff, CheckIdle, Poll, IncrementWorkers, SpawnWorker, handlerVars
  <2>2. HandLocal'
    BY <1>1 DEF DispatcherStep, CheckShutdown, CheckCapacity, ArmCapacity, ArmItem, Arm,
       AcquirePermit, Backoff, CheckIdle, Poll, IncrementWorkers, SpawnWorker, DispatcherGoto,
       HandLocal
  <2>3. CASE SpawnWorker
    <3>1. PICK run \in Runs : run = spawned + 1
      BY <2>3, BoundFacts DEF SpawnWorker, TypeInv, OthersTyped, Runs, Pushes
    <3>2. /\ rpc' = [rpc EXCEPT ![run] = "insert_session"]
          /\ ritem' = [ritem EXCEPT ![run] = ditem] /\ UNCHANGED rlocal
          /\ rpc \in [Runs -> RunPC] /\ ritem \in [Runs -> Item \cup {NoItem}]
      BY <2>3, <3>1 DEF SpawnWorker, TypeInv, RunsTyped
    <3> QED BY <2>1, <2>2, <3>2 DEF GivenLocal, SettledLocal, Over
  <2>4. CASE ~SpawnWorker
    <3>1. UNCHANGED runVars
      BY <1>1, <2>4 DEF DispatcherStep, CheckShutdown, CheckCapacity, ArmCapacity,
         ArmItem, Arm, AcquirePermit, Backoff, CheckIdle, Poll, IncrementWorkers
    <3> QED BY <2>1, <2>2, <3>1, LocalsSame DEF runVars
  <2> QED BY <2>1, <2>2, <2>3, <2>4
<1>2. CASE \E r \in Runs : RunStep(r)
  <2>1. PICK r \in Runs : RunStep(r)
    BY <1>2
  <2>2. BatchLocal' /\ UNCHANGED ditem
    BY <2>1, LocalsSame DEF RunStep, CreateSession, RegisterToken, LinkSession, StartSession,
       CheckCancelled, RunExercise, Finalize, PublishStatus, AwaitSession, SettleItem,
       ReleaseCount, ReleasePermit, NotifyCapacity, handlerVars, dispatcherVars
  <2>3. UNCHANGED dpc \/ dpc' = Woken
    BY <2>1 DEF RunStep, CreateSession, RegisterToken, LinkSession, StartSession,
       CheckCancelled, RunExercise, Finalize, PublishStatus, AwaitSession, SettleItem,
       ReleaseCount, ReleasePermit, NotifyCapacity, NotifyOne, dispatcherVars
  <2>4. HandLocal'
    BY <2>2, <2>3 DEF HandLocal, Woken
  <2> QED BY <2>1, <2>2, <2>4, LocalsOfRuns
<1>3. CASE \E h \in Handlers : HandlerCall(h) \/ HandlerStep(h)
  <2>1. PICK h \in Handlers : HandlerCall(h) \/ HandlerStep(h)
    BY <1>3
  <2>2. /\ UNCHANGED <<ditem, runVars>> /\ (UNCHANGED dpc \/ dpc' = Woken)
    BY <2>1 DEF HandlerCall, HandlerStep, ScheduleBatch, RetryItem, CancelQueueItem,
       CancelBenchmark, ClearPendingQueue, ClearCompletedAndCancelled, ClearAll, AddItems,
       CancelTheItem, CancelTheSession, ClearAllStep, NotifyWaiters, dispatcherVars
  <2>3. HandLocal' /\ GivenLocal' /\ SettledLocal'
    BY <2>2, LocalsSame DEF HandLocal, Woken, runVars
  <2>4. hpc \in [Handlers -> HandlerPC] /\ hbatch \in [Handlers -> Seq(Item)]
    BY DEF TypeInv, HandlersTyped
  <2>5. CASE ScheduleBatch(h) \/ RetryItem(h)
    <3>1. /\ hpc'[h] = "add"
          /\ \A g \in Handlers \ {h} : hpc'[g] = hpc[g] /\ hbatch'[g] = hbatch[g]
      BY <2>4, <2>5 DEF ScheduleBatch, RetryItem
    <3> QED BY <2>3, <3>1 DEF BatchLocal
  <2>6. CASE AddItems(h)
    BY <2>3, <2>4, <2>6 DEF AddItems, BatchLocal
  <2>7. CASE ~ScheduleBatch(h) /\ ~RetryItem(h) /\ ~AddItems(h)
    <3>1. /\ UNCHANGED hbatch
          /\ hpc' = hpc \/ \E pc : hpc' = [hpc EXCEPT ![h] = pc] /\ hpc[h] # "add"
      BY <2>1, <2>7 DEF HandlerCall, HandlerStep, CancelQueueItem,
         CancelBenchmark, ClearPendingQueue, ClearCompletedAndCancelled, ClearAll,
         CancelTheItem, CancelTheSession, ClearAllStep, Call, handlerVars
    <3> QED BY <2>3, <2>4, <3>1 DEF BatchLocal
  <2> QED BY <2>5, <2>6, <2>7
<1>4. CASE \/ StartQueueWorker \/ ShutdownSessionManager \/ ShutdownStep \/ UNCHANGED vars
  <2>1. UNCHANGED <<ditem, runVars, handlerVars>>
    BY <1>4 DEF StartQueueWorker, ShutdownSessionManager, ShutdownStep, RequestShutdown,
       AbortQueueTask, vars, dispatcherVars
  <2>2. GivenLocal' /\ SettledLocal' /\ BatchLocal'
    BY <2>1, LocalsSame DEF runVars, handlerVars
  <2>3. HandLocal'
    BY <1>4, <2>1 DEF StartQueueWorker, ShutdownSessionManager, ShutdownStep, RequestShutdown,
       AbortQueueTask, vars, dispatcherVars, DispatcherGoto, HandLocal
  <2> QED BY <2>2, <2>3
<1> QED BY <1>1, <1>2, <1>3, <1>4 DEF Next

LEMMA ContentsInit == Init => ContentsInv
<1> SUFFICES ASSUME Init PROVE ContentsInv
  OBVIOUS
<1>1. LocalsInv
  BY BoundFacts DEF Init, LocalsInv, Over
<1>2. ASSUME NEW id \in ItemIds PROVE ItemInv(id)
  <2>1. /\ Entries(id) = {} /\ (\A n : ~WaitsAt(id, n)) /\ NeverPolled(id)
        /\ \A h \in Handlers, k \in Nat : ~BatchedAt(id, h, k)
        /\ id \notin cancelled \cup withdrawn \cup current_items
    BY DEF Init, QueueInit, Entries, WaitsAt, NeverPolled, InHand, Given, BatchedAt
  <2>2. ~Owned(id)
    BY <2>1 DEF Owned, NeverPolled
  <2> QED
    BY <2>1, <2>2 DEF ItemInv, BatchPart, ViewPart, PolledPart, CurrentPart, Batched, NeverPolled
<1> QED BY <1>1, <1>2 DEF ContentsInv

LEMMA ContentsNext == TypeInv /\ PoolInv /\ ContentsInv /\ [Next]_vars => ContentsInv'
<1> SUFFICES ASSUME TypeInv, PoolInv, ContentsInv, [Next]_vars PROVE ContentsInv'
  OBVIOUS
<1>1. LocalsInv'
  BY LocalsNext DEF ContentsInv
<1>2. ASSUME NEW id \in ItemIds, id \notin retried' PROVE ItemInv(id)'
  BY <1>2, RetriedGrows, ItemNext DEF ContentsInv
<1> QED BY <1>1, <1>2 DEF ContentsInv

\* What is known of every item that nobody retried, in every reachable state of the
\* queue, its handlers, its dispatcher and its worker tasks.
THEOREM ContentsInvariant == Spec => [](TypeInv /\ ContentsInv)
BY TypeInitially, TypeNext, ContentsInit, ContentsNext, PoolInvariant, PTL DEF Spec

\* The deque and the list agree on every item that nobody retried.
THEOREM ViewsAgree == Spec => []QueueViewAgrees
<1>1. TypeInv /\ ContentsInv => QueueViewAgrees
  <2> SUFFICES ASSUME TypeInv, ContentsInv, NEW id \in 1..created \ retried
               PROVE  id \in IdsOf(inner) <=> HasStatus(id, "PENDING")
    BY DEF QueueViewAgrees
  <2>1. ViewPart(id)
    BY BoundFacts DEF ContentsInv, ItemInv, ItemIds, TypeInv, HandlersTyped
  <2>2. id \in IdsOf(inner) <=> \E n : WaitsAt(id, n)
    BY DEF IdsOf, WaitsAt
  <2>3. Listed(id) => First(id) \in Entries(id)
    BY FirstExists DEF First, Entries, Listed, TypeInv, QueueTypeOK
  <2> QED BY <2>1, <2>2, <2>3 DEF ViewPart, HasStatus, Status, Listed
<1> QED BY <1>1, ContentsInvariant, PTL

\* An item cancelled while it waited is never given to a run.
THEOREM CancelledItemsNeverRun == Spec => []CancelledNeverRuns
<1>1. TypeInv /\ ContentsInv => CancelledNeverRuns
  <2> SUFFICES ASSUME TypeInv, ContentsInv, NEW id \in withdrawn \ retried
               PROVE  NeverPolled(id)
    BY DEF CancelledNeverRuns, NeverPolled, InHand, Given
  <2> QED BY DEF ContentsInv, ItemInv, PolledPart, TypeInv, QueueTypeOK
<1> QED BY <1>1, ContentsInvariant, PTL

\* The map holds only items that the dispatcher or an unsettled run has in hand.
THEOREM CurrentItemsAreOwned == Spec => []CurrentIsOwned
<1>1. TypeInv /\ ContentsInv => CurrentIsOwned
  <2> SUFFICES ASSUME TypeInv, ContentsInv, NEW id \in current_items \ retried
               PROVE  Owned(id)
    BY DEF CurrentIsOwned, Owned, InHand, Given
  <2> QED BY DEF ContentsInv, ItemInv, CurrentPart, TypeInv, QueueTypeOK
<1> QED BY <1>1, ContentsInvariant, PTL

\* A run's outcome is what the list says of its item.
THEOREM OutcomesReflected == Spec => []OutcomeReflected
<1>1. TypeInv /\ ContentsInv => OutcomeReflected
  <2> SUFFICES ASSUME TypeInv, ContentsInv, NEW r \in Runs, Over(r),
                      ritem[r].id \notin retried, ritem[r].id \notin cancelled, Listed(ritem[r].id)
               PROVE  Status(ritem[r].id) = rlocal[r]
    BY DEF OutcomeReflected, Over
  <2>1. PICK id \in ItemIds : id = ritem[r].id /\ Given(id, r)
    BY PoolAssumption DEF TypeInv, RunsTyped, Item, Over, Given
  <2>2. First(id) \in Entries(id)
    BY <2>1, FirstExists DEF First, Entries, Listed, TypeInv, QueueTypeOK
  <2>3. \A n \in Entries(id) : all_items[n].status = rlocal[r]
    BY <2>1 DEF ContentsInv, ItemInv, CurrentPart
  <2> QED BY <2>1, <2>2, <2>3 DEF Status
<1> QED BY <1>1, ContentsInvariant, PTL
-----------------------------------------------------------------------------
(* The queue implements the lifecycle of every item, up to its first retry. *)

StateOf(id) ==
  IF id \in retried THEN "retried"
  ELSE IF Listed(id) THEN Status(id)
  ELSE IF id > created \/ Batched(id) THEN "new" ELSE "cleared"

LEMMA BatchedDef ==
  ASSUME HandlersTyped, NEW id
  PROVE  Batched(id) <=> \E h \in Handlers : \E k \in DOMAIN hbatch[h] : hbatch[h][k].id = id
<1>1. \A h \in Handlers : DOMAIN hbatch[h] \subseteq Nat
  BY DEF HandlersTyped
<1> QED BY <1>1 DEF Batched, BatchedAt

LEMMA ViewIsState == HandlersTyped => View = [id \in ItemIds |-> StateOf(id)]
<1> SUFFICES ASSUME HandlersTyped PROVE View = [id \in ItemIds |-> StateOf(id)]
  OBVIOUS
<1>1. ASSUME NEW id \in ItemIds PROVE View[id] = StateOf(id)
  <2>1. Batched(id) <=> \E h \in Handlers : \E k \in DOMAIN hbatch[h] : hbatch[h][k].id = id
    BY BatchedDef
  <2> QED BY <2>1 DEF View, StateOf
<1>2. View = [id \in ItemIds |-> View[id]]
  BY DEF View
<1> QED BY <1>1, <1>2, Zenon

LEMMA BothViews ==
  ASSUME TypeInv, TypeInv'
  PROVE  View = [id \in ItemIds |-> StateOf(id)] /\ View' = [id \in ItemIds |-> StateOf(id)']
<1>1. HandlersTyped /\ HandlersTyped'
  BY DEF TypeInv
<1>2. (HandlersTyped => View = [id \in ItemIds |-> StateOf(id)])'
  BY ViewIsState, PTL
<1> QED BY <1>1, <1>2, ViewIsState

LEMMA ViewUnchanged ==
  ASSUME TypeInv, TypeInv', \A id \in ItemIds : StateOf(id)' = StateOf(id)
  PROVE  UNCHANGED View
BY BothViews

LEMMA StatesMove ==
  ASSUME TypeInv, TypeInv', NEW ids \in SUBSET ItemIds, NEW from, NEW to,
         \A id \in ids : StateOf(id) \in from /\ StateOf(id)' = to,
         \A id \in ItemIds \ ids : StateOf(id)' = StateOf(id)
  PROVE  Lifecycle!Move(ids, from, to)
BY BothViews DEF Lifecycle!Move

LEMMA FirstEntry == ASSUME QueueTypeOK, NEW id, Listed(id) PROVE First(id) \in Entries(id)
BY FirstExists DEF First, Listed, Entries, QueueTypeOK

\* What an item's state is read from.
LEMMA StateKept ==
  ASSUME TypeInv, NEW id, Entries(id)' = Entries(id),
         \A n \in Entries(id) : all_items'[n].status = all_items[n].status,
         id > created' \/ Batched(id)' <=> id > created \/ Batched(id),
         id \in retried' <=> id \in retried
  PROVE  StateOf(id)' = StateOf(id)
<1>1. Listed(id)' <=> Listed(id)
  BY DEF Listed
<1>2. First(id)' = First(id)
  BY DEF First
<1>3. Listed(id) => Status(id)' = Status(id)
  BY <1>2, FirstEntry DEF Status, TypeInv
<1> QED BY <1>1, <1>3 DEF StateOf

LEMMA RetriedKept ==
  ASSUME NEW id, id \in retried, retried \subseteq retried'
  PROVE  StateOf(id)' = StateOf(id)
BY DEF StateOf

LEMMA ElsewhereKept ==
  ASSUME TypeInv, NEW id, SameList(id), SameBatches(id), retried' = retried
  PROVE  StateOf(id)' = StateOf(id)
<1>1. Batched(id)' <=> Batched(id)
  BY DEF Batched, SameBatches
<1> QED BY <1>1, StateKept DEF SameList, SameBatches

LEMMA StateListed ==
  ASSUME QueueTypeOK, NEW id, id \notin retried, ViewPart(id), NEW n \in Entries(id)
  PROVE  StateOf(id) = all_items[n].status
<1>1. Listed(id) /\ First(id) \in Entries(id)
  BY FirstEntry DEF Listed
<1> QED BY <1>1 DEF StateOf, Status, ViewPart

LEMMA StateAfter ==
  ASSUME QueueTypeOK, NEW id, id \notin retried', Entries(id)' = Entries(id), Entries(id) # {},
         NEW status, \A n \in Entries(id) : all_items'[n].status = status
  PROVE  StateOf(id)' = status
<1>1. Listed(id)' /\ First(id)' = First(id) /\ First(id) \in Entries(id)
  BY FirstEntry DEF Listed, First
<1> QED BY <1>1 DEF StateOf, Status

\* At most one item changes state, in one of the ways a single item may.
LEMMA OneMoves ==
  ASSUME TypeInv, TypeInv', retried \subseteq retried', NEW wid \in ItemIds,
         \A id \in ItemIds : id # wid /\ id \notin retried => StateOf(id)' = StateOf(id),
         \/ wid \in retried
         \/ StateOf(wid)' = StateOf(wid)
         \/ StateOf(wid) = "PENDING" /\ StateOf(wid)' \in {"RUNNING", "CANCELLED"}
         \/ StateOf(wid) = "RUNNING" /\ StateOf(wid)' \in {"COMPLETED", "FAILED"}
         \/ StateOf(wid) = "FAILED" /\ StateOf(wid)' = "retried"
  PROVE  Lifecycle!LifecycleNext \/ UNCHANGED View
<1>1. ASSUME NEW id \in ItemIds, id # wid \/ id \in retried PROVE StateOf(id)' = StateOf(id)
  BY <1>1, RetriedKept
<1>2. CASE wid \in retried \/ StateOf(wid)' = StateOf(wid)
  BY <1>1, <1>2, ViewUnchanged
<1>3. ASSUME NEW from, NEW to, StateOf(wid) = from, StateOf(wid)' = to
      PROVE  Lifecycle!Move({wid}, {from}, to)
  BY <1>1, <1>3, StatesMove
<1>4. CASE StateOf(wid) = "PENDING" /\ StateOf(wid)' \in {"RUNNING", "CANCELLED"}
  BY <1>3, <1>4 DEF Lifecycle!LifecycleNext
<1>5. CASE StateOf(wid) = "RUNNING" /\ StateOf(wid)' \in {"COMPLETED", "FAILED"}
  BY <1>3, <1>5 DEF Lifecycle!LifecycleNext
<1>6. CASE StateOf(wid) = "FAILED" /\ StateOf(wid)' = "retried"
  BY <1>3, <1>6 DEF Lifecycle!LifecycleNext
<1> QED BY <1>2, <1>4, <1>5, <1>6
-----------------------------------------------------------------------------
(* The steps that move an item. *)

Both == TypeInv /\ TypeInv' /\ ContentsInv

LEMMA InvOf == ASSUME TypeInv, ContentsInv, NEW id \in ItemIds, id \notin retried PROVE ItemInv(id)
BY DEF ContentsInv

LEMMA PollImplements == Both /\ Poll => Lifecycle!LifecycleNext \/ UNCHANGED View
<1> SUFFICES ASSUME TypeInv, TypeInv', ContentsInv, Poll
             PROVE  Lifecycle!LifecycleNext \/ UNCHANGED View
  BY DEF Both
<1>1. \A id \in ItemIds : SameBatches(id)
  BY Unchanged DEF Poll, handlerVars
<1>2. CASE UNCHANGED queueVars
  <2>1. ASSUME NEW id \in ItemIds PROVE StateOf(id)' = StateOf(id)
    BY <1>1, <1>2, Unchanged, ElsewhereKept DEF queueVars, historyVars
  <2> QED BY <2>1, ViewUnchanged
<1>3. CASE PollNext
  <2>1. PICK wid \in ItemIds : wid = Polled.id
    BY <1>3, PolledTyped DEF PollNext, TypeInv
  <2>2. retried' = retried /\ QueueTypeOK
    BY <1>3 DEF PollNext, historyVars, TypeInv
  <2>3. ASSUME NEW id \in ItemIds, id # wid, id \notin retried PROVE StateOf(id)' = StateOf(id)
    <3>1. SameList(id)
      BY <1>3, <2>1, <2>2, <2>3, InvOf, PolledView DEF SameList, ItemInv
    <3> QED BY <1>1, <2>2, <3>1, ElsewhereKept
  <2>4. ASSUME wid \notin retried
        PROVE  StateOf(wid) = "PENDING" /\ StateOf(wid)' = "RUNNING"
    <3>1. ViewPart(wid)
      BY <2>4, InvOf DEF ItemInv
    <3>2. /\ Entries(wid)' = Entries(wid) /\ \E n \in Entries(wid) : WaitsAt(wid, n)
          /\ \A n \in Entries(wid) : all_items'[n].status = "RUNNING"
      BY <1>3, <2>1, <2>2, <3>1, PolledView
    <3>3. PICK n \in Entries(wid) : all_items[n].status = "PENDING"
      BY <3>1, <3>2 DEF ViewPart
    <3>4. StateOf(wid) = "PENDING"
      BY <2>2, <2>4, <3>1, <3>3, StateListed
    <3>5. StateOf(wid)' = "RUNNING"
      BY <2>2, <2>4, <3>2, StateAfter
    <3> QED BY <3>4, <3>5
  <2> QED BY <2>2, <2>3, <2>4, OneMoves
<1> QED BY <1>2, <1>3 DEF Poll
LEMMA QuietImplements ==
  ASSUME Both, retried' = retried,
         \A id \in ItemIds : id \notin retried => SameList(id) /\ SameBatches(id)
  PROVE  UNCHANGED View
<1>1. ASSUME NEW id \in ItemIds PROVE StateOf(id)' = StateOf(id)
  BY RetriedKept, ElsewhereKept DEF Both
<1> QED BY <1>1, ViewUnchanged DEF Both

LEMMA CancelImplements ==
  ASSUME Both, NEW wid \in ItemIds, CancelItem(wid), UNCHANGED <<hbatch, created>>
  PROVE  Lifecycle!LifecycleNext \/ UNCHANGED View
<1>1. TypeInv /\ TypeInv' /\ ContentsInv /\ QueueTypeOK /\ retried' = retried
  BY DEF Both, CancelItem, TypeInv
<1>2. ASSUME NEW id \in ItemIds, id # wid, id \notin retried PROVE StateOf(id)' = StateOf(id)
  <2>1. SameList(id)
    BY <1>1, <1>2, CancelledItem DEF SameList
  <2> QED BY <1>1, <2>1, Unchanged, ElsewhereKept
<1>3. CASE wid \notin retried
  <2>1. ViewPart(wid)
    BY <1>1, <1>3, InvOf DEF ItemInv
  <2>2. /\ Entries(wid)' = Entries(wid)
        /\ \A n \in Entries(wid) :
             /\ all_items[n].status = "PENDING" => all_items'[n].status = "CANCELLED"
             /\ all_items[n].status # "PENDING" => all_items'[n] = all_items[n]
    BY <1>1, <2>1, CancelledItem DEF ViewPart
  <2>3. PICK n \in Entries(wid) : \A m \in Entries(wid) : m = n
    BY <2>1 DEF CancelItem, Listed, ViewPart
  <2>4. StateOf(wid) = all_items[n].status /\ StateOf(wid)' = all_items'[n].status
    BY <1>1, <1>3, <2>1, <2>2, <2>3, StateListed, StateAfter
  <2> QED BY <1>1, <1>2, <2>2, <2>4, OneMoves
<1>4. CASE wid \in retried
  BY <1>1, <1>2, <1>4, OneMoves
<1> QED BY <1>3, <1>4

LEMMA FinishImplements ==
  ASSUME Both, NEW wid \in ItemIds, NEW status \in {"COMPLETED", "FAILED"},
         FinishCurrent(wid, status), UNCHANGED <<hbatch, created>>
  PROVE  Lifecycle!LifecycleNext \/ UNCHANGED View
<1>1. /\ TypeInv /\ TypeInv' /\ ContentsInv /\ QueueTypeOK /\ retried' = retried
      /\ status \in ItemStatus
  BY DEF Both, FinishCurrent, TypeInv, historyVars, ItemStatus
<1>2. ASSUME NEW id \in ItemIds, id # wid \/ id \notin current_items, id \notin retried
      PROVE  StateOf(id)' = StateOf(id)
  <2>1. Entries(id)' = Entries(id) /\ \A n \in Entries(id) : all_items'[n] = all_items[n]
    BY <1>1, <1>2, FinishedItem
  <2>2. Batched(id)' <=> Batched(id)
    BY DEF Batched, BatchedAt
  <2> QED BY <1>1, <1>2, <2>1, <2>2, StateKept
<1>3. CASE wid \notin retried /\ wid \in current_items
  <2>1. /\ ViewPart(wid) /\ Entries(wid) # {}
        /\ \A n \in Entries(wid) : all_items[n].status = "RUNNING"
    BY <1>1, <1>3, InvOf DEF ItemInv, CurrentPart, Listed
  <2>2. Entries(wid)' = Entries(wid) /\ \A n \in Entries(wid) : all_items'[n].status = status
    BY <1>1, <1>3, <2>1, FinishedItem DEF ViewPart
  <2>3. PICK n \in Entries(wid) : all_items[n].status = "RUNNING"
    BY <2>1
  <2>4. StateOf(wid) = "RUNNING" /\ StateOf(wid)' = status
    BY <1>1, <1>3, <2>1, <2>2, <2>3, StateListed, StateAfter
  <2> QED BY <1>1, <1>2, <2>4, OneMoves
<1>4. CASE wid \in retried \/ wid \notin current_items
  BY <1>1, <1>2, <1>4, OneMoves, RetriedKept
<1> QED BY <1>3, <1>4

LEMMA RunImplements ==
  ASSUME Both, LocalsInv, NEW r \in Runs, RunStep(r)
  PROVE  Lifecycle!LifecycleNext \/ UNCHANGED View
<1>1. UNCHANGED <<hbatch, created>>
  BY DEF RunStep, CreateSession, RegisterToken, LinkSession, StartSession, CheckCancelled,
     RunExercise, Finalize, PublishStatus, AwaitSession, SettleItem, ReleaseCount, ReleasePermit,
     NotifyCapacity, handlerVars
<1>2. CASE UNCHANGED queueVars
  BY <1>1, <1>2, Unchanged, QuietImplements DEF queueVars, historyVars
<1>3. CASE LinkSession(r)
  <2>1. QueueTypeOK /\ retried' = retried /\ SetSessionId(ritem[r].id, r) /\ r \in Sessions
    BY <1>3, BoundFacts DEF LinkSession, SetSessionId, historyVars, Both, TypeInv
  <2>2. ASSUME NEW id \in ItemIds, id \notin retried PROVE SameList(id) /\ SameBatches(id)
    BY <1>1, <2>1, <2>2, InvOf, LinkedView, Unchanged DEF Both, ItemInv
  <2> QED BY <2>1, <2>2, QuietImplements
<1>4. CASE SettleItem(r)
  <2>1. PICK wid \in ItemIds : wid = ritem[r].id
    BY <1>4 DEF SettleItem, RunGoto, Both, TypeInv, RunsTyped, Item
  <2>2. rlocal[r] \in Terminal
    BY <1>4 DEF SettleItem, RunGoto, LocalsInv
  <2>3. rlocal[r] # "CANCELLED" => rlocal[r] \in {"COMPLETED", "FAILED"}
    BY <2>2 DEF Terminal, RunStatus, Active
  <2>4. \/ CancelItem(wid) \/ UNCHANGED queueVars
        \/ rlocal[r] \in {"COMPLETED", "FAILED"} /\ FinishCurrent(wid, rlocal[r])
    BY <1>4, <2>1, <2>3 DEF SettleItem
  <2> QED BY <1>1, <1>2, <2>4, CancelImplements, FinishImplements
<1> QED
  BY <1>2, <1>3, <1>4 DEF RunStep, CreateSession, RegisterToken, StartSession, CheckCancelled,
     RunExercise, Finalize, PublishStatus, AwaitSession, ReleaseCount, ReleasePermit,
     NotifyCapacity

LEMMA ScheduleImplements ==
  ASSUME Both, LocalsInv, NEW h \in Handlers, ScheduleBatch(h)
  PROVE  UNCHANGED View
<1>1. /\ UNCHANGED queueVars /\ hbatch[h] = <<>> /\ TypeInv /\ TypeInv'
      /\ created \in Nat /\ ItemIds \subseteq Nat
  BY BoundFacts DEF ScheduleBatch, Call, LocalsInv, Both, TypeInv, HandlersTyped, ItemIds
<1>2. ASSUME NEW id \in ItemIds PROVE StateOf(id)' = StateOf(id)
  <2>1. PICK count \in Nat :
          /\ created' = created + count
          /\ \A k \in Nat : BatchedAt(id, h, k)' <=> k \in 1..count /\ id = created + k
          /\ \A g \in Handlers \ {h}, k \in Nat : BatchedAt(id, g, k)' <=> BatchedAt(id, g, k)
    BY <1>1, ScheduledView
  <2>2. \A k \in Nat : ~BatchedAt(id, h, k)
    BY <1>1 DEF BatchedAt
  <2>3. CASE id > created
    <3>1. id > created' \/ (id - created \in 1..count /\ id = created + (id - created))
      BY <1>1, <2>1, <2>3
    <3>2. id > created' \/ Batched(id)'
      BY <2>1, <3>1 DEF Batched
    <3> QED BY <1>1, <2>3, <3>2, Unchanged, StateKept DEF SameList, queueVars, historyVars
  <2>4. CASE id <= created
    <3>1. ~(id > created') /\ \A k \in Nat : ~BatchedAt(id, h, k)'
      BY <1>1, <2>1, <2>4
    <3>2. Batched(id)' <=> Batched(id)
      BY <2>1, <2>2, <3>1 DEF Batched
    <3> QED BY <1>1, <2>4, <3>1, <3>2, Unchanged, StateKept DEF SameList, queueVars, historyVars
  <2> QED BY <1>1, <2>3, <2>4
<1> QED BY <1>1, <1>2, ViewUnchanged

LEMMA RetryImplements ==
  ASSUME Both, LocalsInv, NEW h \in Handlers, RetryItem(h)
  PROVE  Lifecycle!LifecycleNext \/ UNCHANGED View
<1>1. TypeInv /\ TypeInv' /\ ContentsInv /\ QueueTypeOK
  BY DEF Both, TypeInv
<1>2. PICK rid \in ItemIds : RetryReset(rid)
  BY <1>1, BoundFacts DEF RetryItem, ItemIds, TypeInv, HandlersTyped
<1>3. retried' = retried \cup {rid}
  BY <1>2 DEF RetryReset
<1>4. ASSUME NEW id \in ItemIds, id # rid, id \notin retried PROVE StateOf(id)' = StateOf(id)
  <2>1. SameList(id) /\ SameBatches(id)
    BY <1>1, <1>3, <1>4, RetryElsewhere
  <2>2. Batched(id)' <=> Batched(id)
    BY <2>1 DEF Batched, SameBatches
  <2> QED BY <1>1, <1>3, <1>4, <2>1, <2>2, StateKept DEF SameList, SameBatches
<1>5. CASE rid \notin retried
  <2>1. PICK n \in Entries(rid) : all_items[n].status = "FAILED"
    BY <1>2 DEF RetryReset, FailedEntries
  <2>2. StateOf(rid) = "FAILED"
    BY <1>1, <1>5, <2>1, InvOf, StateListed DEF ItemInv
  <2>3. StateOf(rid)' = "retried"
    BY <1>3 DEF StateOf
  <2> QED BY <1>1, <1>3, <1>4, <2>2, <2>3, OneMoves
<1>6. CASE rid \in retried
  BY <1>1, <1>3, <1>4, <1>6, OneMoves
<1> QED BY <1>5, <1>6

LEMMA AddImplements ==
  ASSUME Both, NEW h \in Handlers, AddItems(h)
  PROVE  Lifecycle!LifecycleNext \/ UNCHANGED View
<1>1. PICK items \in Seq(Item) : items = hbatch[h] /\ AddAll(items)
  BY DEF AddItems, Both, TypeInv, HandlersTyped
<1>2. /\ TypeInv /\ TypeInv' /\ ContentsInv /\ QueueTypeOK /\ retried' = retried
      /\ hbatch \in [Handlers -> Seq(Item)]
      /\ hbatch' = [hbatch EXCEPT ![h] = <<>>] /\ created' = created
  BY DEF AddItems, AddAll, historyVars, Both, TypeInv, HandlersTyped
<1>3. PICK ids : ids = {id \in ItemIds : id \notin retried /\ \E k \in Nat : BatchedAt(id, h, k)}
  OBVIOUS
<1>4. ASSUME NEW id \in ids PROVE StateOf(id) = "new" /\ StateOf(id)' = "PENDING"
  <2>1. PICK k \in Nat : BatchedAt(id, h, k)
    BY <1>3, <1>4
  <2>2. ItemInv(id) /\ id \notin retried
    BY <1>2, <1>3, <1>4, InvOf
  <2>3. /\ Entries(id) = {} /\ Batched(id) /\ k \in 1..Len(items) /\ items[k].id = id
        /\ \A j \in 1..Len(items) : items[j].id = id => j = k
        /\ items[k].status = "PENDING"
    BY <1>1, <1>2, <2>1, <2>2 DEF ItemInv, BatchPart, Batched, BatchedAt
  <2>4. PICK m : m = pushes + k
    OBVIOUS
  <2>5. /\ \A n : n \in Entries(id)' <=> n = m
        /\ all_items'[m].status = "PENDING"
    <3>1. /\ \A n : n \in Entries(id)' <=>
                  \/ n \in Entries(id)
                  \/ \E j \in 1..Len(items) : n = pushes + j /\ items[j].id = id
          /\ \A j \in 1..Len(items) : all_items'[pushes + j] = items[j]
      BY <1>1, <1>2, AddedView
    <3>2. all_items'[m] = items[k]
      BY <2>3, <2>4, <3>1, Zenon
    <3>3. ASSUME NEW n PROVE n \in Entries(id)' <=> n = m
      BY <2>3, <2>4, <3>1, Zenon
    <3> QED BY <2>3, <3>2, <3>3, Zenon
  <2>6. First(id)' = m /\ Listed(id)'
    <3>1. Entries(id)' = {m}
      <4>1. Entries(id)' = {i \in DOMAIN all_items' : all_items'[i].id = id}
        BY DEF Entries
      <4>2. \A n : n \in Entries(id)' <=> n = m
        BY <2>5, <4>1
      <4> QED BY <4>2, Zenon
    <3>2. m \in Nat
      BY <1>2, <2>3, <2>4 DEF QueueTypeOK
    <3>3. Min({m}) = m
      <4>1. {m} \subseteq Nat /\ {m} # {}
        BY <3>2, Zenon
      <4>2. Min({m}) \in {m}
        BY <4>1, FirstExists, Zenon
      <4> QED BY <4>2, Zenon
    <3>4. First(id)' = Min({m}) /\ (Listed(id)' <=> {m} # {})
      BY <3>1, Zenon DEF First, Listed
    <3> QED BY ONLY <3>3, <3>4
  <2>7. StateOf(id)' = "PENDING"
    BY <1>2, <2>2, <2>5, <2>6 DEF StateOf, Status
  <2>8. StateOf(id) = "new"
    BY <2>2, <2>3 DEF StateOf, Listed
  <2> QED BY <2>7, <2>8
<1>5. ASSUME NEW id \in ItemIds \ ids PROVE StateOf(id)' = StateOf(id)
  <2>1. CASE id \in retried
    BY <1>2, <2>1, RetriedKept
  <2>2. CASE \A k \in Nat : ~BatchedAt(id, h, k)
    <3>1. \A k \in 1..Len(items) : items[k].id # id
      BY <1>1, <2>2 DEF BatchedAt
    <3>2. Entries(id)' = Entries(id) /\ \A n \in Entries(id) : all_items'[n] = all_items[n]
      BY <1>1, <1>2, <3>1, AddedView
    <3>3. Batched(id)' <=> Batched(id)
      BY <1>2, <2>2 DEF Batched, BatchedAt
    <3> QED BY <1>2, <3>2, <3>3, StateKept
  <2> QED BY <1>3, <2>1, <2>2
<1>6. ids \in SUBSET ItemIds
  BY <1>3
<1>7. Lifecycle!Move(ids, {"new"}, "PENDING")
  <2>1. /\ TypeInv /\ TypeInv'
        /\ \A id \in ids : StateOf(id) \in {"new"} /\ StateOf(id)' = "PENDING"
        /\ \A id \in ItemIds \ ids : StateOf(id)' = StateOf(id)
    BY <1>2, <1>4, <1>5
  <2> QED BY <1>6, <2>1, StatesMove
<1> QED BY <1>6, <1>7 DEF Lifecycle!LifecycleNext

LEMMA ClearImplements ==
  ASSUME Both, ClearPending \/ ClearTerminalItems \/ ClearAllItems, UNCHANGED <<hbatch, created>>
  PROVE  Lifecycle!LifecycleNext \/ UNCHANGED View
<1>1. /\ TypeInv /\ TypeInv' /\ ContentsInv /\ QueueTypeOK /\ retried' = retried
  BY DEF Both, TypeInv, ClearPending, ClearTerminalItems, ClearAllItems, historyVars
<1>2. PICK S \in SUBSET DOMAIN all_items : all_items' = Restrict(all_items, S)
  BY DEF ClearPending, ClearTerminalItems, ClearAllItems, Retain
<1>3. \A id : Entries(id)' = Entries(id) \cap S /\ \A n \in S : all_items'[n] = all_items[n]
  BY <1>2 DEF Entries, Restrict
<1>4. PICK ids : ids = {id \in ItemIds :
                          id \notin retried /\ Entries(id) # {} /\ Entries(id) \cap S = {}}
  OBVIOUS
<1>5. ASSUME NEW id \in ids PROVE StateOf(id) \in Lifecycle!Listed /\ StateOf(id)' = "cleared"
  <2>1. ItemInv(id) /\ id \notin retried /\ Entries(id) # {} /\ Entries(id)' = {}
    BY <1>1, <1>3, <1>4, <1>5, InvOf
  <2>2. PICK n \in Entries(id) : all_items[n].status \in ItemStatus
    BY <1>1, <2>1 DEF Entries, QueueTypeOK, Item
  <2>3. StateOf(id) \in Lifecycle!Listed
    BY <1>1, <2>1, <2>2, StateListed DEF ItemInv, ItemStatus, Lifecycle!Listed
  <2>4. ~(id > created) /\ ~Batched(id)
    BY <2>1 DEF ItemInv, BatchPart
  <2>5. ~Batched(id)' /\ ~(id > created') /\ ~Listed(id)'
    BY <2>1, <2>4 DEF Batched, BatchedAt, Listed
  <2> QED BY <1>1, <2>1, <2>3, <2>5 DEF StateOf
<1>6. ASSUME NEW id \in ItemIds \ ids PROVE StateOf(id)' = StateOf(id)
  <2>1. CASE id \in retried
    BY <1>1, <2>1, RetriedKept
  <2>2. CASE id \notin retried
    <3>1. Entries(id) \cap S = Entries(id)
      BY <1>1, <1>4, <1>6, <2>2, InvOf DEF ItemInv, ViewPart
    <3>2. Entries(id)' = Entries(id) /\ \A n \in Entries(id) : all_items'[n] = all_items[n]
      BY <1>3, <3>1
    <3>3. Batched(id)' <=> Batched(id)
      BY DEF Batched, BatchedAt
    <3> QED BY <1>1, <3>2, <3>3, StateKept
  <2> QED BY <2>1, <2>2
<1>7. ids \in SUBSET ItemIds
  BY <1>4
<1>8. Lifecycle!Move(ids, Lifecycle!Listed, "cleared")
  <2>1. /\ TypeInv /\ TypeInv'
        /\ \A id \in ids : StateOf(id) \in Lifecycle!Listed /\ StateOf(id)' = "cleared"
        /\ \A id \in ItemIds \ ids : StateOf(id)' = StateOf(id)
    BY <1>1, <1>5, <1>6
  <2> QED BY <1>7, <2>1, StatesMove
<1> QED BY <1>7, <1>8 DEF Lifecycle!LifecycleNext
LEMMA HandlerImplements ==
  ASSUME Both, LocalsInv, NEW h \in Handlers, HandlerCall(h) \/ HandlerStep(h)
  PROVE  Lifecycle!LifecycleNext \/ UNCHANGED View
<1>1. CASE ScheduleBatch(h)
  BY <1>1, ScheduleImplements
<1>2. CASE RetryItem(h)
  BY <1>2, RetryImplements
<1>3. CASE AddItems(h)
  BY <1>3, AddImplements
<1>4. CASE \/ CancelQueueItem(h) \/ CancelBenchmark(h) \/ ClearPendingQueue(h)
           \/ ClearCompletedAndCancelled(h) \/ ClearAll(h) \/ CancelTheItem(h)
           \/ CancelTheSession(h) \/ ClearAllStep(h)
  <2>1. /\ UNCHANGED <<hbatch, created>>
        /\ \/ UNCHANGED queueVars \/ CancelItem(hitem[h])
           \/ ClearPending \/ ClearTerminalItems \/ ClearAllItems
    BY <1>4 DEF CancelQueueItem, CancelBenchmark, ClearPendingQueue, ClearCompletedAndCancelled,
       ClearAll, CancelTheItem, CancelTheSession, ClearAllStep, dispatcherVars, runVars,
       handlerVars
  <2>2. CASE UNCHANGED queueVars
    BY <2>1, <2>2, Unchanged, QuietImplements DEF queueVars, historyVars
  <2>3. CASE CancelItem(hitem[h])
    <3>1. Listed(hitem[h])
      BY <2>3 DEF CancelItem
    <3>2. hitem[h] \in ItemIds
      BY <3>1 DEF Listed, Entries, Both, TypeInv, QueueTypeOK, Item
    <3> QED BY <2>1, <2>3, <3>2, CancelImplements
  <2>4. CASE ClearPending \/ ClearTerminalItems \/ ClearAllItems
    BY <2>1, <2>4, ClearImplements
  <2> QED BY <2>1, <2>2, <2>3, <2>4
<1> QED BY <1>1, <1>2, <1>3, <1>4 DEF HandlerCall, HandlerStep

LEMMA LifecycleStep ==
  ASSUME Both, LocalsInv, [Next]_vars
  PROVE  Lifecycle!LifecycleNext \/ UNCHANGED View
<1>1. CASE Poll
  BY <1>1, PollImplements
<1>2. CASE \E r \in Runs : RunStep(r)
  BY <1>2, RunImplements
<1>3. CASE \E h \in Handlers : HandlerCall(h) \/ HandlerStep(h)
  BY <1>3, HandlerImplements
<1>4. CASE UNCHANGED <<queueVars, handlerVars>>
  <2>1. retried' = retried /\ \A id \in ItemIds : SameList(id) /\ SameBatches(id)
    BY <1>4, Unchanged DEF queueVars, historyVars, handlerVars
  <2> QED BY <2>1, QuietImplements
<1>5. CASE DispatcherStep /\ ~Poll
  BY <1>4, <1>5 DEF DispatcherStep, CheckShutdown, CheckCapacity, ArmCapacity, ArmItem, Arm,
     AcquirePermit, Backoff, CheckIdle, IncrementWorkers, SpawnWorker
<1>6. CASE \/ StartQueueWorker \/ ShutdownSessionManager \/ ShutdownStep \/ UNCHANGED vars
  BY <1>4, <1>6 DEF StartQueueWorker, ShutdownSessionManager, ShutdownStep, RequestShutdown,
     AbortQueueTask, vars
<1> QED BY <1>1, <1>2, <1>3, <1>5, <1>6 DEF Next

LEMMA LifecycleInitially == Init => Lifecycle!LifecycleInit
<1> SUFFICES ASSUME Init PROVE View = [id \in ItemIds |-> "new"]
  BY DEF Lifecycle!LifecycleInit
<1>1. HandlersTyped /\ retried = {} /\ created = 0 /\ \A id : ~Listed(id)
  BY TypeInitially DEF Init, QueueInit, TypeInv, Listed, Entries
<1>2. \A id \in ItemIds : StateOf(id) = "new"
  BY <1>1, BoundFacts DEF StateOf, ItemIds
<1> QED BY <1>1, <1>2, ViewIsState

\* Until its first retry an item goes through the lifecycle of docs/ARCHITECTURE.md:
\* queued once, run at most once, cancelled only while it waits, ended COMPLETED or
\* FAILED, whatever the handlers, the dispatcher and the worker tasks interleave.
THEOREM QueueImplementsLifecycle == Spec => ItemsFollowLifecycle
<1>1. TypeInv /\ TypeInv' /\ ContentsInv /\ [Next]_vars => [Lifecycle!LifecycleNext]_View
  BY LifecycleStep DEF Both, ContentsInv
<1> QED
  BY <1>1, LifecycleInitially, ContentsInvariant, PTL
  DEF Spec, ItemsFollowLifecycle, Lifecycle!LifecycleSpec

\* What the lifecycle comes to for whoever looks at an item.
OutcomeIsKept(id) ==
  /\ View[id] \in {"COMPLETED", "CANCELLED"} => View'[id] \in {View[id], "cleared"}
  /\ View[id] = "FAILED" => View'[id] \in {"FAILED", "cleared", "retried"}
  /\ View[id] = "cleared" => View'[id] = "cleared"
  /\ View'[id] = "RUNNING" => View[id] \in {"PENDING", "RUNNING"}

\* An outcome is final: whatever handlers and worker tasks interleave, an item that
\* completed or was cancelled is only ever cleared, one that failed is cleared or retried,
\* what was cleared does not come back, and only an item that waits begins to run.
THEOREM OutcomesAreFinal == Spec => [][\A id \in ItemIds : OutcomeIsKept(id)]_View
<1>1. ASSUME Lifecycle!LifecycleNext PROVE \A id \in ItemIds : OutcomeIsKept(id)
  <2> SUFFICES ASSUME NEW ids \in SUBSET ItemIds, NEW from, NEW to,
                      Lifecycle!Move(ids, from, to),
                      \/ from = {"new"} /\ to = "PENDING"
                      \/ from = Lifecycle!Listed /\ to = "cleared"
                      \/ from = {"PENDING"} /\ to \in {"RUNNING", "CANCELLED"}
                      \/ from = {"RUNNING"} /\ to \in {"COMPLETED", "FAILED"}
                      \/ from = {"FAILED"} /\ to = "retried",
                      NEW id \in ItemIds
               PROVE  OutcomeIsKept(id)
    BY <1>1 DEF Lifecycle!LifecycleNext
  <2>1. View'[id] = IF id \in ids THEN to ELSE View[id]
    BY DEF Lifecycle!Move
  <2>2. id \in ids => View[id] \in from
    BY DEF Lifecycle!Move
  <2> HIDE DEF View
  <2> QED BY <2>1, <2>2 DEF OutcomeIsKept, Lifecycle!Listed
<1> QED
  BY <1>1, QueueImplementsLifecycle, PTL DEF ItemsFollowLifecycle, Lifecycle!LifecycleSpec
=============================================================================
