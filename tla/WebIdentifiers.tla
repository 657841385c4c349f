---------------------------- MODULE WebIdentifiers ----------------------------
(***************************************************************************)
(* The names the web server's modules share.  The program draws uuids; here*)
(* an item, a push onto the queue and a session are numbered in the order  *)
(* they come to be, up to a bound.                                         *)
(***************************************************************************)
EXTENDS Naturals, FiniteSets

CONSTANTS
  Keys,       \* (agent, language, exercise) triples that can be scheduled
  MaxItems,   \* bound: items created
  MaxRetries  \* bound: retry_item calls that find a failed item

ASSUME BoundsAssumption ==
  IsFiniteSet(Keys) /\ MaxItems \in Nat \ {0} /\ MaxRetries \in Nat

MaxPushes == MaxItems + MaxRetries
Pushes == 1..MaxPushes
ItemIds == 1..MaxItems

Sessions == Pushes   \* a session per run, a run per polled push
NoSession == 0
=============================================================================
