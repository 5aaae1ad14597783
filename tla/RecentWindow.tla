---------------------------- MODULE RecentWindow ----------------------------
(***************************************************************************)
(* What event de-duplication promises, without saying how: an event id is  *)
(* answered TRUE exactly when it is not one of the last Capacity ids that  *)
(* were.  Dedupe.tla is the program's way of keeping this promise.         *)
(***************************************************************************)
EXTENDS Naturals, Sequences

CONSTANTS EventId,      \* Slack event ids
          Capacity,     \* how many accepted ids are remembered
          MaxAccepted   \* bound: accepted ids in one behaviour

VARIABLES accepted,     \* the ids answered TRUE so far, oldest first
          answer        \* the id of the last call, and what it was told

vars == <<accepted, answer>>

\* The positions of s that are still remembered.
Recent(s) == {i \in DOMAIN s : Len(s) - i < Capacity}
IsRecent(id) == \E i \in Recent(accepted) : accepted[i] = id

Init == accepted = <<>> /\ answer = <<>>

Accept(id) ==
  /\ Len(accepted) < MaxAccepted /\ ~IsRecent(id)
  /\ accepted' = Append(accepted, id) /\ answer' = <<id, TRUE>>

Refuse(id) ==
  /\ IsRecent(id)
  /\ answer' = <<id, FALSE>> /\ UNCHANGED accepted

Next == \E id \in EventId : Accept(id) \/ Refuse(id)

Spec == Init /\ [][Next]_vars
=============================================================================
