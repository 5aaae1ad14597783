------------------------------- MODULE Dedupe -------------------------------
(***************************************************************************)
(* The set of recently seen Slack event ids (relay/src/slack/events.rs).   *)
(* The ids are kept twice: in a queue that remembers their age and in a    *)
(* set that answers membership.  first_seen updates both, and evicts the   *)
(* oldest id from both once the queue outgrows its capacity.  The lock     *)
(* around it (AppState.dedupe) makes each call one atomic step.            *)
(***************************************************************************)
EXTENDS Integers, Sequences

CONSTANTS EventId,      \* Slack event ids
          Capacity,     \* DEDUPE_CAPACITY, 1000 in the program
          MaxAccepted   \* bound: accepted ids in one behaviour

ASSUME CapacityAssumption == Capacity \in Nat
ASSUME BoundAssumption == MaxAccepted \in Nat

VARIABLES order,        \* Dedupe.order, oldest id first
          seen,         \* Dedupe.seen
          answer,       \* the last call of first_seen: its id and what it returned
          accepted      \* history: the ids first_seen said TRUE to

vars == <<order, seen, answer, accepted>>

Init ==
  /\ order = <<>>
  /\ seen = {}
  /\ answer = <<>>
  /\ accepted = <<>>

\* A call that finds the id in the set changes nothing.
Duplicate(id) ==
  /\ id \in seen
  /\ answer' = <<id, FALSE>>
  /\ UNCHANGED <<order, seen, accepted>>

\* The queue and the set after a new id: the oldest id leaves both when the
\* queue is over capacity (with capacity 0 that is the new id itself).
\* Mutant: evicts one acceptance too early.
OverfullEarly == Len(order) + 1 >= Capacity
Overfull == Len(order) + 1 > Capacity
\* Mutant: evicts the newest id of the queue instead of the oldest.
PushedNewest(id) == IF Overfull THEN order ELSE Append(order, id)
Pushed(id) == IF Overfull THEN Tail(Append(order, id)) ELSE Append(order, id)
\* Mutants: the set keeps what the queue evicts, or forgets to remember.
RememberedForEver(id) == seen \cup {id}
RememberedNever(id) == seen
Remembered(id) ==
  IF Overfull THEN (seen \cup {id}) \ {Head(Append(order, id))} ELSE seen \cup {id}

Fresh(id) ==
  /\ id \notin seen
  /\ Len(accepted) < MaxAccepted
  /\ order' = Pushed(id)
  /\ seen' = Remembered(id)
  /\ answer' = <<id, TRUE>>
  /\ accepted' = Append(accepted, id)

FirstSeen(id) == Duplicate(id) \/ Fresh(id)

Next == \E id \in EventId : FirstSeen(id)

Spec == Init /\ [][Next]_vars
-----------------------------------------------------------------------------
TypeOK ==
  /\ order \in Seq(EventId) /\ Len(order) <= Capacity
  /\ seen \subseteq EventId
  /\ answer \in {<<>>} \cup (EventId \X BOOLEAN)
  /\ accepted \in Seq(EventId)

\* The queue never holds an id twice and the set holds exactly the ids of the
\* queue: an eviction takes the same id out of both (events.rs:100-104).  Were they to drift apart, an id would be
\* refused for ever or the set would grow without bound.
SetMatchesQueue ==
  /\ \A i, j \in DOMAIN order : order[i] = order[j] => i = j
  /\ seen = {order[i] : i \in DOMAIN order}

\* A repeated delivery of one event is accepted again only after more than
\* Capacity acceptances: all of Slack's retries inside that window are dropped.
RetriesDropped ==
  \A i, j \in DOMAIN accepted :
     i < j /\ accepted[i] = accepted[j] => j - i > Capacity

\* The queue with its set answers every call as the abstract window of recent
\* ids does.
Window == INSTANCE RecentWindow
ImplementsWindow == Window!Spec
=============================================================================
