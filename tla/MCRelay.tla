------------------------------ MODULE MCRelay ------------------------------
(* Model values for Relay.                                                   *)
EXTENDS Relay, TLC

CONSTANTS u1, s1

\* Channels stand for the ranks of their names; a Slack timestamp is a number.
NoBindings == Empty
Thread(c, s, u) == c :> [session |-> s, user |-> u, created |-> 0]
OneThread == Thread(<<1, 0>>, s1, u1)

Symmetry == Permutations(EventId) \cup Permutations(CallId) \cup Permutations(PickId)
=============================================================================
