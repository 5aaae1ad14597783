------------------------------- MODULE Outbox -------------------------------
(***************************************************************************)
(* What the relay promises about messages for an agent: a message is       *)
(* accepted by one connection or refused, each accepted message reaches    *)
(* its connection at most once, and a connection receives a prefix of what *)
(* it accepted, in that order.  The rest is lost with the connection.      *)
(* AgentWs.tla is the program's way of keeping this promise.               *)
(***************************************************************************)
EXTENDS Naturals, Sequences

CONSTANTS Conn, Message

VARIABLES accepted,     \* per connection: the messages it accepted
          delivered,    \* per connection: the messages written to its socket
          refused       \* the messages whose sender was told "offline"

vars == <<accepted, delivered, refused>>

Init ==
  /\ accepted = [c \in Conn |-> <<>>]
  /\ delivered = [c \in Conn |-> <<>>]
  /\ refused = {}

Undecided(m) ==
  /\ m \notin refused
  /\ \A c \in Conn : \A i \in DOMAIN accepted[c] : accepted[c][i] # m

Accept(m, c) ==
  /\ Undecided(m)
  /\ accepted' = [accepted EXCEPT ![c] = Append(@, m)]
  /\ UNCHANGED <<delivered, refused>>

Refuse(m) ==
  /\ Undecided(m)
  /\ refused' = refused \cup {m}
  /\ UNCHANGED <<accepted, delivered>>

Deliver(c) ==
  LET n == Len(delivered[c]) + 1
  IN  /\ n \in DOMAIN accepted[c]
      /\ delivered' = [delivered EXCEPT ![c] = Append(@, accepted[c][n])]
      /\ UNCHANGED <<accepted, refused>>

Next ==
  \/ \E m \in Message : Refuse(m) \/ \E c \in Conn : Accept(m, c)
  \/ \E c \in Conn : Deliver(c)

Spec == Init /\ [][Next]_vars
=============================================================================
