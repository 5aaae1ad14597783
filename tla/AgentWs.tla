------------------------------- MODULE AgentWs -------------------------------
(***************************************************************************)
(* The relay's side of an agent connection and the table of connected      *)
(* agents (relay/src/routes/agent_ws.rs, relay/src/hub.rs).                *)
(*                                                                         *)
(* A connection task shakes hands, registers its name in the hub, greets   *)
(* the agent and then serves: one frame from the agent or one message from *)
(* its queue at a time.  Any other task may send to a name: it clones the  *)
(* queue's sender under the hub's lock and then, without the lock, waits   *)
(* for room in the queue.  When serving ends the queue is dropped first    *)
(* and the name is unregistered afterwards.                                *)
(***************************************************************************)
EXTENDS Integers, Sequences, Functions

CONSTANTS
  Name, Conn,           \* session names; connections, one after another or at once
  Message,              \* calls of Hub.send, one message each
  QueueSize,            \* QUEUE_SIZE, 64
  WireSize              \* frames the socket takes before a write has to wait

ASSUME SizeAssumption == QueueSize \in Nat \ {0} /\ WireSize \in Nat \ {0}
ASSUME NameAssumption == Name # {}
ASSUME FrameAssumption == "welcome" \notin Message /\ "error" \notin Message

VARIABLES
  agents,               \* Hub.agents: name -> connection that owns the queue
  pc, name,             \* the connection task: its place and its name
  queue, hand,          \* its queue; the message it took out to write
  sent, read,           \* frames written to the socket; how many the peer read
  peer,                 \* the peer: "up", "closed" or "vanished" without a word
  sendPc, target,       \* Hub.send: its place; the connection it cloned
  accepted              \* history: the messages each queue accepted

connVars == <<pc, name, hand, sent>>
sendVars == <<sendPc, target, accepted>>
peerVars == <<read, peer>>
vars == <<agents, queue, connVars, sendVars, peerVars>>

Serving == {"serving", "busy", "writing"}
\* The receiver of the queue lives from the handshake to the end of serve.
Alive(c) == pc[c] \in {"welcoming"} \cup Serving
\* The socket has data on its way that the peer has not read.
InFlight(c) == Len(sent[c]) > read[c]
Room(c) == Len(sent[c]) - read[c] < WireSize

Init ==
  /\ agents = [n \in {} |-> n]
  /\ pc = [c \in Conn |-> "idle"] /\ name = [c \in Conn |-> CHOOSE n \in Name : TRUE]
  /\ queue = [c \in Conn |-> <<>>] /\ hand = [c \in Conn |-> <<>>]
  /\ sent = [c \in Conn |-> <<>>] /\ read = [c \in Conn |-> 0]
  /\ peer = [c \in Conn |-> "up"]
  /\ sendPc = [m \in Message |-> "idle"] /\ target = [m \in {} |-> m]
  /\ accepted = [c \in Conn |-> <<>>]
-----------------------------------------------------------------------------
(* The connection task.                                                     *)

\* A connection with an accepted token is upgraded; n is the name its agent
\* will give.
Upgrade(c, n) ==
  /\ pc[c] = "idle"
  /\ pc' = [pc EXCEPT ![c] = "handshake"]
  /\ name' = [name EXCEPT ![c] = n]
  /\ UNCHANGED <<agents, queue, hand, sent, sendVars, peerVars>>

\* No hello in time, not a hello, another version, a bad name, or no frame.
BadHello(c) ==
  /\ pc[c] = "handshake"
  /\ pc' = [pc EXCEPT ![c] = "rejecting"]
  /\ UNCHANGED <<agents, queue, name, hand, sent, sendVars, peerVars>>

\* Hub.register, under the write lock: a name that is connected is refused.
\* Mutant: a name that is connected is taken over.
FreeAlways(n) == n \in Name
Free(n) == n \notin DOMAIN agents

Register(c) ==
  /\ pc[c] = "handshake"
  /\ \/ /\ Free(name[c])
        /\ agents' = [n \in DOMAIN agents \cup {name[c]} |-> IF n = name[c] THEN c ELSE agents[n]]
        /\ pc' = [pc EXCEPT ![c] = "welcoming"]
     \/ /\ ~Free(name[c])
        /\ pc' = [pc EXCEPT ![c] = "rejecting"]
        /\ UNCHANGED agents
  /\ UNCHANGED <<queue, name, hand, sent, sendVars, peerVars>>

\* The error is sent when that is still possible; the task ends.
Reject(c) ==
  /\ pc[c] = "rejecting"
  /\ pc' = [pc EXCEPT ![c] = "closed"]
  /\ \/ sent' = [sent EXCEPT ![c] = Append(@, "error")]
     \/ peer[c] # "up" /\ UNCHANGED sent
  /\ UNCHANGED <<agents, queue, name, hand, sendVars, peerVars>>

\* serve begins with the welcome.
Welcome(c) ==
  /\ pc[c] = "welcoming"
  /\ pc' = [pc EXCEPT ![c] = "serving"]
  /\ sent' = [sent EXCEPT ![c] = Append(@, "welcome")]
  /\ UNCHANGED <<agents, queue, name, hand, sendVars, peerVars>>

\* select!: a frame of the agent is handled to its end ...
Incoming(c) ==
  /\ pc[c] = "serving"
  /\ pc' = [pc EXCEPT ![c] = "busy"]
  /\ UNCHANGED <<agents, queue, name, hand, sent, sendVars, peerVars>>

FrameDone(c) ==
  /\ pc[c] = "busy"
  /\ pc' = [pc EXCEPT ![c] = "serving"]
  /\ UNCHANGED <<agents, queue, name, hand, sent, sendVars, peerVars>>

\* Mutants: messages are served before the welcome; the head is not popped.
OutgoingEarly(c) ==
  /\ pc[c] \in {"welcoming", "serving"} /\ queue[c] # <<>>
  /\ pc' = [pc EXCEPT ![c] = "writing"]
  /\ hand' = [hand EXCEPT ![c] = <<Head(queue[c])>>]
  /\ queue' = [queue EXCEPT ![c] = Tail(@)]
  /\ UNCHANGED <<agents, name, sent, sendVars, peerVars>>
OutgoingPeeks(c) ==
  /\ pc[c] = "serving" /\ queue[c] # <<>>
  /\ pc' = [pc EXCEPT ![c] = "writing"]
  /\ hand' = [hand EXCEPT ![c] = <<Head(queue[c])>>]
  /\ UNCHANGED <<agents, queue, name, sent, sendVars, peerVars>>

\* ... or a message of the queue is taken and written.
Outgoing(c) ==
  /\ pc[c] = "serving" /\ queue[c] # <<>>
  /\ pc' = [pc EXCEPT ![c] = "writing"]
  /\ hand' = [hand EXCEPT ![c] = <<Head(queue[c])>>]
  /\ queue' = [queue EXCEPT ![c] = Tail(@)]
  /\ UNCHANGED <<agents, name, sent, sendVars, peerVars>>

Written(c) ==
  /\ pc[c] = "writing" /\ Room(c)
  /\ pc' = [pc EXCEPT ![c] = "serving"]
  /\ sent' = [sent EXCEPT ![c] = @ \o hand[c]]
  /\ hand' = [hand EXCEPT ![c] = <<>>]
  /\ UNCHANGED <<agents, queue, name, sendVars, peerVars>>

\* The socket reports the end of the connection: at once when the peer closed
\* it, and only for unacknowledged data when the peer vanished.  serve returns
\* and drops the queue with all that is in it.
Broken(c) ==
  /\ pc[c] \in {"welcoming", "serving", "writing"}
  /\ peer[c] = "closed" \/ (peer[c] = "vanished" /\ InFlight(c))
  /\ pc' = [pc EXCEPT ![c] = "leaving"]
  /\ queue' = [queue EXCEPT ![c] = <<>>]
  /\ hand' = [hand EXCEPT ![c] = <<>>]
  /\ UNCHANGED <<agents, name, sent, sendVars, peerVars>>

\* Mutant: the connection ends without unregistering its name.
UnregisterSkipped(c) ==
  /\ pc[c] = "leaving"
  /\ pc' = [pc EXCEPT ![c] = "closed"]
  /\ UNCHANGED <<agents, queue, name, hand, sent, sendVars, peerVars>>

\* Hub.unregister, under the write lock, by name.
Unregister(c) ==
  /\ pc[c] = "leaving"
  /\ pc' = [pc EXCEPT ![c] = "closed"]
  /\ agents' = Restrict(agents, DOMAIN agents \ {name[c]})
  /\ UNCHANGED <<queue, name, hand, sent, sendVars, peerVars>>
-----------------------------------------------------------------------------
(* Hub.send.                                                                *)

\* Under the read lock: the sender of the queue is cloned.
Lookup(m, n) ==
  /\ sendPc[m] = "idle"
  /\ \/ /\ ~Free(n)
        /\ sendPc' = [sendPc EXCEPT ![m] = "waiting"]
        /\ target' = [x \in DOMAIN target \cup {m} |-> IF x = m THEN agents[n] ELSE target[x]]
     \/ /\ Free(n)
        /\ sendPc' = [sendPc EXCEPT ![m] = "offline"]
        /\ UNCHANGED target
  /\ UNCHANGED <<agents, queue, connVars, accepted, peerVars>>

\* Mutant: one message more than the queue holds.
HasRoomForOneMore(c) == Len(queue[c]) <= QueueSize
HasRoom(c) == Len(queue[c]) < QueueSize

\* Without the lock: the message enters the queue when it has room ...
Enqueue(m) ==
  LET c == target[m]
  IN  /\ sendPc[m] = "waiting"
      /\ Alive(c) /\ HasRoom(c)
      /\ sendPc' = [sendPc EXCEPT ![m] = "ok"]
      /\ queue' = [queue EXCEPT ![c] = Append(@, m)]
      /\ accepted' = [accepted EXCEPT ![c] = Append(@, m)]
      /\ UNCHANGED <<agents, connVars, target, peerVars>>

\* Mutants: a message already accepted is given back too; none is given back.
GiveBackAccepted(m) ==
  /\ sendPc[m] \in {"waiting", "ok"} /\ ~Alive(target[m])
  /\ sendPc' = [sendPc EXCEPT ![m] = "offline"]
  /\ UNCHANGED <<agents, queue, connVars, target, accepted, peerVars>>
GiveBackNever(m) == m \notin Message

\* ... and is given back when the receiver is gone.
GiveBack(m) ==
  /\ sendPc[m] = "waiting" /\ ~Alive(target[m])
  /\ sendPc' = [sendPc EXCEPT ![m] = "offline"]
  /\ UNCHANGED <<agents, queue, connVars, target, accepted, peerVars>>
-----------------------------------------------------------------------------
(* The agent at the other end and the network.                              *)
PeerRead(c) ==
  /\ peer[c] = "up" /\ InFlight(c)
  /\ read' = [read EXCEPT ![c] = @ + 1]
  /\ UNCHANGED <<agents, queue, connVars, sendVars, peer>>

PeerLeaves(c) ==
  /\ peer[c] = "up" /\ pc[c] # "idle"
  /\ peer' \in {[peer EXCEPT ![c] = "closed"], [peer EXCEPT ![c] = "vanished"]}
  /\ UNCHANGED <<agents, queue, connVars, sendVars, read>>
-----------------------------------------------------------------------------
ConnTask(c) ==
  \/ BadHello(c) \/ Register(c) \/ Reject(c) \/ Welcome(c)
  \/ Written(c) \/ Broken(c) \/ Unregister(c)
SendTask(m) == Enqueue(m) \/ GiveBack(m)

Next ==
  \/ \E c \in Conn : \/ ConnTask(c) \/ Incoming(c) \/ FrameDone(c) \/ Outgoing(c)
                     \/ PeerRead(c) \/ PeerLeaves(c)
                     \/ \E n \in Name : Upgrade(c, n)
  \/ \E m \in Message : SendTask(m) \/ \E n \in Name : Lookup(m, n)

Spec == Init /\ [][Next]_vars

\* Tasks are polled; select! polls its branches in a random order, so none of
\* them loses every race; sends that wait get room in the order they came.
\* Neither is the agent assumed to read its socket (PeerRead: its client may
\* wait for room on the way to stdout, agent/src/ws.rs:148), nor the handling
\* of a frame to end (FrameDone).
FairSpec ==
  /\ Spec
  /\ \A c \in Conn : WF_vars(ConnTask(c)) /\ SF_vars(Outgoing(c)) /\ SF_vars(Broken(c))
  /\ \A m \in Message : SF_vars(SendTask(m))
-----------------------------------------------------------------------------
TypeOK ==
  /\ agents = [n \in DOMAIN agents |-> agents[n]]
  /\ DOMAIN agents \subseteq Name /\ \A n \in DOMAIN agents : agents[n] \in Conn
  /\ pc \in [Conn -> {"idle", "handshake", "rejecting", "welcoming", "leaving", "closed"} \cup Serving]
  /\ name \in [Conn -> Name]
  /\ queue \in [Conn -> Seq(Message)] /\ \A c \in Conn : Len(queue[c]) <= QueueSize
  /\ hand \in [Conn -> Seq(Message)]
  /\ sent \in [Conn -> Seq(Message \cup {"welcome", "error"})] /\ read \in [Conn -> Nat]
  /\ peer \in [Conn -> {"up", "closed", "vanished"}]
  /\ sendPc \in [Message -> {"idle", "waiting", "ok", "offline"}]
  /\ DOMAIN target \subseteq Message /\ \A m \in DOMAIN target : target[m] \in Conn
  /\ accepted \in [Conn -> Seq(Message)]

\* The hub's entry of a name belongs to the one connection of that name that
\* has registered and not yet unregistered: so unregistering by name never
\* takes another connection's entry away, and the queue of a connection that
\* is served keeps a sender (hub.rs:21-32, agent_ws.rs:52-66).
Registered(c) == Alive(c) \/ pc[c] = "leaving"
NameIsOwned ==
  /\ \A n \in DOMAIN agents : name[agents[n]] = n /\ Registered(agents[n])
  /\ \A c \in Conn : Registered(c) => name[c] \in DOMAIN agents /\ agents[name[c]] = c

\* The first frame an accepted agent sees is the welcome, although messages
\* may be queued for it before; a rejected agent sees the error and nothing
\* else (agent_ws.rs:52-66, 115-120).
WelcomeFirst ==
  \A c \in Conn : \A i \in DOMAIN sent[c] :
    /\ sent[c][i] = "welcome" <=> (i = 1 /\ sent[c][i] # "error")
    /\ sent[c][i] = "error" => Len(sent[c]) = 1 /\ accepted[c] = <<>>

\* A message whose sender was told "offline" is on no connection, in no queue,
\* and never will be: the offline notice is not a lie (hub.rs:41-44).
RefusedNeverQueued ==
  \A m \in Message, c \in Conn : sendPc[m] = "offline" =>
    \A s \in {queue[c], hand[c], sent[c]} : \A i \in DOMAIN s : s[i] # m

\* A Hub.send returns, unless the connection whose queue it waits for serves no
\* queue any more: it handles one frame without end, or writes to a socket that
\* its peer does not read (hub.rs:41-44, agent_ws.rs:121-138).
Blocked(c) == pc[c] = "busy" \/ (pc[c] = "writing" /\ ~Room(c))
SendsReturn ==
  \A m \in Message, c \in Conn :
    (sendPc[m] = "waiting" /\ target[m] = c) ~> (sendPc[m] \in {"ok", "offline"} \/ []Blocked(c))

\* The name of an agent that has closed its connection becomes free: the agent
\* can come back under it, unless a frame of it is handled without end
\* (agent_ws.rs:52-66, 121-128).
Owns(c) == name[c] \in DOMAIN agents /\ agents[name[c]] = c
NameIsFreed == \A c \in Conn : (peer[c] = "closed" /\ Owns(c)) ~> (~Owns(c) \/ [](pc[c] = "busy"))

\* Accepted messages reach the socket in order, at most once, and refused ones
\* never do: the detailed relay implements the outbox.
Delivered == [c \in Conn |-> IF sent[c] = <<>> \/ sent[c][1] = "error" THEN <<>> ELSE Tail(sent[c])]
Box == INSTANCE Outbox WITH delivered <- Delivered,
                            refused <- {m \in Message : sendPc[m] = "offline"}
ImplementsOutbox == Box!Spec
=============================================================================
