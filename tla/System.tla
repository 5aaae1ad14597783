------------------------------- MODULE System -------------------------------
(***************************************************************************)
(* An agent process and its connection at the relay, over one socket of    *)
(* finite size: Agent and AgentWs, with the steps that meet in the socket  *)
(* taken together.  Each end writes to the socket without reading it       *)
(* (agent_ws.rs:131, ws.rs:176), so beside the agent's two channels there  *)
(* is a second cycle of waits, through the network.                        *)
(*                                                                         *)
(* One connection: what Agent leaves to its environment (a relay that may  *)
(* greet, push and read at any time) is here the relay of AgentWs, and     *)
(* what AgentWs leaves to its peer is the agent.  down and pushed of Agent *)
(* are functions of sent and read of AgentWs.                              *)
(***************************************************************************)
EXTENDS Integers, Sequences

CONSTANTS
  QueueSize, PipeSize, WireSize, Initial, MaxWait,  \* see Agent
  HubQueue,             \* QUEUE_SIZE of the hub, 64
  LineKinds,            \* bound: what each line that Claude Code writes may be
  Sends,                \* bound: the calls of Hub.send, in the order they begin
  Conn, Name            \* the connection and the name of the agent

VARIABLES
  claude, lines, taken, output, unread, stdioPc, item, toRelay, toStdout,
  wsPc, carry, wait, link, up, uplinked, received, attempts, fails,
  agents, pc, name, queue, hand, sent, read, peer, sendPc, target, accepted

Message == {Sends[i] : i \in DOMAIN Sends}

ASSUME SizeAssumption == {QueueSize, PipeSize, WireSize, HubQueue} \subseteq Nat \ {0}
ASSUME WaitAssumption == Initial \in Nat \ {0} /\ MaxWait \in Nat /\ Initial <= MaxWait
ASSUME NameAssumption == Name # {} /\ Conn # {}
ASSUME FrameAssumption == "welcome" \notin Message /\ "error" \notin Message

c == CHOOSE x \in Conn : TRUE

\* The frames under way to the agent; its notifications are numbered by their
\* place on the connection.
Frame(i) ==
  IF sent[c][i] \in {"welcome", "error"} THEN <<sent[c][i]>> ELSE <<"notification", i - 1>>
UnderWay == [i \in 1..(Len(sent[c]) - read[c]) |-> Frame(read[c] + i)]
Notifications == IF sent[c] = <<>> THEN 0 ELSE Len(sent[c]) - 1

A == INSTANCE Agent WITH WithRelay <- TRUE, MaxLines <- Len(LineKinds), MaxFrames <- Len(Sends),
                         MaxAttempts <- 1, down <- UnderWay, pushed <- Notifications
R == INSTANCE AgentWs WITH QueueSize <- HubQueue

ASSUME KindAssumption == \A i \in DOMAIN LineKinds : LineKinds[i] \subseteq A!Kind

agentVars == <<claude, lines, taken, output, unread, stdioPc, item, toRelay, toStdout,
               wsPc, carry, wait, link, up, uplinked, received, attempts, fails>>
relayVars == <<agents, pc, name, queue, hand, sent, read, peer, sendPc, target, accepted>>
vars == <<agentVars, relayVars>>

Init == R!Init /\ A!Init
-----------------------------------------------------------------------------
(* Steps that meet in the socket.                                           *)
Connect == \E n \in Name : R!Upgrade(c, n) /\ A!Connect

\* The hello has arrived: it is accepted, or it is a bad one.
Hello == link = "greeted" /\ (R!Register(c) \/ R!BadHello(c)) /\ UNCHANGED agentVars

Greet ==
  \/ R!Welcome(c) /\ A!Greet /\ link' = "welcomed"
  \/ R!Reject(c) /\ A!Greet /\ link' = "rejected"

Push == R!Written(c) /\ A!Push
RelayReads == R!Incoming(c) /\ A!RelayReads
AgentReads == R!PeerRead(c) /\ A!Incoming

\* The agent ends and its socket is closed, or the connection is lost.
Exit ==
  \/ link \in {"down", "broken"} /\ UNCHANGED relayVars /\ A!Exit
  \/ link \notin {"down", "broken"} /\ R!PeerLeaves(c) /\ peer'[c] = "closed" /\ A!Exit
\* (A peer that vanishes without a word is left to AgentWs.)
Break == R!PeerLeaves(c) /\ peer'[c] = "closed" /\ A!Break

\* A relay that rejected its agent closes the socket.
Rejected == pc[c] = "closed" /\ link = "rejected" /\ UNCHANGED relayVars /\ A!Break
-----------------------------------------------------------------------------
(* Steps of one end.                                                        *)
AgentStep(step) == UNCHANGED relayVars /\ step
RelayStep(step) == UNCHANGED agentVars /\ step

ClaudeWrites ==
  \E i \in DOMAIN LineKinds : i = Len(lines) + 1 /\ \E k \in LineKinds[i] : A!WriteLine(k)

\* The tasks that send are interchangeable: they are named as they begin.
Send(i) ==
  /\ \A k \in 1..(i - 1) : sendPc[Sends[k]] # "idle"
  /\ \E n \in Name : R!Lookup(Sends[i], n)

\* What the relay writes to a connection that is lost arrives nowhere.
Wasted == link = "broken" /\ (R!Welcome(c) \/ R!Reject(c) \/ R!Written(c))

Stdio == AgentStep(A!WriteOut \/ A!HandOver) \/ Exit
Client ==
  \/ Connect \/ AgentReads
  \/ AgentStep(A!Refused \/ A!SendHello \/ A!Notify \/ A!Sent \/ A!Lost \/ A!Resume)
Serve ==
  \/ Hello \/ Greet \/ Push \/ Rejected
  \/ RelayStep(R!FrameDone(c) \/ R!Broken(c) \/ R!Unregister(c) \/ Wasted)
Choices ==
  \/ AgentStep(A!TakeLine \/ A!TakeNotification \/ A!Drain \/ A!Outgoing)
  \/ RelayReads \/ RelayStep(R!Outgoing(c))

Progress ==
  \/ Stdio \/ Client \/ Serve \/ Choices \/ AgentStep(A!ReadOutput)
  \/ \E m \in Message : RelayStep(R!SendTask(m))
Outside ==
  \/ AgentStep(ClaudeWrites \/ A!Close) \/ Break
  \/ \E i \in DOMAIN Sends : RelayStep(Send(i))

Next == Progress \/ Outside

Spec == Init /\ [][Next]_vars

\* Some task goes on while any can, and Claude Code reads its pipe; that either
\* end reads its socket is no assumption.  That a frame is handled to its end
\* (FrameDone) is due to the timeout of Slack's client (api.rs:44).  No fairness
\* between the tasks is needed: every step uses up a line, a send or the one
\* connection.
FairSpec == Spec /\ WF_vars(Progress)
-----------------------------------------------------------------------------
\* From end to end: what Claude Code is shown are the first of the messages that
\* the hub accepted, in that order and without a gap; nothing whose sender was
\* told "offline" is among them (hub.rs:34-48, agent_ws.rs:129-134, ws.rs:145-156,
\* stdio.rs:43-48).
ShownIsAccepted ==
  LET shown == A!Written("notification")
  IN  /\ A!InOrder("notification")
      /\ \A n \in shown :
           /\ 1..n \subseteq shown /\ n \in DOMAIN accepted[c]
           /\ sendPc[accepted[c][n]] = "ok" /\ sent[c][n + 1] = accepted[c][n]

\* The second cycle: both ends write, and neither reads what the other wrote.
Jammed ==
  /\ wsPc = "sending" /\ up = WireSize
  /\ pc[c] = "writing" /\ ~R!Room(c)
Stuck == A!Wedged \/ Jammed

\* There is no third cycle of waits.  Unless one of the two is closed, the agent
\* ends after its stdin is closed (stdio.rs:28-30) ...
EndsUnlessStuck == claude # "open" ~> (stdioPc = "exited" \/ Stuck)

\* ... a line of Claude Code gets room in the channel to the client
\* (stdio.rs:34-38, ws.rs:53-69) ...
RoomUnlessStuck == stdioPc = "relaying" ~> (stdioPc # "relaying" \/ Stuck)

\* ... and a task of the relay that sends to the agent goes on (hub.rs:34-48).
SendsReturnUnlessStuck == \A m \in Message : sendPc[m] = "waiting" ~> (sendPc[m] # "waiting" \/ Stuck)
=============================================================================
