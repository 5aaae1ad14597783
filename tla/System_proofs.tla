---------------------------- MODULE System_proofs ----------------------------
(***************************************************************************)
(* Proofs about System: what is proved of an agent alone and of a          *)
(* connection of the relay alone, put together at the socket, for any      *)
(* sizes and any calls of Hub.send.                                        *)
(***************************************************************************)
EXTENDS System, SequenceTheorems, TLAPS

AP == INSTANCE Agent_proofs WITH WithRelay <- TRUE, MaxLines <- Len(LineKinds), MaxFrames <- Len(Sends),
                                 MaxAttempts <- 1, down <- UnderWay, pushed <- Notifications
RP == INSTANCE AgentWs_proofs WITH QueueSize <- HubQueue

-----------------------------------------------------------------------------
(* The steps of the two ends.                                               *)

\* The instances of the proofs are about the same steps as those of System.
LEMMA AgentActions ==
  /\ A!Init => AP!Init
  /\ ClaudeWrites => AP!Next
  /\ A!Close => AP!Next
  /\ A!ReadOutput => AP!Next
  /\ A!TakeLine => AP!Next
  /\ A!TakeNotification => AP!Next
  /\ A!WriteOut => AP!Next
  /\ A!HandOver => AP!Next
  /\ A!Exit => AP!Next
  /\ A!Drain => AP!Next
  /\ A!Connect => AP!Next
  /\ A!Refused => AP!Next
  /\ A!SendHello => AP!Next
  /\ A!Incoming => AP!Next
  /\ A!Notify => AP!Next
  /\ A!Outgoing => AP!Next
  /\ A!Sent => AP!Next
  /\ A!Lost => AP!Next
  /\ A!Resume => AP!Next
  /\ A!Greet => AP!Next
  /\ A!Push => AP!Next
  /\ A!RelayReads => AP!Next
  /\ A!Break => AP!Next
<1> USE DEF A!claudeVars, A!stdioVars, A!wsVars, A!linkVars,
            AP!claudeVars, AP!stdioVars, AP!wsVars, AP!linkVars
<1>0. /\ \A k \in AP!Kind : AP!WriteLine(k) => AP!Next
      /\ AP!TakeLine \/ AP!TakeNotification \/ AP!WriteOut \/ AP!HandOver \/ AP!Exit => AP!Next
      /\ AP!Connect \/ AP!Refused \/ AP!SendHello \/ AP!Incoming \/ AP!Notify \/ AP!Sent => AP!Next
      /\ AP!Lost \/ AP!Resume \/ AP!Drain \/ AP!Outgoing \/ AP!ReadOutput \/ AP!Greet => AP!Next
      /\ AP!RelayReads \/ AP!Close \/ AP!Push \/ AP!Break => AP!Next
  BY DEF AP!Next, AP!StdioTask, AP!WsTask, AP!Peers
<1> HIDE DEF AP!Next
<1>1. A!Init => AP!Init
  BY DEF A!Init, AP!Init
<1>2. ClaudeWrites => AP!Next
  <2>1. \A k : A!WriteLine(k) => AP!WriteLine(k)
    BY DEF A!WriteLine, AP!WriteLine
  <2>2. \A i \in DOMAIN LineKinds : LineKinds[i] \subseteq AP!Kind
    BY KindAssumption DEF A!Kind, AP!Kind
  <2> QED BY <1>0, <2>1, <2>2 DEF ClaudeWrites
<1>3. A!Close => AP!Close
  BY DEF A!Close, AP!Close
<1>4. A!ReadOutput => AP!ReadOutput
  BY DEF A!ReadOutput, AP!ReadOutput
<1>5. A!TakeLine => AP!TakeLine
  BY DEF A!TakeLine, AP!TakeLine, A!AnsweredKinds, AP!AnsweredKinds, A!RelayedKinds, AP!RelayedKinds
<1>6. A!TakeNotification => AP!TakeNotification
  BY DEF A!TakeNotification, AP!TakeNotification
<1>7. A!WriteOut => AP!WriteOut
  BY DEF A!WriteOut, AP!WriteOut, A!Follows, AP!Follows, A!RelayedKinds, AP!RelayedKinds
<1>8. A!HandOver => AP!HandOver
  BY DEF A!HandOver, AP!HandOver
<1>9. A!Exit => AP!Exit
  BY DEF A!Exit, AP!Exit, A!Finished, AP!Finished, A!InputEnds, AP!InputEnds
<1>10. A!Drain => AP!Drain
  BY DEF A!Drain, AP!Drain, A!Offline, AP!Offline
<1>11. A!Connect => AP!Connect
  BY DEF A!Connect, AP!Connect
<1>12. A!Refused => AP!Refused
  BY DEF A!Refused, AP!Refused
<1>13. A!SendHello => AP!SendHello
  BY DEF A!SendHello, AP!SendHello
<1>14. A!Incoming => AP!Incoming
  BY DEF A!Incoming, AP!Incoming, A!Welcomed, AP!Welcomed
<1>15. A!Notify => AP!Notify
  BY DEF A!Notify, AP!Notify
<1>16. A!Outgoing => AP!Outgoing
  BY DEF A!Outgoing, AP!Outgoing
<1>17. A!Sent => AP!Sent
  BY DEF A!Sent, AP!Sent
<1>18. A!Lost => AP!Lost
  BY DEF A!Lost, AP!Lost
<1>19. A!Resume => AP!Resume
  BY DEF A!Resume, AP!Resume, A!Doubled, AP!Doubled, A!Min, AP!Min
<1>20. A!Greet => AP!Greet
  BY DEF A!Greet, AP!Greet
<1>21. A!Push => AP!Push
  BY DEF A!Push, AP!Push
<1>22. A!RelayReads => AP!RelayReads
  BY DEF A!RelayReads, AP!RelayReads
<1>23. A!Break => AP!Break
  BY DEF A!Break, AP!Break
<1> QED
  BY <1>0, <1>1, <1>2, <1>3, <1>4, <1>5, <1>6, <1>7, <1>8, <1>9, <1>10, <1>11, <1>12, <1>13, <1>14,
     <1>15, <1>16, <1>17, <1>18, <1>19, <1>20, <1>21, <1>22, <1>23

LEMMA RelayActions ==
  ASSUME NEW x \in Conn
  PROVE  /\ \A n \in Name : R!Upgrade(x, n) => RP!Next
         /\ R!BadHello(x) => RP!Next
         /\ R!Register(x) => RP!Next
         /\ R!Reject(x) => RP!Next
         /\ R!Welcome(x) => RP!Next
         /\ R!Incoming(x) => RP!Next
         /\ R!FrameDone(x) => RP!Next
         /\ R!Outgoing(x) => RP!Next
         /\ R!Written(x) => RP!Next
         /\ R!Broken(x) => RP!Next
         /\ R!Unregister(x) => RP!Next
         /\ R!PeerRead(x) => RP!Next
         /\ R!PeerLeaves(x) => RP!Next
         /\ \A m \in Message : R!SendTask(m) => RP!Next
         /\ \A m \in Message, n \in Name : R!Lookup(m, n) => RP!Next
<1> USE DEF R!connVars, R!sendVars, R!peerVars, RP!connVars, RP!sendVars, RP!peerVars
<1>0. /\ \A n \in Name : RP!Upgrade(x, n) => RP!Next
      /\ RP!BadHello(x) \/ RP!Register(x) \/ RP!Reject(x) \/ RP!Welcome(x) \/ RP!FrameDone(x) => RP!Next
      /\ RP!Written(x) \/ RP!Broken(x) \/ RP!Unregister(x) \/ RP!Incoming(x) \/ RP!Outgoing(x) => RP!Next
      /\ RP!PeerRead(x) \/ RP!PeerLeaves(x) => RP!Next
      /\ \A m \in Message : RP!Enqueue(m) \/ RP!GiveBack(m) => RP!Next
      /\ \A m \in Message, n \in Name : RP!Lookup(m, n) => RP!Next
  BY DEF RP!Next, RP!ConnTask, RP!SendTask
<1>1. \A n \in Name : R!Upgrade(x, n) => RP!Upgrade(x, n)
  BY DEF R!Upgrade, RP!Upgrade
<1>2. R!BadHello(x) => RP!BadHello(x)
  BY DEF R!BadHello, RP!BadHello
<1>3. R!Register(x) => RP!Register(x)
  BY DEF R!Register, RP!Register, R!Free, RP!Free
<1>4. R!Reject(x) => RP!Reject(x)
  BY DEF R!Reject, RP!Reject
<1>5. R!Welcome(x) => RP!Welcome(x)
  BY DEF R!Welcome, RP!Welcome
<1>6. R!Incoming(x) => RP!Incoming(x)
  BY DEF R!Incoming, RP!Incoming
<1>7. R!FrameDone(x) => RP!FrameDone(x)
  BY DEF R!FrameDone, RP!FrameDone
<1>8. R!Outgoing(x) => RP!Outgoing(x)
  BY DEF R!Outgoing, RP!Outgoing
<1>9. R!Written(x) => RP!Written(x)
  BY DEF R!Written, RP!Written, R!Room, RP!Room
<1>10. R!Broken(x) => RP!Broken(x)
  BY DEF R!Broken, RP!Broken, R!InFlight, RP!InFlight
<1>11. R!Unregister(x) => RP!Unregister(x)
  BY DEF R!Unregister, RP!Unregister, R!Restrict, RP!Restrict
<1>12. R!PeerRead(x) => RP!PeerRead(x)
  BY DEF R!PeerRead, RP!PeerRead, R!InFlight, RP!InFlight
<1>13. R!PeerLeaves(x) => RP!PeerLeaves(x)
  BY DEF R!PeerLeaves, RP!PeerLeaves
<1>14. \A m \in Message : R!SendTask(m) => RP!Enqueue(m) \/ RP!GiveBack(m)
  BY DEF R!SendTask, R!Enqueue, RP!Enqueue, R!GiveBack, RP!GiveBack, R!Alive, RP!Alive,
     R!Serving, RP!Serving, R!HasRoom, RP!HasRoom
<1>15. \A m \in Message, n \in Name : R!Lookup(m, n) => RP!Lookup(m, n)
  BY DEF R!Lookup, RP!Lookup, R!Free, RP!Free
<1> HIDE DEF RP!Next
<1> QED
  BY <1>0, <1>1, <1>2, <1>3, <1>4, <1>5, <1>6, <1>7, <1>8, <1>9, <1>10, <1>11, <1>12, <1>13, <1>14, <1>15
-----------------------------------------------------------------------------
(* Every step of System is a step of its connection at the relay, or none.  *)
LEMMA OneConnection == c \in Conn
BY NameAssumption DEF c

LEMMA SomeMessage == \A i \in DOMAIN Sends : Sends[i] \in Message
BY DEF Message

LEMMA RelaySim == ASSUME [Next]_vars PROVE [RP!Next]_(RP!vars)
<1> USE OneConnection
<1> DEFINE Goal == [RP!Next]_(RP!vars)
<1> SUFFICES Goal
  OBVIOUS
<1>0. UNCHANGED relayVars => Goal
  BY DEF relayVars, RP!vars, RP!connVars, RP!sendVars, RP!peerVars
<1>1. RP!Next => Goal
  OBVIOUS
<1>2. /\ \A n \in Name : R!Upgrade(c, n) => Goal
      /\ R!BadHello(c) \/ R!Register(c) \/ R!Reject(c) \/ R!Welcome(c) \/ R!Incoming(c) => Goal
      /\ R!FrameDone(c) \/ R!Outgoing(c) \/ R!Written(c) \/ R!Broken(c) \/ R!Unregister(c) => Goal
      /\ R!PeerRead(c) \/ R!PeerLeaves(c) => Goal
      /\ \A m \in Message : R!SendTask(m) => Goal
      /\ \A m \in Message, n \in Name : R!Lookup(m, n) => Goal
  <2> HIDE DEF Goal
  <2> QED BY <1>1, RelayActions
<1> HIDE DEF Goal
<1>3. CASE Stdio
  BY <1>0, <1>2, <1>3 DEF Stdio, AgentStep, Exit
<1>4. CASE Client
  BY <1>0, <1>2, <1>4 DEF Client, AgentStep, Connect, AgentReads
<1>5. CASE Serve
  BY <1>0, <1>2, <1>5 DEF Serve, RelayStep, Hello, Greet, Push, Rejected, Wasted
<1>6. CASE Choices
  BY <1>0, <1>2, <1>6 DEF Choices, RelayStep, AgentStep, RelayReads
<1>7. CASE AgentStep(A!ReadOutput) \/ \E m \in Message : RelayStep(R!SendTask(m))
  BY <1>0, <1>2, <1>7 DEF AgentStep, RelayStep
<1>8. CASE AgentStep(ClaudeWrites \/ A!Close) \/ Break
  BY <1>0, <1>2, <1>8 DEF AgentStep, Break
<1>9. ASSUME NEW i \in DOMAIN Sends, RelayStep(Send(i)) PROVE Goal
  <2>1. PICK n \in Name : R!Lookup(Sends[i], n)
    BY <1>9 DEF RelayStep, Send
  <2> QED BY <1>2, <2>1, SomeMessage
<1>10. CASE UNCHANGED vars
  BY <1>0, <1>10 DEF vars
<1> QED
  BY <1>3, <1>4, <1>5, <1>6, <1>7, <1>8, <1>9, <1>10 DEF Next, Progress, Outside

LEMMA RelayInit == ASSUME Init PROVE RP!Init
BY DEF Init, R!Init, RP!Init

LEMMA RelayBehaves == Spec => RP!Spec
<1>1. Init => RP!Init
  BY RelayInit
<1>2. [Next]_vars => [RP!Next]_(RP!vars)
  BY RelaySim
<1> QED BY <1>1, <1>2, PTL DEF Spec, RP!Spec
-----------------------------------------------------------------------------
(* Every step of System is a step of the agent, or leaves the agent alone.  *)
\* The relay moves: the agent and what it has read stay.
Elsewhere == UNCHANGED agentVars /\ UNCHANGED read
\* The agent moves, and reads no frame.
Unread == AP!Next /\ UNCHANGED received /\ UNCHANGED read
\* The agent reads a frame.
Reads == AP!Next /\ R!PeerRead(c) /\ A!Incoming

LEMMA AgentSim == ASSUME [Next]_vars PROVE Elsewhere \/ Unread \/ Reads
<1> DEFINE Goal == Elsewhere \/ Unread \/ Reads
<1> SUFFICES Goal
  OBVIOUS
<1>1. UNCHANGED relayVars => UNCHANGED read
  BY DEF relayVars
<1>2. AP!Next /\ UNCHANGED received /\ UNCHANGED read => Goal
  BY DEF Unread
<1>3. UNCHANGED agentVars /\ UNCHANGED read => Goal
  BY DEF Elsewhere
<1>4. /\ ClaudeWrites \/ A!Close \/ A!ReadOutput \/ A!TakeLine \/ A!TakeNotification
         \/ A!WriteOut \/ A!HandOver \/ A!Exit \/ A!Drain \/ A!Connect \/ A!Refused => UNCHANGED received
      /\ A!SendHello \/ A!Notify \/ A!Outgoing \/ A!Sent \/ A!Lost \/ A!Resume \/ A!Greet \/ A!Push
         \/ A!RelayReads \/ A!Break => UNCHANGED received
  BY DEF ClaudeWrites, A!WriteLine, A!Close, A!ReadOutput, A!TakeLine, A!TakeNotification, A!WriteOut, A!HandOver,
     A!Exit, A!Drain, A!Connect, A!Refused, A!SendHello, A!Notify, A!Outgoing, A!Sent, A!Lost,
     A!Resume, A!Greet, A!Push, A!RelayReads, A!Break, A!wsVars
<1>5. /\ \A n : R!Upgrade(c, n) => UNCHANGED read
      /\ R!BadHello(c) \/ R!Register(c) \/ R!Reject(c) \/ R!Welcome(c) \/ R!Incoming(c) => UNCHANGED read
      /\ R!FrameDone(c) \/ R!Outgoing(c) \/ R!Written(c) \/ R!Broken(c) \/ R!Unregister(c) => UNCHANGED read
      /\ R!PeerLeaves(c) => UNCHANGED read
      /\ \A m : R!SendTask(m) => UNCHANGED read
      /\ \A m, n : R!Lookup(m, n) => UNCHANGED read
  BY DEF R!Upgrade, R!BadHello, R!Register, R!Reject, R!Welcome, R!Incoming, R!FrameDone, R!Outgoing,
     R!Written, R!Broken, R!Unregister, R!PeerLeaves, R!SendTask, R!Enqueue, R!GiveBack, R!Lookup, R!peerVars
<1> HIDE DEF Goal
<1>6. CASE Stdio
  BY <1>1, <1>2, <1>4, <1>5, <1>6, AgentActions DEF Stdio, AgentStep, Exit
<1>7. CASE Client
  <2>1. CASE AgentReads
    BY <2>1, AgentActions DEF AgentReads, Reads, Goal
  <2>2. CASE Connect
    BY <1>2, <1>4, <1>5, <2>2, AgentActions DEF Connect
  <2>3. CASE AgentStep(A!Refused \/ A!SendHello \/ A!Notify \/ A!Sent \/ A!Lost \/ A!Resume)
    BY <1>1, <1>2, <1>4, <2>3, AgentActions DEF AgentStep
  <2> QED BY <1>7, <2>1, <2>2, <2>3 DEF Client
<1>8. CASE Serve
  <2>1. CASE Hello \/ RelayStep(R!FrameDone(c) \/ R!Broken(c) \/ R!Unregister(c) \/ Wasted)
    BY <1>3, <1>5, <2>1 DEF Hello, RelayStep, Wasted
  <2>2. CASE Greet \/ Push \/ Rejected
    BY <1>1, <1>2, <1>4, <1>5, <2>2, AgentActions DEF Greet, Push, Rejected
  <2> QED BY <1>8, <2>1, <2>2 DEF Serve
<1>9. CASE Choices
  BY <1>1, <1>2, <1>3, <1>4, <1>5, <1>9, AgentActions DEF Choices, RelayStep, AgentStep, RelayReads
<1>10. CASE AgentStep(A!ReadOutput) \/ \E m \in Message : RelayStep(R!SendTask(m))
  BY <1>1, <1>2, <1>3, <1>4, <1>5, <1>10, AgentActions DEF AgentStep, RelayStep
<1>11. CASE AgentStep(ClaudeWrites \/ A!Close) \/ Break
  BY <1>1, <1>2, <1>4, <1>5, <1>11, AgentActions DEF AgentStep, Break
<1>12. ASSUME NEW i \in DOMAIN Sends, RelayStep(Send(i)) PROVE Goal
  BY <1>3, <1>5, <1>12 DEF RelayStep, Send
<1>13. CASE UNCHANGED vars
  BY <1>1, <1>3, <1>13 DEF vars
<1> QED
  BY <1>6, <1>7, <1>8, <1>9, <1>10, <1>11, <1>12, <1>13 DEF Next, Progress, Outside
-----------------------------------------------------------------------------
(* What is known of the connection.                                         *)
RelayFacts == RP!TypeOK /\ RP!WelcomeFirst /\ RP!SocketIsAccepted /\ RP!ReadIsWritten

LEMMA RelayAlways == Spec => []RelayFacts
<1>1. "welcome" \notin Message /\ "error" \notin Message /\ Name # {}
      /\ HubQueue \in Nat \ {0} /\ WireSize \in Nat \ {0}
  BY FrameAssumption, NameAssumption, SizeAssumption
<1>2. RP!Spec => []RP!TypeOK
  BY <1>1, RP!TypeCorrect
<1>3. RP!Spec => []RP!WelcomeFirst
  BY <1>1, RP!WelcomeComesFirst
<1>4. RP!Spec => []RP!SocketIsAccepted
  BY <1>1, RP!SocketsCarryAccepted
<1>5. RP!Spec => []RP!ReadIsWritten
  BY <1>1, RP!ReadAlways
<1> QED BY <1>2, <1>3, <1>4, <1>5, RelayBehaves, PTL DEF RelayFacts

\* The socket: its frames, and how many of them were read.
LEMMA SocketFacts ==
  ASSUME RelayFacts
  PROVE  /\ Len(sent[c]) \in Nat /\ DOMAIN sent[c] = 1..Len(sent[c])
         /\ read[c] \in Nat /\ read[c] <= Len(sent[c])
         /\ sent[c] = <<>> <=> Len(sent[c]) = 0
<1>1. PICK S : sent[c] \in Seq(S)
  BY OneConnection DEF RelayFacts, RP!TypeOK
<1> QED BY <1>1, OneConnection DEF RelayFacts, RP!TypeOK, RP!ReadIsWritten

\* The first frame greets or rejects; every other one is a notification.
LEMMA FrameFacts ==
  ASSUME RelayFacts, NEW i \in 1..Len(sent[c])
  PROVE  /\ i > 1 => Frame(i) = <<"notification", i - 1>> /\ i - 1 \in Nat
         /\ i = 1 => Frame(i) \in {<<"welcome">>, <<"error">>}
<1>1. /\ sent[c][i] = "welcome" <=> (i = 1 /\ sent[c][i] # "error")
      /\ sent[c][i] = "error" => Len(sent[c]) = 1
  BY SocketFacts, OneConnection DEF RelayFacts, RP!WelcomeFirst
<1>2. i > 1 => sent[c][i] \notin {"welcome", "error"}
  BY <1>1, SocketFacts
<1>3. i = 1 => sent[c][i] \in {"welcome", "error"}
  BY <1>1
<1> QED BY <1>2, <1>3, SocketFacts DEF Frame

\* What is under way, as a sequence.
Wire ==
  /\ UnderWay \in Seq(AP!Frames) /\ Notifications \in Nat
  /\ Len(UnderWay) = Len(sent[c]) - read[c]
  /\ \A i \in 1..Len(UnderWay) : UnderWay[i] = Frame(read[c] + i) /\ read[c] + i \in 1..Len(sent[c])

LEMMA WireOK == ASSUME RelayFacts PROVE Wire
<1> DEFINE w == Len(sent[c])
           r == read[c]
<1>1. w \in Nat /\ r \in Nat /\ w - r \in Nat /\ (sent[c] = <<>> <=> w = 0)
  BY SocketFacts
<1>2. \A i \in 1..(w - r) : r + i \in 1..w
  BY <1>1
<1>3. \A i \in 1..w : Frame(i) \in AP!Frames
  BY FrameFacts, <1>1 DEF AP!Frames
<1>4. UnderWay = [i \in 1..(w - r) |-> Frame(r + i)]
  BY DEF UnderWay
<1>5. Notifications \in Nat
  BY <1>1 DEF Notifications
<1> HIDE DEF w, r
<1>6. UnderWay \in Seq(AP!Frames) /\ Len(UnderWay) = w - r
  BY <1>1, <1>2, <1>3, <1>4
<1> QED BY <1>1, <1>2, <1>4, <1>5, <1>6 DEF Wire, w, r
-----------------------------------------------------------------------------
(* What is known of the agent.                                              *)

\* The agent has read the notifications 1, 2, 3, ...: as many as frames, but
\* for the first one.
CountInv ==
  /\ \A i \in DOMAIN received : received[i] = i
  /\ Len(received) = IF read[c] = 0 THEN 0 ELSE read[c] - 1

\* The client task ends with the process.
OffInv == wsPc = "off" => stdioPc = "exited"

Core == AP!TypeOK /\ AP!ItemInv /\ AP!NotificationsKept /\ CountInv /\ OffInv

LEMMA AgentConstants ==
  /\ TRUE \in BOOLEAN /\ {QueueSize, PipeSize, WireSize} \subseteq Nat \ {0}
  /\ Initial \in Nat \ {0} /\ MaxWait \in Nat /\ Initial <= MaxWait
BY SizeAssumption, WaitAssumption

LEMMA ReceivedFacts ==
  ASSUME AP!TypeOK, CountInv, RelayFacts
  PROVE  /\ received \in Seq(Nat) /\ AP!Range(received) = 1..Len(received)
         /\ DOMAIN received = 1..Len(received) /\ Len(received) \in Nat
         /\ read[c] \in Nat /\ (Len(received) < read[c] \/ Len(received) = 0)
<1>1. received \in Seq(Nat) /\ DOMAIN received = 1..Len(received) /\ Len(received) \in Nat
  BY DEF AP!TypeOK
<1>2. AP!Range(received) = 1..Len(received)
  BY <1>1 DEF AP!Range, CountInv
<1>3. read[c] \in Nat
  BY SocketFacts
<1> QED BY <1>1, <1>2, <1>3 DEF CountInv

\* The frames on their way are numbered on from there.
LEMMA ArrivingHere == ASSUME RelayFacts, Wire, AP!TypeOK, CountInv PROVE AP!Arriving
<1> DEFINE r == read[c]
           O == AP!Of(UnderWay, "notification")
<1>0. /\ r \in Nat /\ Len(sent[c]) \in Nat /\ Len(UnderWay) \in Nat /\ DOMAIN UnderWay = 1..Len(UnderWay)
      /\ Len(UnderWay) = Len(sent[c]) - r
      /\ Len(sent[c]) > 0 => Notifications = Len(sent[c]) - 1
      /\ Notifications \in Nat
  BY SocketFacts DEF Wire, Notifications
<1>1. ASSUME NEW i \in DOMAIN UnderWay, UnderWay[i][1] = "notification"
      PROVE  UnderWay[i][2] = r + i - 1 /\ r + i > 1 /\ r + i - 1 <= Notifications
  <2>1. UnderWay[i] = Frame(r + i) /\ r + i \in 1..Len(sent[c])
    BY <1>0 DEF Wire
  <2>2. r + i # 1
    BY <1>1, <2>1, FrameFacts
  <2>3. Frame(r + i) = <<"notification", (r + i) - 1>>
    <3>1. r + i > 1
      BY <2>1, <2>2
    <3> QED BY <2>1, <3>1, FrameFacts
  <2>4. i \in Nat
    BY <1>0
  <2> QED BY <1>0, <2>1, <2>2, <2>3, <2>4
<1>2. AP!Rises(UnderWay, "notification")
  <2> SUFFICES ASSUME NEW i \in DOMAIN UnderWay, NEW j \in DOMAIN UnderWay, i < j,
                      UnderWay[i][1] = "notification", UnderWay[j][1] = "notification"
               PROVE  UnderWay[i][2] < UnderWay[j][2]
    BY DEF AP!Rises
  <2> QED BY <1>0, <1>1
<1>3. \A n \in O : \E i \in DOMAIN UnderWay : n = r + i - 1 /\ r + i > 1 /\ n <= Notifications
  BY <1>1 DEF AP!Of
<1>4. /\ AP!Range(received) = 1..Len(received) /\ Len(received) \in Nat
      /\ Len(received) = IF r = 0 THEN 0 ELSE r - 1
  BY ReceivedFacts DEF CountInv
<1> HIDE DEF O
<1>5. AP!Before(AP!Range(received), O)
  <2> SUFFICES ASSUME NEW m \in AP!Range(received), NEW n \in O PROVE m < n
    BY DEF AP!Before
  <2>1. PICK i \in DOMAIN UnderWay : n = r + i - 1 /\ r + i > 1
    BY <1>3
  <2>2. m \in Nat /\ m <= Len(received) /\ i \in Nat /\ i >= 1
    BY <1>0, <1>4
  <2> QED BY <1>0, <1>4, <2>1, <2>2
<1>6. \A n \in AP!Range(received) \cup O : n <= Notifications
  <2>1. \A n \in O : n <= Notifications
    BY <1>3
  <2>2. \A n \in AP!Range(received) : n <= Notifications
    BY <1>0, <1>4
  <2> QED BY <2>1, <2>2
<1> QED BY <1>2, <1>5, <1>6 DEF AP!Arriving, O

\* The client task is off only when the process has ended, and then nothing is
\* written any more.
LEMMA OffStep ==
  ASSUME OffInv, AP!Next
  PROVE  OffInv' /\ (wsPc' = "off" => UNCHANGED <<output, item, received>>)
<1> USE DEF OffInv, AP!claudeVars, AP!stdioVars, AP!wsVars, AP!linkVars
<1>1. CASE AP!TakeLine \/ AP!TakeNotification \/ AP!WriteOut \/ AP!HandOver
  <2>1. wsPc' = wsPc /\ stdioPc # "exited"
    BY <1>1 DEF AP!TakeLine, AP!TakeNotification, AP!WriteOut, AP!HandOver
  <2> QED BY <2>1
<1>2. CASE AP!Exit
  BY <1>2 DEF AP!Exit
<1>3. CASE \/ AP!Connect \/ AP!Refused \/ AP!SendHello \/ AP!Notify \/ AP!Sent
           \/ AP!Lost \/ AP!Resume \/ AP!Outgoing
  BY <1>3 DEF AP!Connect, AP!Refused, AP!SendHello, AP!Notify, AP!Sent, AP!Lost, AP!Resume, AP!Outgoing
<1>4. CASE AP!Incoming
  BY <1>4 DEF AP!Incoming
<1>5. CASE AP!Drain \/ AP!ReadOutput \/ AP!Greet \/ AP!RelayReads \/ AP!Close \/ AP!Push \/ AP!Break
  BY <1>5 DEF AP!Drain, AP!ReadOutput, AP!Greet, AP!RelayReads, AP!Close, AP!Push, AP!Break
<1>6. ASSUME NEW k \in AP!Kind, AP!WriteLine(k)
      PROVE  OffInv' /\ (wsPc' = "off" => UNCHANGED <<output, item, received>>)
  BY <1>6 DEF AP!WriteLine
<1> QED BY <1>1, <1>2, <1>3, <1>4, <1>5, <1>6 DEF AP!Next, AP!StdioTask, AP!WsTask, AP!Peers

\* The frame that is read is the next notification, or the first frame.
LEMMA ReadCounts ==
  ASSUME RelayFacts, Wire, AP!TypeOK, CountInv, Reads
  PROVE  CountInv'
<1> DEFINE r == read[c]
<1>0. /\ r \in Nat /\ read'[c] = r + 1 /\ r + 1 \in 1..Len(sent[c])
      /\ received \in Seq(Nat) /\ DOMAIN received = 1..Len(received)
      /\ Len(received) = IF r = 0 THEN 0 ELSE r - 1
      /\ \A i \in DOMAIN received : received[i] = i
  <2>1. read' = [read EXCEPT ![c] = @ + 1] /\ Len(sent[c]) > r
    BY DEF Reads, R!PeerRead, R!InFlight
  <2>2. read'[c] = r + 1
    BY <2>1, OneConnection DEF RelayFacts, RP!TypeOK
  <2> QED BY <2>1, <2>2, SocketFacts, ReceivedFacts DEF CountInv
<1>1. PICK f : f = Head(UnderWay)
  OBVIOUS
<1>2. f = Frame(r + 1)
  <2>1. UnderWay # <<>> /\ UnderWay \in Seq(AP!Frames)
    BY DEF Reads, A!Incoming, Wire
  <2>2. Head(UnderWay) = UnderWay[1] /\ 1 \in 1..Len(UnderWay)
    BY <2>1
  <2> QED BY <1>1, <2>2 DEF Wire
<1>3. \/ f = <<"welcome">> /\ received' = received
      \/ f = <<"error">> /\ received' = received
      \/ f[1] = "notification" /\ received' = Append(received, f[2])
  BY <1>1 DEF Reads, A!Incoming
<1>4. CASE r = 0
  <2>1. f \in {<<"welcome">>, <<"error">>}
    BY <1>0, <1>2, <1>4, FrameFacts
  <2>2. received' = received
    BY <1>3, <2>1
  <2> QED BY <1>0, <1>4, <2>2 DEF CountInv
<1>5. CASE r # 0
  <2>1. f = <<"notification", r>>
    <3>1. r + 1 > 1 /\ (r + 1) - 1 = r
      BY <1>0, <1>5
    <3> QED BY <1>0, <1>2, <3>1, FrameFacts
  <2>2. f[1] = "notification" /\ f[2] = r /\ f # <<"welcome">> /\ f # <<"error">>
    BY <2>1
  <2>3. received' = Append(received, r)
    BY <1>3, <2>2
  <2>4. PICK n \in Nat : n = r
    BY <1>0
  <2>5. Len(received) = n - 1 /\ received' = Append(received, n) /\ n > 0
    BY <1>0, <1>5, <2>3, <2>4
  <2>6. Len(received') = n /\ \A i \in DOMAIN received' : received'[i] = i
    BY <1>0, <2>5
  <2> QED BY <1>0, <2>4, <2>5, <2>6 DEF CountInv
<1> QED BY <1>4, <1>5

LEMMA CoreStep == ASSUME RelayFacts, Wire, Wire', Core, [Next]_vars PROVE Core'
<1>0. AP!NoteInv
  BY ArrivingHere DEF Core, AP!NoteInv
<1>1. CASE Elsewhere
  <2>1. AP!TypeOK'
    BY <1>1 DEF Elsewhere, agentVars, Core, Wire, AP!TypeOK, AP!Frames
  <2>2. AP!ItemInv'
    BY <1>1 DEF Elsewhere, agentVars, Core, AP!ItemInv
  <2>3. AP!NotificationsKept'
    BY <1>1 DEF Elsewhere, agentVars, Core, AP!NotificationsKept, AP!Written, AP!InHand, AP!Rising,
       AP!InOrder, AP!Before, AP!Delivering, AP!Range
  <2>4. CountInv' /\ OffInv'
    BY <1>1 DEF Elsewhere, agentVars, Core, CountInv, OffInv
  <2> QED BY <2>1, <2>2, <2>3, <2>4 DEF Core
<1>2. CASE AP!Next
  <2>1. AP!TypeOK'
    BY <1>2, AgentConstants, AP!TypeStep DEF Core
  <2>2. AP!ItemInv'
    BY <1>2, AgentConstants, AP!ItemStep DEF Core
  <2>3. AP!NotificationsKept'
    BY <1>0, <1>2, AgentConstants, AP!KeptStep DEF Core
  <2>4. OffInv'
    BY <1>2, OffStep DEF Core
  <2>5. CASE Unread
    BY <2>1, <2>2, <2>3, <2>4, <2>5 DEF Core, Unread, CountInv
  <2>6. CASE Reads
    BY <2>1, <2>2, <2>3, <2>4, <2>6, ReadCounts DEF Core
  <2> QED BY <1>1, <2>5, <2>6, AgentSim
<1> QED BY <1>1, <1>2, AgentSim DEF Unread, Reads
-----------------------------------------------------------------------------
(* From end to end.                                                         *)
LEMMA CoreAlways == Spec => [](RelayFacts /\ Wire /\ Core)
<1>1. RelayFacts => Wire
  BY WireOK
<1>2. Init => Core
  <2> SUFFICES ASSUME Init PROVE Core
    OBVIOUS
  <2>1. AP!Init
    BY AgentActions DEF Init
  <2>2. AP!IInv
    BY <2>1, AgentConstants, AP!InitInv
  <2>3. CountInv /\ OffInv
    BY OneConnection DEF Init, A!Init, R!Init, CountInv, OffInv
  <2> QED BY <2>2, <2>3 DEF AP!IInv, AP!NoteInv, Core
<1>3. RelayFacts /\ Wire /\ Wire' /\ Core /\ [Next]_vars => Core'
  BY CoreStep
<1> QED BY <1>1, <1>2, <1>3, RelayAlways, PTL DEF Spec

\* What Claude Code was shown are the first of the notifications that were read.
ShownInv ==
  LET shown == AP!Written("notification")
  IN  /\ AP!InOrder("notification")
      /\ \A n \in shown : n \in 1..Len(received) /\ 1..n \subseteq shown

\* As long as the client runs, this is what NotificationsKept says: whatever was
\* read is shown, or is behind what is shown.
LEMMA KeptShown == ASSUME RelayFacts, Core, wsPc # "off" PROVE ShownInv
<1> DEFINE shown == AP!Written("notification")
           more == AP!InHand("notification")
           queued == AP!Range(toStdout)
           next == AP!Delivering
<1>1. /\ AP!InOrder("notification") /\ AP!Before(shown, more)
      /\ AP!Before(shown \cup more, queued) /\ AP!Before((shown \cup more) \cup queued, next)
      /\ ((shown \cup more) \cup queued) \cup next = AP!Range(received)
  BY DEF Core, AP!NotificationsKept, AP!InOrder
<1>2. AP!Range(received) = 1..Len(received) /\ Len(received) \in Nat
  BY ReceivedFacts DEF Core
<1> HIDE DEF shown, more, queued, next
<1>3. ASSUME NEW n \in shown PROVE n \in 1..Len(received) /\ 1..n \subseteq shown
  <2>1. n \in 1..Len(received)
    BY <1>1, <1>2
  <2>2. ASSUME NEW m \in 1..n PROVE m \in shown
    <3>1. m \in ((shown \cup more) \cup queued) \cup next
      BY <1>1, <1>2, <2>1
    <3>2. m \in more \cup queued \cup next => n < m
      BY <1>1 DEF AP!Before
    <3>3. ~(n < m)
      BY <1>2, <2>1
    <3> QED BY <3>1, <3>2, <3>3
  <2> QED BY <2>1, <2>2
<1> QED BY <1>1, <1>3 DEF ShownInv, shown

LEMMA ShownStep ==
  ASSUME Core, ShownInv, (wsPc # "off" => ShownInv)', [Next]_vars
  PROVE  ShownInv'
<1>1. CASE UNCHANGED <<output, item, received>>
  BY <1>1 DEF ShownInv, AP!InOrder, AP!Written, AP!InHand, AP!Before
<1>2. CASE wsPc' = "off" /\ AP!Next
  BY <1>1, <1>2, OffStep DEF Core
<1>3. CASE wsPc' # "off"
  BY <1>3
<1>4. CASE Elsewhere
  BY <1>1, <1>4 DEF Elsewhere, agentVars
<1> QED BY <1>2, <1>3, <1>4, AgentSim DEF Unread, Reads

\* Whatever the two ends and the network do, and also when they wait for each
\* other or the connection is lost, Claude Code is shown the first of the
\* messages that the hub accepted, in their order and without a gap, and none
\* whose sender was told "offline" (hub.rs:34-48, agent_ws.rs:129-134,
\* ws.rs:145-156, stdio.rs:43-48).
THEOREM ShownIsAlwaysAccepted == Spec => []ShownIsAccepted
<1>1. Init => ShownInv
  <2> SUFFICES ASSUME Init PROVE ShownInv
    OBVIOUS
  <2>1. output = <<>> /\ item = <<>>
    BY DEF Init, A!Init
  <2>2. AP!Written("notification") = {}
    BY <2>1 DEF AP!Written
  <2> QED BY <2>1, <2>2 DEF ShownInv, AP!InOrder, AP!Before
<1>2. RelayFacts /\ Core => (wsPc # "off" => ShownInv)
  BY KeptShown
<1>3. Core /\ ShownInv /\ (wsPc # "off" => ShownInv)' /\ [Next]_vars => ShownInv'
  BY ShownStep
<1>4. RelayFacts /\ Core /\ ShownInv => ShownIsAccepted
  <2> SUFFICES ASSUME RelayFacts, Core, ShownInv PROVE ShownIsAccepted
    OBVIOUS
  <2>1. /\ A!InOrder("notification") <=> AP!InOrder("notification")
        /\ A!Written("notification") = AP!Written("notification")
    BY DEF A!InOrder, AP!InOrder, A!Written, AP!Written, A!InHand, AP!InHand, A!Before, AP!Before
  <2>2. ASSUME NEW n \in AP!Written("notification")
        PROVE  /\ 1..n \subseteq AP!Written("notification") /\ n \in DOMAIN accepted[c]
               /\ sendPc[accepted[c][n]] = "ok" /\ sent[c][n + 1] = accepted[c][n]
    <3>1. n \in 1..Len(received) /\ 1..n \subseteq AP!Written("notification")
      BY DEF ShownInv
    <3>2. Len(received) \in Nat /\ Len(received) = IF read[c] = 0 THEN 0 ELSE read[c] - 1
      BY ReceivedFacts DEF Core, CountInv
    <3>3. n + 1 \in DOMAIN sent[c] /\ n + 1 > 1 /\ (n + 1) - 1 = n
      <4>1. DOMAIN sent[c] = 1..Len(sent[c])
        BY SocketFacts
      <4>2. Len(sent[c]) \in Nat /\ read[c] \in Nat /\ read[c] <= Len(sent[c])
        BY SocketFacts
      <4>3. n \in Nat /\ 1 <= n /\ n + 1 <= read[c]
        BY <3>1, <3>2, <4>2
      <4> QED BY <4>1, <4>2, <4>3
    <3>4. /\ n \in DOMAIN accepted[c] /\ sent[c][n + 1] = accepted[c][n]
          /\ sendPc[sent[c][n + 1]] = "ok"
      BY <3>3, OneConnection DEF RelayFacts, RP!SocketIsAccepted
    <3> QED BY <3>1, <3>4
  <2> QED BY <2>1, <2>2 DEF ShownInv, ShownIsAccepted
<1> QED BY <1>1, <1>2, <1>3, <1>4, CoreAlways, PTL DEF Spec
=============================================================================
