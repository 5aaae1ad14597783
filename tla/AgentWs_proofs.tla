--------------------------- MODULE AgentWs_proofs ---------------------------
(***************************************************************************)
(* Proofs about AgentWs for any number of connections, names and messages, *)
(* and for every size of the queue and of the socket.                      *)
(***************************************************************************)
EXTENDS AgentWs, SequenceTheorems, TLAPS

\* Only accepted messages are in queues, hands and sockets.
Holds(s, m) == \E i \in DOMAIN s : s[i] = m
OnlyAccepted ==
  \A m \in Message, c \in Conn :
    sendPc[m] # "ok" => ~Holds(queue[c], m) /\ ~Holds(hand[c], m) /\ ~Holds(sent[c], m)

\* What a connection has written (w) and accepted (a), by the place of its task.
Early == {"idle", "handshake", "rejecting"}
Shape(p, w, a) ==
  /\ p \in Early \cup {"welcoming"} => w = <<>>
  /\ p \in Serving => w # <<>>
  /\ p \in Serving \cup {"leaving"} => \A i \in DOMAIN w : w[i] # "error"
  /\ p \in Early => a = <<>>
  /\ \A i \in DOMAIN w : w[i] = "welcome" <=> (i = 1 /\ w[i] # "error")
  /\ \A i \in DOMAIN w : w[i] = "error" => Len(w) = 1 /\ a = <<>>
Greeted == \A c \in Conn : Shape(pc[c], sent[c], accepted[c])

IInv == TypeOK /\ NameIsOwned /\ OnlyAccepted /\ Greeted
-----------------------------------------------------------------------------
LEMMA TypeStep == ASSUME TypeOK, [Next]_vars PROVE TypeOK'
<1> USE SizeAssumption DEF TypeOK, Serving
<1>1. ASSUME NEW c \in Conn, NEW n \in Name, Upgrade(c, n) PROVE TypeOK'
  BY <1>1 DEF Upgrade, sendVars, peerVars
<1>2. ASSUME NEW c \in Conn, BadHello(c) PROVE TypeOK'
  BY <1>2 DEF BadHello, sendVars, peerVars
<1>3. ASSUME NEW c \in Conn, Register(c) PROVE TypeOK'
  <2>1. name[c] \in Name
    OBVIOUS
  <2>2. pc' \in [Conn -> {"idle", "handshake", "rejecting", "welcoming", "leaving", "closed"} \cup Serving]
    BY <1>3 DEF Register
  <2>3. agents' = [n \in DOMAIN agents' |-> agents'[n]] /\ DOMAIN agents' \subseteq Name
        /\ \A n \in DOMAIN agents' : agents'[n] \in Conn
    <3>1. CASE Free(name[c])
      <4>1. agents' = [n \in DOMAIN agents \cup {name[c]} |-> IF n = name[c] THEN c ELSE agents[n]]
        BY <1>3, <3>1 DEF Register
      <4> QED BY <2>1, <4>1
    <3>2. CASE ~Free(name[c])
      BY <1>3, <3>2 DEF Register
    <3> QED BY <3>1, <3>2
  <2> QED BY <1>3, <2>2, <2>3 DEF Register, sendVars, peerVars
<1>4. ASSUME NEW c \in Conn, Reject(c) PROVE TypeOK'
  <2>1. Append(sent[c], "error") \in Seq(Message \cup {"welcome", "error"})
    <3> DEFINE F == Message \cup {"welcome", "error"}
    <3>1. sent[c] \in Seq(F) /\ "error" \in F
      OBVIOUS
    <3> HIDE DEF F
    <3>2. Append(sent[c], "error") \in Seq(F)
      BY <3>1, AppendProperties
    <3> QED BY <3>2 DEF F
  <2>2. sent' \in [Conn -> Seq(Message \cup {"welcome", "error"})]
    BY <1>4, <2>1 DEF Reject
  <2> QED BY <1>4, <2>2 DEF Reject, sendVars, peerVars
<1>5. ASSUME NEW c \in Conn, Welcome(c) PROVE TypeOK'
  BY <1>5 DEF Welcome, sendVars, peerVars
<1>6. ASSUME NEW c \in Conn, Incoming(c) \/ FrameDone(c) PROVE TypeOK'
  BY <1>6 DEF Incoming, FrameDone, sendVars, peerVars
<1>7. ASSUME NEW c \in Conn, Outgoing(c) PROVE TypeOK'
  <2>1. /\ queue[c] \in Seq(Message) /\ queue[c] # <<>>
        /\ Head(queue[c]) \in Message /\ Tail(queue[c]) \in Seq(Message)
        /\ Len(Tail(queue[c])) <= QueueSize
    BY <1>7 DEF Outgoing
  <2>2. <<Head(queue[c])>> \in Seq(Message)
    BY <2>1
  <2>3. queue' \in [Conn -> Seq(Message)] /\ \A x \in Conn : Len(queue'[x]) <= QueueSize
    BY <1>7, <2>1 DEF Outgoing
  <2>4. hand' \in [Conn -> Seq(Message)]
    BY <1>7, <2>2 DEF Outgoing
  <2> QED BY <1>7, <2>3, <2>4 DEF Outgoing, sendVars, peerVars
<1>8. ASSUME NEW c \in Conn, Written(c) PROVE TypeOK'
  <2>1. sent[c] \o hand[c] \in Seq(Message \cup {"welcome", "error"})
    <3>1. hand[c] \in Seq(Message \cup {"welcome", "error"})
      OBVIOUS
    <3> QED BY <3>1
  <2> QED BY <1>8, <2>1, EmptySeq DEF Written, sendVars, peerVars
<1>9. ASSUME NEW c \in Conn, Broken(c) PROVE TypeOK'
  BY <1>9, EmptySeq DEF Broken, sendVars, peerVars
<1>10. ASSUME NEW c \in Conn, Unregister(c) PROVE TypeOK'
  <2>1. agents' = [n \in DOMAIN agents \ {name[c]} |-> agents[n]]
    BY <1>10 DEF Unregister, Restrict
  <2>2. agents' = [n \in DOMAIN agents' |-> agents'[n]] /\ DOMAIN agents' \subseteq Name
        /\ \A n \in DOMAIN agents' : agents'[n] \in Conn
    BY <2>1
  <2> QED BY <1>10, <2>2 DEF Unregister, sendVars, peerVars
<1>11. ASSUME NEW m \in Message, NEW n \in Name, Lookup(m, n) PROVE TypeOK'
  <2>1. DOMAIN target' \subseteq Message /\ \A x \in DOMAIN target' : target'[x] \in Conn
    <3>1. CASE Free(n)
      BY <1>11, <3>1 DEF Lookup
    <3>2. CASE ~Free(n)
      <4>1. target' = [x \in DOMAIN target \cup {m} |-> IF x = m THEN agents[n] ELSE target[x]]
        BY <1>11, <3>2 DEF Lookup
      <4>2. agents[n] \in Conn
        BY <3>2 DEF Free
      <4> QED BY <4>1, <4>2
    <3> QED BY <3>1, <3>2
  <2>2. sendPc' \in [Message -> {"idle", "waiting", "ok", "offline"}]
    BY <1>11 DEF Lookup
  <2> QED BY <1>11, <2>1, <2>2 DEF Lookup, connVars, peerVars
<1>12. ASSUME NEW m \in Message, Enqueue(m) PROVE TypeOK'
  <2>1. PICK c : c = target[m]
    OBVIOUS
  <2>2. /\ queue' = [queue EXCEPT ![c] = Append(queue[c], m)]
        /\ accepted' = [accepted EXCEPT ![c] = Append(accepted[c], m)]
        /\ sendPc' = [sendPc EXCEPT ![m] = "ok"]
        /\ UNCHANGED <<agents, pc, name, hand, sent, target, read, peer>>
        /\ Alive(c) /\ Len(queue[c]) < QueueSize
    BY <1>12, <2>1 DEF Enqueue, HasRoom, connVars, peerVars
  <2>3. sendPc' \in [Message -> {"idle", "waiting", "ok", "offline"}]
    BY <2>2
  <2>4. CASE c \in Conn
    <3>1. /\ Append(queue[c], m) \in Seq(Message) /\ Append(accepted[c], m) \in Seq(Message)
          /\ Len(Append(queue[c], m)) <= QueueSize
      BY <2>2, <2>4
    <3>2. queue' \in [Conn -> Seq(Message)] /\ (\A x \in Conn : Len(queue'[x]) <= QueueSize)
          /\ accepted' \in [Conn -> Seq(Message)]
      BY <2>2, <2>4, <3>1
    <3> QED BY <2>2, <2>3, <3>2
  <2>5. CASE c \notin Conn
    <3>1. queue' \in [Conn -> Seq(Message)] /\ (\A x \in Conn : Len(queue'[x]) <= QueueSize)
          /\ accepted' \in [Conn -> Seq(Message)]
      <4>1. queue' = queue /\ accepted' = accepted
        BY <2>2, <2>5
      <4> QED BY <4>1
    <3> QED BY <2>2, <2>3, <3>1
  <2> QED BY <2>4, <2>5
<1>13. ASSUME NEW m \in Message, GiveBack(m) PROVE TypeOK'
  BY <1>13 DEF GiveBack, connVars, peerVars
<1>14. ASSUME NEW c \in Conn, PeerRead(c) PROVE TypeOK'
  BY <1>14 DEF PeerRead, connVars, sendVars
<1>16. ASSUME NEW c \in Conn, PeerLeaves(c) PROVE TypeOK'
  <2>1. peer' \in [Conn -> {"up", "closed", "vanished"}]
    BY <1>16 DEF PeerLeaves
  <2> QED BY <1>16, <2>1 DEF PeerLeaves, connVars, sendVars
<1>15. CASE UNCHANGED vars
  BY <1>15 DEF vars, connVars, sendVars, peerVars
<1> QED BY <1>1, <1>2, <1>3, <1>4, <1>5, <1>6, <1>7, <1>8, <1>9, <1>10, <1>11, <1>12,
           <1>13, <1>14, <1>15, <1>16 DEF Next, ConnTask, SendTask
-----------------------------------------------------------------------------
(* Names.  Only Register and Unregister touch the table.                    *)
LEMMA NameStep == ASSUME TypeOK, NameIsOwned, [Next]_vars PROVE NameIsOwned'
<1> USE DEF NameIsOwned
<1>0. /\ \A n \in DOMAIN agents : agents[n] \in Conn
      /\ pc = [x \in Conn |-> pc[x]]
  BY DEF TypeOK
<1>4. ASSUME agents' = agents, name' = name,
             \A c \in Conn : Registered(c)' = Registered(c)
      PROVE  NameIsOwned'
  BY <1>0, <1>4
<1>1. ASSUME NEW c \in Conn, NEW n \in Name, Upgrade(c, n) PROVE NameIsOwned'
  <2>1. agents' = agents /\ ~Registered(c) /\ ~Registered(c)'
        /\ \A x \in Conn : x # c => Registered(x)' = Registered(x) /\ name'[x] = name[x]
    BY <1>0, <1>1 DEF Upgrade, Registered, Alive, Serving
  <2> QED BY <1>0, <2>1
<1>2. ASSUME NEW c \in Conn, Register(c) PROVE NameIsOwned'
  <2>1. /\ ~Registered(c) /\ name' = name
        /\ \A x \in Conn : x # c => Registered(x)' = Registered(x)
    BY <1>0, <1>2 DEF Register, Registered, Alive, Serving
  <2>2. CASE Free(name[c])
    <3>1. /\ agents' = [n \in DOMAIN agents \cup {name[c]} |-> IF n = name[c] THEN c ELSE agents[n]]
          /\ name[c] \notin DOMAIN agents
      BY <1>2, <2>2 DEF Register, Free
    <3>2. Registered(c)'
      BY <1>0, <1>2, <2>2 DEF Register, Registered, Alive
    <3> QED BY <1>0, <2>1, <3>1, <3>2
  <2>3. CASE ~Free(name[c])
    <3>1. ~Registered(c)' /\ agents' = agents
      BY <1>0, <1>2, <2>3 DEF Register, Registered, Alive, Serving
    <3>2. \A x \in Conn : Registered(x)' = Registered(x)
      BY <2>1, <3>1 DEF Registered, Alive
    <3> QED BY <1>4, <2>1, <3>1, <3>2
  <2> QED BY <2>2, <2>3
<1>3. ASSUME NEW c \in Conn, Unregister(c) PROVE NameIsOwned'
  <2>1. /\ Registered(c) /\ ~Registered(c)' /\ name' = name
        /\ \A x \in Conn : x # c => Registered(x)' = Registered(x)
    BY <1>0, <1>3 DEF Unregister, Registered, Alive, Serving
  <2>2. agents' = [n \in DOMAIN agents \ {name[c]} |-> agents[n]]
    BY <1>3 DEF Unregister, Restrict
  <2> QED BY <1>0, <2>1, <2>2
<1>5. ASSUME NEW c \in Conn, BadHello(c) \/ Reject(c) \/ Welcome(c) \/ Incoming(c) \/ FrameDone(c)
                             \/ Outgoing(c) \/ Written(c) \/ Broken(c)
      PROVE  NameIsOwned'
  <2>1. /\ agents' = agents /\ name' = name
        /\ \A x \in Conn : x # c => pc'[x] = pc[x]
    BY <1>0, <1>5 DEF BadHello, Reject, Welcome, Incoming, FrameDone, Outgoing, Written, Broken
  <2>2. Registered(c)' = Registered(c)
    BY <1>0, <1>5 DEF BadHello, Reject, Welcome, Incoming, FrameDone, Outgoing, Written, Broken, Registered, Alive, Serving
  <2>3. \A x \in Conn : Registered(x)' = Registered(x)
    BY <2>1, <2>2 DEF Registered, Alive
  <2> QED BY <1>4, <2>1, <2>3
<1>6. ASSUME UNCHANGED <<agents, name, pc>> PROVE NameIsOwned'
  <2>1. \A c \in Conn : Registered(c)' = Registered(c)
    BY <1>6 DEF Registered, Alive
  <2> QED BY <1>4, <1>6, <2>1
<1>7. ASSUME NEW c \in Conn, PeerRead(c) \/ PeerLeaves(c) PROVE UNCHANGED <<agents, name, pc>>
  BY <1>7 DEF PeerRead, PeerLeaves, connVars
<1>8. ASSUME NEW m \in Message, SendTask(m) \/ (\E n \in Name : Lookup(m, n))
      PROVE  UNCHANGED <<agents, name, pc>>
  BY <1>8 DEF SendTask, Enqueue, GiveBack, Lookup, connVars
<1>9. CASE UNCHANGED vars
  BY <1>6, <1>9 DEF vars, connVars
<1> QED BY <1>1, <1>2, <1>3, <1>5, <1>6, <1>7, <1>8, <1>9 DEF Next, ConnTask
-----------------------------------------------------------------------------
(* What sequences hold.                                                     *)
LEMMA HoldsTail ==
  ASSUME NEW S, NEW s \in Seq(S), s # <<>>, NEW m
  PROVE  /\ Holds(Tail(s), m) => Holds(s, m)
         /\ Holds(<<Head(s)>>, m) => Holds(s, m)
<1>1. Len(s) \in Nat /\ Len(s) > 0 /\ Head(s) = s[1]
  OBVIOUS
<1>2. DOMAIN Tail(s) = 1..(Len(s) - 1) /\ \A i \in 1..(Len(s) - 1) : Tail(s)[i] = s[i + 1]
  BY <1>1
<1>3. \A i \in 1..(Len(s) - 1) : i + 1 \in 1..Len(s)
  BY <1>1
<1>4. Holds(Tail(s), m) => Holds(s, m)
  BY <1>2, <1>3 DEF Holds
<1>5. Holds(<<Head(s)>>, m) => Holds(s, m)
  <2>1. SUFFICES ASSUME Holds(<<Head(s)>>, m) PROVE Holds(s, m)
    OBVIOUS
  <2>2. s[1] = m /\ 1 \in DOMAIN s
    BY <1>1, <2>1 DEF Holds
  <2> QED BY <2>2 DEF Holds
<1> QED BY <1>4, <1>5

LEMMA HoldsAppend ==
  ASSUME NEW S, NEW s \in Seq(S), NEW e \in S, NEW m, Holds(Append(s, e), m), e # m
  PROVE  Holds(s, m)
<1>1. PICK i \in DOMAIN Append(s, e) : Append(s, e)[i] = m
  BY DEF Holds
<1>2. i \in 1..(Len(s) + 1) /\ Append(s, e)[Len(s) + 1] = e
  BY <1>1
<1>3. i \in 1..Len(s) /\ s[i] = m
  BY <1>1, <1>2
<1> QED BY <1>3 DEF Holds

LEMMA HoldsConcat ==
  ASSUME NEW S, NEW s \in Seq(S), NEW t \in Seq(S), NEW m, Holds(s \o t, m)
  PROVE  Holds(s, m) \/ Holds(t, m)
<1>1. PICK i \in DOMAIN (s \o t) : (s \o t)[i] = m
  BY DEF Holds
<1>2. i \in 1..(Len(s) + Len(t)) /\ Len(s) \in Nat /\ Len(t) \in Nat
  BY <1>1
<1>3. CASE i <= Len(s)
  BY <1>1, <1>2, <1>3 DEF Holds
<1>4. CASE i > Len(s)
  <2>1. i - Len(s) \in 1..Len(t) /\ t[i - Len(s)] = m
    BY <1>1, <1>2, <1>4
  <2> QED BY <2>1 DEF Holds
<1> QED BY <1>2, <1>3, <1>4

LEMMA HoldsEmpty == \A m : ~Holds(<<>>, m)
BY DEF Holds

\* A message that was not accepted appears nowhere.
LEMMA HoldStep == ASSUME TypeOK, OnlyAccepted, [Next]_vars PROVE OnlyAccepted'
<1> SUFFICES ASSUME NEW m \in Message, NEW x \in Conn, sendPc'[m] # "ok"
             PROVE  ~Holds(queue'[x], m) /\ ~Holds(hand'[x], m) /\ ~Holds(sent'[x], m)
  BY DEF OnlyAccepted, Holds
<1> DEFINE F == Message \cup {"welcome", "error"}
<1>0. /\ sendPc[m] # "ok" => ~Holds(queue[x], m) /\ ~Holds(hand[x], m) /\ ~Holds(sent[x], m)
      /\ queue[x] \in Seq(Message) /\ hand[x] \in Seq(Message) /\ sent[x] \in Seq(F)
      /\ hand[x] \in Seq(F) /\ m # "welcome" /\ m # "error"
      /\ "welcome" \in F /\ "error" \in F
      /\ queue = [c \in Conn |-> queue[c]] /\ hand = [c \in Conn |-> hand[c]]
      /\ sent = [c \in Conn |-> sent[c]] /\ sendPc = [y \in Message |-> sendPc[y]]
  BY FrameAssumption DEF OnlyAccepted, TypeOK
<1> HIDE DEF F
<1>1. CASE UNCHANGED <<queue, hand, sent>> /\ sendPc[m] # "ok"
  BY <1>0, <1>1
<1>2. ASSUME NEW c \in Conn, Reject(c) \/ Welcome(c)
      PROVE  ~Holds(queue'[x], m) /\ ~Holds(hand'[x], m) /\ ~Holds(sent'[x], m)
  <2>1. /\ UNCHANGED <<queue, hand, sendPc>>
        /\ sent'[x] \in {sent[x], Append(sent[x], "error"), Append(sent[x], "welcome")}
    BY <1>0, <1>2 DEF Reject, Welcome, sendVars
  <2>2. ~Holds(queue[x], m) /\ ~Holds(hand[x], m) /\ ~Holds(sent[x], m)
    BY <1>0, <2>1
  <2>3. ~Holds(Append(sent[x], "error"), m) /\ ~Holds(Append(sent[x], "welcome"), m)
    BY <1>0, <2>2, HoldsAppend
  <2> QED BY <2>1, <2>2, <2>3
<1>3. ASSUME NEW c \in Conn, Outgoing(c)
      PROVE  ~Holds(queue'[x], m) /\ ~Holds(hand'[x], m) /\ ~Holds(sent'[x], m)
  <2>1. ~Holds(queue[x], m) /\ ~Holds(hand[x], m) /\ ~Holds(sent[x], m) /\ UNCHANGED sent
    BY <1>0, <1>3 DEF Outgoing, sendVars
  <2>2. CASE x # c
    BY <1>0, <1>3, <2>1, <2>2 DEF Outgoing
  <2>3. CASE x = c
    <3>1. queue[x] # <<>> /\ queue'[x] = Tail(queue[x]) /\ hand'[x] = <<Head(queue[x])>>
      BY <1>0, <1>3, <2>3 DEF Outgoing
    <3>2. ~Holds(Tail(queue[x]), m) /\ ~Holds(<<Head(queue[x])>>, m)
      BY <1>0, <2>1, <3>1, HoldsTail
    <3> QED BY <2>1, <3>1, <3>2
  <2> QED BY <2>2, <2>3
<1>4. ASSUME NEW c \in Conn, Written(c)
      PROVE  ~Holds(queue'[x], m) /\ ~Holds(hand'[x], m) /\ ~Holds(sent'[x], m)
  <2>1. ~Holds(queue[x], m) /\ ~Holds(hand[x], m) /\ ~Holds(sent[x], m) /\ UNCHANGED queue
    BY <1>0, <1>4 DEF Written, sendVars
  <2>2. ~Holds(sent[x] \o hand[x], m)
    BY <1>0, <2>1, HoldsConcat
  <2>3. sent'[x] \in {sent[x], sent[x] \o hand[x]} /\ hand'[x] \in {hand[x], <<>>}
    BY <1>0, <1>4 DEF Written
  <2> QED BY <2>1, <2>2, <2>3, HoldsEmpty
<1>5. ASSUME NEW c \in Conn, Broken(c)
      PROVE  ~Holds(queue'[x], m) /\ ~Holds(hand'[x], m) /\ ~Holds(sent'[x], m)
  <2>1. /\ ~Holds(queue[x], m) /\ ~Holds(hand[x], m) /\ ~Holds(sent[x], m) /\ UNCHANGED sent
        /\ queue'[x] \in {queue[x], <<>>} /\ hand'[x] \in {hand[x], <<>>}
    BY <1>0, <1>5 DEF Broken, sendVars
  <2> QED BY <2>1, HoldsEmpty
<1>6. ASSUME NEW e \in Message, Enqueue(e)
      PROVE  ~Holds(queue'[x], m) /\ ~Holds(hand'[x], m) /\ ~Holds(sent'[x], m)
  <2>1. PICK c : c = target[e]
    OBVIOUS
  <2>2. /\ queue' = [queue EXCEPT ![c] = Append(queue[c], e)]
        /\ sendPc' = [sendPc EXCEPT ![e] = "ok"] /\ UNCHANGED <<hand, sent>>
    BY <1>6, <2>1 DEF Enqueue, connVars
  <2>3. e # m /\ sendPc[m] # "ok"
    BY <1>0, <2>2
  <2>4. ~Holds(Append(queue[x], e), m)
    BY <1>0, <2>3, HoldsAppend
  <2>5. queue'[x] \in {queue[x], Append(queue[x], e)}
    BY <1>0, <2>2
  <2> QED BY <1>0, <2>2, <2>3, <2>4, <2>5
<1>7. ASSUME NEW e \in Message, GiveBack(e) \/ (\E n \in Name : Lookup(e, n))
      PROVE  UNCHANGED <<queue, hand, sent>> /\ sendPc[m] # "ok"
  <2>1. UNCHANGED <<queue, hand, sent>> /\ sendPc[e] # "ok" /\ (m # e => sendPc'[m] = sendPc[m])
    BY <1>0, <1>7 DEF GiveBack, Lookup, connVars
  <2> QED BY <2>1
<1>8. ASSUME NEW c \in Conn, \/ BadHello(c) \/ Register(c) \/ FrameDone(c) \/ Unregister(c) \/ Incoming(c)
                             \/ PeerRead(c) \/ PeerLeaves(c) \/ \E n \in Name : Upgrade(c, n)
      PROVE  UNCHANGED <<queue, hand, sent>> /\ sendPc[m] # "ok"
  BY <1>8 DEF BadHello, Register, FrameDone, Unregister, Incoming, PeerRead, PeerLeaves, Upgrade, connVars, sendVars
<1>9. CASE UNCHANGED vars
  BY <1>1, <1>9 DEF vars, connVars, sendVars
<1> QED BY <1>1, <1>2, <1>3, <1>4, <1>5, <1>6, <1>7, <1>8, <1>9 DEF Next, ConnTask, SendTask
-----------------------------------------------------------------------------
(* The welcome.                                                             *)

\* A step of one connection, and one of no connection.
LEMMA OneConn ==
  ASSUME Greeted, NEW c \in Conn, Shape(pc'[c], sent'[c], accepted'[c]),
         \A x \in Conn \ {c} : pc'[x] = pc[x] /\ sent'[x] = sent[x] /\ accepted'[x] = accepted[x]
  PROVE  Greeted'
<1>1. \A x \in Conn : Shape(pc'[x], sent'[x], accepted'[x])
  BY DEF Greeted
<1> QED BY <1>1 DEF Greeted

LEMMA GreetStep == ASSUME TypeOK, OnlyAccepted, Greeted, [Next]_vars PROVE Greeted'
<1> DEFINE F == Message \cup {"welcome", "error"}
<1>0. /\ pc = [c \in Conn |-> pc[c]] /\ sent = [c \in Conn |-> sent[c]]
      /\ accepted = [c \in Conn |-> accepted[c]]
      /\ \A c \in Conn : Shape(pc[c], sent[c], accepted[c]) /\ sent[c] \in Seq(F) /\ hand[c] \in Seq(F)
      /\ \A c \in Conn : \A i \in DOMAIN hand[c] : hand[c][i] \notin {"welcome", "error"}
  BY FrameAssumption DEF TypeOK, Greeted
<1> HIDE DEF F
<1>1. ASSUME UNCHANGED <<pc, sent, accepted>> PROVE Greeted'
  BY <1>1 DEF Greeted
<1>2. ASSUME NEW c \in Conn, \/ BadHello(c) \/ Register(c) \/ FrameDone(c) \/ Unregister(c)
                             \/ Incoming(c) \/ Outgoing(c) \/ Broken(c) \/ \E n \in Name : Upgrade(c, n)
      PROVE  Greeted'
  <2>1. /\ UNCHANGED <<sent, accepted>>
        /\ pc[c] = "idle" => pc'[c] \in Early
        /\ pc[c] = "handshake" => pc'[c] \in Early \cup {"welcoming"}
        /\ pc[c] \in {"welcoming"} \cup Serving => pc'[c] \in Serving \cup {"leaving"}
        /\ pc[c] = "welcoming" => pc'[c] = "leaving"
        /\ pc[c] = "leaving" => pc'[c] = "closed"
        /\ pc[c] \in {"idle", "handshake", "welcoming", "leaving"} \cup Serving
        /\ \A x \in Conn \ {c} : pc'[x] = pc[x]
    BY <1>0, <1>2 DEF BadHello, Register, FrameDone, Unregister, Incoming, Outgoing, Broken, Upgrade,
       Early, Serving, sendVars
  <2>2. Shape(pc[c], sent[c], accepted[c])
    BY <1>0
  <2>3. Shape(pc'[c], sent[c], accepted[c])
    BY <2>1, <2>2 DEF Shape, Early, Serving
  <2> QED BY <2>1, <2>3, OneConn
<1>3. ASSUME NEW c \in Conn, Reject(c) \/ Welcome(c) PROVE Greeted'
  <2>1. /\ sent[c] = <<>> /\ UNCHANGED accepted
        /\ \A x \in Conn \ {c} : pc'[x] = pc[x] /\ sent'[x] = sent[x]
    BY <1>0, <1>3 DEF Reject, Welcome, Shape, Early, sendVars
  <2>2. CASE Reject(c)
    <3>1. pc'[c] = "closed" /\ sent'[c] \in {<<>>, <<"error">>} /\ accepted[c] = <<>>
      BY <1>0, <2>1, <2>2 DEF Reject, Shape, Early
    <3>2. Shape("closed", <<>>, <<>>) /\ Shape("closed", <<"error">>, <<>>)
      BY DEF Shape, Early, Serving
    <3>3. Shape(pc'[c], sent'[c], accepted[c])
      BY <3>1, <3>2
    <3> QED BY <2>1, <3>3, OneConn
  <2>3. CASE Welcome(c)
    <3>1. pc'[c] = "serving" /\ sent'[c] = <<"welcome">>
      BY <1>0, <2>1, <2>3 DEF Welcome
    <3>2. Shape("serving", <<"welcome">>, accepted[c])
      BY DEF Shape, Early, Serving
    <3> QED BY <2>1, <3>1, <3>2, OneConn
  <2> QED BY <1>3, <2>2, <2>3
<1>4. ASSUME NEW c \in Conn, Written(c) PROVE Greeted'
  <2> DEFINE w == sent[c]
             h == hand[c]
  <2>1. /\ pc[c] = "writing" /\ pc'[c] = "serving" /\ sent'[c] = w \o h /\ UNCHANGED accepted
        /\ \A x \in Conn \ {c} : pc'[x] = pc[x] /\ sent'[x] = sent[x]
    BY <1>0, <1>4 DEF Written, sendVars
  <2>2. /\ w # <<>> /\ w \in Seq(F) /\ h \in Seq(F)
        /\ \A i \in DOMAIN w : w[i] # "error" /\ (w[i] = "welcome" <=> i = 1)
        /\ \A i \in DOMAIN h : h[i] \notin {"welcome", "error"}
    BY <1>0, <2>1 DEF Shape, Serving
  <2> HIDE DEF w, h
  <2>3. \A i \in DOMAIN (w \o h) : (w \o h)[i] # "error" /\ ((w \o h)[i] = "welcome" <=> i = 1)
    <3> SUFFICES ASSUME NEW i \in DOMAIN (w \o h)
                 PROVE  (w \o h)[i] # "error" /\ ((w \o h)[i] = "welcome" <=> i = 1)
      OBVIOUS
    <3>1. i \in 1..(Len(w) + Len(h)) /\ Len(w) \in Nat /\ Len(h) \in Nat /\ Len(w) > 0
      BY <2>2
    <3>2. CASE i <= Len(w)
      BY <2>2, <3>1, <3>2
    <3>3. CASE i > Len(w)
      <4>1. i - Len(w) \in DOMAIN h /\ (w \o h)[i] = h[i - Len(w)] /\ i # 1
        BY <2>2, <3>1, <3>3
      <4> QED BY <2>2, <4>1
    <3> QED BY <3>1, <3>2, <3>3
  <2>4. w \o h # <<>>
    BY <2>2
  <2>5. Shape("serving", w \o h, accepted[c])
    BY <2>3, <2>4 DEF Shape, Early, Serving
  <2> QED BY <2>1, <2>5, OneConn
<1>5. ASSUME NEW e \in Message, Enqueue(e) PROVE Greeted'
  <2>1. PICK c : c = target[e]
    OBVIOUS
  <2>2. /\ accepted' = [accepted EXCEPT ![c] = Append(accepted[c], e)]
        /\ Alive(c) /\ UNCHANGED <<pc, sent>>
    BY <1>5, <2>1 DEF Enqueue, connVars
  <2>3. CASE c \in Conn
    <3>1. Shape(pc[c], sent[c], accepted[c]) /\ Alive(c)
      BY <1>0, <2>2, <2>3
    <3>2. Shape(pc[c], sent[c], accepted'[c])
      BY <3>1 DEF Shape, Alive, Early, Serving
    <3>3. \A x \in Conn \ {c} : accepted'[x] = accepted[x]
      BY <1>0, <2>2
    <3> QED BY <2>2, <2>3, <3>2, <3>3, OneConn
  <2>4. CASE c \notin Conn
    <3>1. accepted' = accepted
      BY <1>0, <2>2, <2>4
    <3> QED BY <1>1, <2>2, <3>1
  <2> QED BY <2>3, <2>4
<1>6. ASSUME NEW e \in Message, GiveBack(e) \/ (\E n \in Name : Lookup(e, n))
      PROVE  UNCHANGED <<pc, sent, accepted>>
  BY <1>6 DEF GiveBack, Lookup, connVars
<1>7. ASSUME NEW c \in Conn, PeerRead(c) \/ PeerLeaves(c) PROVE UNCHANGED <<pc, sent, accepted>>
  BY <1>7 DEF PeerRead, PeerLeaves, connVars, sendVars
<1>8. CASE UNCHANGED vars
  BY <1>1, <1>8 DEF vars, connVars, sendVars
<1> QED BY <1>1, <1>2, <1>3, <1>4, <1>5, <1>6, <1>7, <1>8 DEF Next, ConnTask, SendTask
-----------------------------------------------------------------------------
LEMMA InitInv == Init => IInv
<1> SUFFICES ASSUME Init PROVE IInv
  OBVIOUS
<1> DEFINE n0 == CHOOSE n \in Name : TRUE
<1>1. n0 \in Name
  BY NameAssumption
<1> HIDE DEF n0
<1>2. TypeOK
  <2>1. name = [c \in Conn |-> n0]
    BY DEF Init, n0
  <2>2. <<>> \in Seq(Message) /\ <<>> \in Seq(Message \cup {"welcome", "error"}) /\ Len(<<>>) = 0
    OBVIOUS
  <2>3. queue \in [Conn -> Seq(Message)] /\ \A c \in Conn : Len(queue[c]) <= QueueSize
    BY <2>2, SizeAssumption DEF Init
  <2> QED BY <1>1, <2>1, <2>2, <2>3 DEF Init, TypeOK, Serving
<1>3. NameIsOwned
  BY DEF Init, NameIsOwned, Registered, Alive, Serving
<1>4. OnlyAccepted
  BY HoldsEmpty DEF Init, OnlyAccepted
<1>5. Greeted
  <2>1. Shape("idle", <<>>, <<>>)
    BY DEF Shape, Early, Serving
  <2> QED BY <2>1 DEF Init, Greeted
<1> QED BY <1>2, <1>3, <1>4, <1>5 DEF IInv

\* The inductive invariant: names and their owners, where accepted messages
\* can be, and what each connection has written by the place of its task.
LEMMA Inductive == Spec => []IInv
<1>1. IInv /\ [Next]_vars => IInv'
  BY TypeStep, NameStep, HoldStep, GreetStep DEF IInv
<1> QED BY InitInv, <1>1, PTL DEF Spec

\* The state of the hub and of every connection keeps its type, and no queue
\* grows over QUEUE_SIZE (hub.rs:11, 21-44; agent_ws.rs:35-150).
THEOREM TypeCorrect == Spec => []TypeOK
<1>1. IInv => TypeOK
  BY DEF IInv
<1> QED BY Inductive, <1>1, PTL

\* The entry of a name is always the one registered connection of that name,
\* so unregistering by name frees no other (hub.rs:21-32, agent_ws.rs:52-66).
THEOREM NamesAreOwned == Spec => []NameIsOwned
<1>1. IInv => NameIsOwned
  BY DEF IInv
<1> QED BY Inductive, <1>1, PTL

\* A message whose sender was told "offline" is nowhere (hub.rs:41-44).
THEOREM RefusedStaysOut == Spec => []RefusedNeverQueued
<1>1. IInv => RefusedNeverQueued
  BY DEF IInv, OnlyAccepted, RefusedNeverQueued, Holds
<1> QED BY Inductive, <1>1, PTL

\* The welcome comes first although the name is registered before it is sent
\* (agent_ws.rs:52-66, 115-120).
THEOREM WelcomeComesFirst == Spec => []WelcomeFirst
<1>1. IInv => WelcomeFirst
  BY DEF IInv, Greeted, Shape, WelcomeFirst
<1> QED BY Inductive, <1>1, PTL
-----------------------------------------------------------------------------
(* The outbox.                                                              *)

\* What a connection accepted (a) is what it delivered (d), what its task has
\* in hand (h) and what waits in its queue (q), in this order, until the task
\* stops serving; a task has at most one message in hand, while it writes.
Trace(p, d, h, q, a) ==
  /\ p \in Early => q = <<>>
  /\ p # "writing" => h = <<>>
  /\ p = "writing" => Len(h) = 1
  /\ p \in {"welcoming"} \cup Serving => a = d \o (h \o q)
Traced == \A c \in Conn : Trace(pc[c], Delivered[c], hand[c], queue[c], accepted[c])

\* A message is accepted only by the send that returned "ok".
AcceptedOnce == \A m \in Message, c \in Conn : sendPc[m] # "ok" => ~Holds(accepted[c], m)

DeliveredOf(w) == IF w = <<>> \/ w[1] = "error" THEN <<>> ELSE Tail(w)

Frames == Message \cup {"welcome", "error"}

LEMMA DeliveredIsOf == \A c \in Conn : Delivered[c] = DeliveredOf(sent[c])
BY DEF Delivered, DeliveredOf

\* How the three parts of a trace move.
LEMMA WriteOne ==
  ASSUME NEW S, NEW d \in Seq(S), NEW h \in Seq(S), NEW q \in Seq(S)
  PROVE  d \o (h \o q) = (d \o h) \o (<<>> \o q)
OBVIOUS

Line(d, h, q) == d \o (h \o q)
Added(s, m) == Append(s, m)
LEMMA AddOne ==
  ASSUME NEW S, NEW d \in Seq(S), NEW h \in Seq(S), NEW q \in Seq(S), NEW m \in S
  PROVE  Added(Line(d, h, q), m) = Line(d, h, Added(q, m))
<1>1. <<m>> \in Seq(S)
  OBVIOUS
<1>2. (d \o (h \o q)) \o <<m>> = d \o (h \o (q \o <<m>>))
  BY <1>1
<1>3. d \o (h \o q) \in Seq(S)
  OBVIOUS
<1>4. /\ Append(q, m) = q \o <<m>>
      /\ \A s \in Seq(S) : Append(s, m) = s \o <<m>>
  BY AppendIsConcat
<1>5. Append(d \o (h \o q), m) = (d \o (h \o q)) \o <<m>>
  BY <1>3, <1>4
<1> QED BY <1>2, <1>4, <1>5 DEF Line, Added

LEMMA TailConcat ==
  ASSUME NEW S, NEW w \in Seq(S), NEW h \in Seq(S), w # <<>>
  PROVE  Tail(w \o h) = Tail(w) \o h /\ (w \o h)[1] = w[1] /\ w \o h # <<>>
<1>1. Len(w) > 0 /\ w \o h \in Seq(S) /\ Len(w \o h) = Len(w) + Len(h) /\ Len(h) \in Nat
  OBVIOUS
<1>2. Tail(w) \in Seq(S) /\ Len(Tail(w)) = Len(w) - 1
  BY <1>1
<1>3. Tail(w \o h) \in Seq(S) /\ Tail(w) \o h \in Seq(S)
  BY <1>1, <1>2
<1>4. Len(Tail(w \o h)) = Len(Tail(w) \o h)
  BY <1>1, <1>2
<1>5. ASSUME NEW i \in 1..Len(Tail(w \o h)) PROVE Tail(w \o h)[i] = (Tail(w) \o h)[i]
  BY <1>1, <1>2
<1>6. Tail(w \o h) = Tail(w) \o h
  BY <1>3, <1>4, <1>5, SeqEqual
<1> QED BY <1>1, <1>6

\* The next of the accepted messages is the one in hand.
LEMMA NextIsInHand ==
  ASSUME NEW S, NEW d \in Seq(S), NEW h \in Seq(S), NEW q \in Seq(S), Len(h) = 1
  PROVE  /\ Len(d) + 1 \in DOMAIN Line(d, h, q)
         /\ d \o h = Added(d, Line(d, h, q)[Len(d) + 1])
<1>1. h[1] \in S /\ DOMAIN h = 1..1
  OBVIOUS
<1>2. PICK x \in S : h = <<x>>
  <2>1. <<h[1]>> \in Seq(S) /\ Len(<<h[1]>>) = 1 /\ <<h[1]>>[1] = h[1]
    BY <1>1
  <2>2. h = <<h[1]>>
    BY <2>1, SeqEqual
  <2> QED BY <1>1, <2>2
<1>3. (d \o (<<x>> \o q))[Len(d) + 1] = x
  OBVIOUS
<1>4. d \o <<x>> = Append(d, x)
  OBVIOUS
<1>5. Len(d) + 1 \in DOMAIN (d \o (<<x>> \o q))
  OBVIOUS
<1> QED BY <1>2, <1>3, <1>4, <1>5 DEF Line, Added

\* A step that moves at most the trace of connection c.
LEMMA OneTrace ==
  ASSUME Traced, NEW c \in Conn,
         Trace(pc'[c], DeliveredOf(sent'[c]), hand'[c], queue'[c], accepted'[c]),
         \A x \in Conn \ {c} : /\ pc'[x] = pc[x] /\ sent'[x] = sent[x] /\ hand'[x] = hand[x]
                               /\ queue'[x] = queue[x] /\ accepted'[x] = accepted[x]
  PROVE  Traced'
<1>1. \A x \in Conn : Delivered'[x] = DeliveredOf(sent'[x])
  BY DEF Delivered, DeliveredOf
<1>2. ASSUME NEW x \in Conn \ {c}
      PROVE  Trace(pc'[x], DeliveredOf(sent'[x]), hand'[x], queue'[x], accepted'[x])
  BY DeliveredIsOf DEF Traced
<1>3. \A x \in Conn : Trace(pc'[x], DeliveredOf(sent'[x]), hand'[x], queue'[x], accepted'[x])
  BY <1>2
<1> QED BY <1>1, <1>3 DEF Traced

LEMMA TraceStep == ASSUME TypeOK, Greeted, Traced, [Next]_vars PROVE Traced'
<1> DEFINE D(c) == DeliveredOf(sent[c])
<1>0. /\ pc = [c \in Conn |-> pc[c]] /\ sent = [c \in Conn |-> sent[c]] /\ hand = [c \in Conn |-> hand[c]]
      /\ queue = [c \in Conn |-> queue[c]] /\ accepted = [c \in Conn |-> accepted[c]]
      /\ \A c \in Conn : /\ sent[c] \in Seq(Frames) /\ hand[c] \in Seq(Frames) /\ queue[c] \in Seq(Frames)
                         /\ accepted[c] \in Seq(Frames)
      /\ \A c \in Conn : Shape(pc[c], sent[c], accepted[c])
      /\ Message \subseteq Frames
  BY DEF TypeOK, Greeted, Frames
<1>01. \A c \in Conn : Trace(pc[c], D(c), hand[c], queue[c], accepted[c])
  BY DeliveredIsOf DEF Traced
<1>02. \A c \in Conn : D(c) \in Seq(Frames)
  <2> SUFFICES ASSUME NEW c \in Conn PROVE DeliveredOf(sent[c]) \in Seq(Frames)
    OBVIOUS
  <2>1. sent[c] # <<>> => Tail(sent[c]) \in Seq(Frames)
    BY <1>0
  <2> QED BY <2>1, EmptySeq DEF DeliveredOf
<1>1. ASSUME UNCHANGED <<pc, sent, hand, queue, accepted>> PROVE Traced'
  BY <1>1 DEF Traced, Delivered
\* A place that changes without a word on the socket or a message.
<1>2. ASSUME NEW c \in Conn, \/ BadHello(c) \/ Register(c) \/ FrameDone(c) \/ Unregister(c)
                             \/ Incoming(c) \/ \E n \in Name : Upgrade(c, n)
      PROVE  Traced'
  <2>1. /\ UNCHANGED <<sent, hand, queue, accepted>>
        /\ pc[c] = "idle" => pc'[c] \in Early
        /\ pc[c] = "handshake" => pc'[c] \in Early \cup {"welcoming"}
        /\ pc[c] \in {"serving", "busy"} => pc'[c] \in {"serving", "busy"}
        /\ pc[c] = "leaving" => pc'[c] = "closed"
        /\ pc[c] \in {"idle", "handshake", "leaving", "serving", "busy"}
        /\ \A x \in Conn \ {c} : pc'[x] = pc[x]
    BY <1>0, <1>2 DEF BadHello, Register, FrameDone, Unregister, Incoming, Upgrade, Early, sendVars
  <2>2. CASE pc[c] = "handshake"
    <3>1. /\ sent[c] = <<>> /\ accepted[c] = <<>> /\ queue[c] = <<>> /\ hand[c] = <<>>
      BY <1>0, <1>01, <2>2 DEF Shape, Trace, Early
    <3>2. D(c) = <<>> /\ <<>> \o (<<>> \o <<>>) = <<>>
      BY <3>1 DEF DeliveredOf
    <3>3. Trace(pc'[c], D(c), hand[c], queue[c], accepted[c])
      BY <2>1, <2>2, <3>1, <3>2 DEF Trace, Early, Serving
    <3> QED BY <2>1, <3>3, OneTrace
  <2>3. CASE pc[c] # "handshake"
    <3>1. Trace(pc[c], D(c), hand[c], queue[c], accepted[c])
      BY <1>01
    <3>2. Trace(pc'[c], D(c), hand[c], queue[c], accepted[c])
      BY <2>1, <2>3, <3>1 DEF Trace, Early, Serving
    <3> QED BY <2>1, <3>2, OneTrace
  <2> QED BY <2>2, <2>3
<1>3. ASSUME NEW c \in Conn, Reject(c) \/ Welcome(c) PROVE Traced'
  <2>1. /\ sent[c] = <<>> /\ UNCHANGED <<queue, hand, accepted>>
        /\ sent'[c] \in {<<>>, <<"error">>, <<"welcome">>}
        /\ \A x \in Conn \ {c} : pc'[x] = pc[x] /\ sent'[x] = sent[x]
        /\ (pc[c] = "rejecting" /\ pc'[c] = "closed") \/ (pc[c] = "welcoming" /\ pc'[c] = "serving")
    <3>1. /\ UNCHANGED <<queue, hand, accepted>>
          /\ sent'[c] \in {sent[c], Append(sent[c], "error"), Append(sent[c], "welcome")}
          /\ \A x \in Conn \ {c} : pc'[x] = pc[x] /\ sent'[x] = sent[x]
          /\ (pc[c] = "rejecting" /\ pc'[c] = "closed") \/ (pc[c] = "welcoming" /\ pc'[c] = "serving")
      BY <1>0, <1>3 DEF Reject, Welcome, sendVars
    <3>2. sent[c] = <<>>
      BY <1>0, <3>1 DEF Shape, Early
    <3>3. Append(<<>>, "error") = <<"error">> /\ Append(<<>>, "welcome") = <<"welcome">>
      OBVIOUS
    <3> QED BY <3>1, <3>2, <3>3
  <2>2. D(c) = <<>> /\ DeliveredOf(sent'[c]) = <<>>
    <3>1. Tail(<<"welcome">>) = <<>> /\ <<"error">>[1] = "error"
      OBVIOUS
    <3> QED BY <2>1, <3>1 DEF DeliveredOf
  <2>3. Trace(pc'[c], <<>>, hand[c], queue[c], accepted[c])
    BY <1>01, <2>1, <2>2 DEF Trace, Early, Serving
  <2> QED BY <2>1, <2>2, <2>3, OneTrace
<1>4. ASSUME NEW c \in Conn, Outgoing(c) PROVE Traced'
  <2>1. /\ pc[c] = "serving" /\ pc'[c] = "writing" /\ queue[c] # <<>>
        /\ hand'[c] = <<Head(queue[c])>> /\ queue'[c] = Tail(queue[c]) /\ UNCHANGED <<sent, accepted>>
        /\ \A x \in Conn \ {c} : pc'[x] = pc[x] /\ hand'[x] = hand[x] /\ queue'[x] = queue[x]
    BY <1>0, <1>4 DEF Outgoing, sendVars
  <2>2. accepted[c] = D(c) \o (<<>> \o queue[c]) /\ hand[c] = <<>>
    BY <1>01, <2>1 DEF Trace, Serving
  <2>3. accepted[c] = D(c) \o (<<Head(queue[c])>> \o Tail(queue[c]))
    <3>1. queue[c] \in Seq(Frames) /\ queue[c] # <<>>
      BY <1>0, <2>1
    <3>2. <<>> \o queue[c] = <<Head(queue[c])>> \o Tail(queue[c])
      BY <3>1
    <3> QED BY <2>2, <3>2
  <2>4. Trace(pc'[c], D(c), hand'[c], queue'[c], accepted[c])
    BY <2>1, <2>3 DEF Trace, Early
  <2> QED BY <2>1, <2>4, OneTrace
<1>5. ASSUME NEW c \in Conn, Written(c) PROVE Traced'
  <2>1. /\ pc[c] = "writing" /\ pc'[c] = "serving"
        /\ sent'[c] = sent[c] \o hand[c] /\ hand'[c] = <<>> /\ UNCHANGED <<queue, accepted>>
        /\ \A x \in Conn \ {c} : pc'[x] = pc[x] /\ hand'[x] = hand[x] /\ sent'[x] = sent[x]
    BY <1>0, <1>5 DEF Written, sendVars
  <2>2. DeliveredOf(sent'[c]) = D(c) \o hand[c]
    <3>1. sent[c] # <<>> /\ 1 \in DOMAIN sent[c] /\ sent[c][1] # "error"
      BY <1>0, <2>1 DEF Shape, Serving
    <3>2. Tail(sent[c] \o hand[c]) = Tail(sent[c]) \o hand[c] /\ (sent[c] \o hand[c])[1] = sent[c][1]
          /\ sent[c] \o hand[c] # <<>>
      BY <1>0, <3>1, TailConcat
    <3> QED BY <2>1, <3>1, <3>2 DEF DeliveredOf
  <2>3. accepted[c] = D(c) \o (hand[c] \o queue[c])
    BY <1>01, <2>1 DEF Trace, Serving
  <2>4. accepted[c] = (D(c) \o hand[c]) \o (<<>> \o queue[c])
    <3>1. D(c) \in Seq(Frames) /\ hand[c] \in Seq(Frames) /\ queue[c] \in Seq(Frames)
      BY <1>0, <1>02
    <3>2. \A d, h, q \in Seq(Frames) : d \o (h \o q) = (d \o h) \o (<<>> \o q)
      BY WriteOne
    <3> HIDE DEF D
    <3>3. D(c) \o (hand[c] \o queue[c]) = (D(c) \o hand[c]) \o (<<>> \o queue[c])
      BY <3>1, <3>2, Zenon
    <3> QED BY <2>3, <3>3
  <2>5. Trace(pc'[c], DeliveredOf(sent'[c]), hand'[c], queue'[c], accepted'[c])
    BY <2>1, <2>2, <2>4 DEF Trace, Early
  <2> QED BY <2>1, <2>5, OneTrace
<1>6. ASSUME NEW c \in Conn, Broken(c) PROVE Traced'
  <2>1. /\ pc'[c] = "leaving" /\ hand'[c] = <<>> /\ queue'[c] = <<>> /\ UNCHANGED <<sent, accepted>>
        /\ \A x \in Conn \ {c} : pc'[x] = pc[x] /\ hand'[x] = hand[x] /\ queue'[x] = queue[x]
    BY <1>0, <1>6 DEF Broken, sendVars
  <2>2. Trace("leaving", D(c), <<>>, <<>>, accepted[c])
    BY DEF Trace, Early, Serving
  <2> QED BY <2>1, <2>2, OneTrace
<1>7. ASSUME NEW e \in Message, Enqueue(e) PROVE Traced'
  <2>1. PICK c : c = target[e]
    OBVIOUS
  <2>2. /\ accepted' = [accepted EXCEPT ![c] = Append(accepted[c], e)]
        /\ queue' = [queue EXCEPT ![c] = Append(queue[c], e)]
        /\ Alive(c) /\ UNCHANGED <<pc, sent, hand>>
    BY <1>7, <2>1 DEF Enqueue, connVars
  <2>3. CASE c \in Conn
    <3>1. pc[c] \in {"welcoming"} \cup Serving
      BY <2>2 DEF Alive
    <3>2. Append(accepted[c], e) = D(c) \o (hand[c] \o Append(queue[c], e))
      <4>1. accepted[c] = D(c) \o (hand[c] \o queue[c])
        BY <1>01, <2>3, <3>1 DEF Trace
      <4>2. D(c) \in Seq(Frames) /\ hand[c] \in Seq(Frames) /\ queue[c] \in Seq(Frames) /\ e \in Frames
        BY <1>0, <1>02, <2>3
      <4> HIDE DEF D
      <4>3. Append(D(c) \o (hand[c] \o queue[c]), e) = D(c) \o (hand[c] \o Append(queue[c], e))
        <5>1. Added(Line(D(c), hand[c], queue[c]), e) = Line(D(c), hand[c], Added(queue[c], e))
          BY <4>2, AddOne
        <5> QED BY <5>1 DEF Line, Added
      <4> QED BY <4>1, <4>3
    <3>3. accepted'[c] = Append(accepted[c], e) /\ queue'[c] = Append(queue[c], e)
      BY <1>0, <2>2, <2>3
    <3>4. Trace(pc[c], D(c), hand[c], queue'[c], accepted'[c])
      BY <1>01, <2>3, <3>1, <3>2, <3>3 DEF Trace, Early, Serving
    <3>5. \A x \in Conn \ {c} : accepted'[x] = accepted[x] /\ queue'[x] = queue[x]
      BY <1>0, <2>2
    <3> QED BY <2>2, <2>3, <3>4, <3>5, OneTrace
  <2>4. CASE c \notin Conn
    <3>1. accepted' = accepted /\ queue' = queue
      BY <1>0, <2>2, <2>4
    <3> QED BY <1>1, <2>2, <3>1
  <2> QED BY <2>3, <2>4
<1>8. ASSUME NEW e \in Message, GiveBack(e) \/ (\E n \in Name : Lookup(e, n))
      PROVE  UNCHANGED <<pc, sent, hand, queue, accepted>>
  BY <1>8 DEF GiveBack, Lookup, connVars
<1>9. ASSUME NEW c \in Conn, PeerRead(c) \/ PeerLeaves(c)
      PROVE  UNCHANGED <<pc, sent, hand, queue, accepted>>
  BY <1>9 DEF PeerRead, PeerLeaves, connVars, sendVars
<1>10. CASE UNCHANGED vars
  BY <1>1, <1>10 DEF vars, connVars, sendVars
<1> QED BY <1>1, <1>2, <1>3, <1>4, <1>5, <1>6, <1>7, <1>8, <1>9, <1>10 DEF Next, ConnTask, SendTask

LEMMA OnceStep == ASSUME TypeOK, AcceptedOnce, [Next]_vars PROVE AcceptedOnce'
<1> SUFFICES ASSUME NEW m \in Message, NEW x \in Conn, sendPc'[m] # "ok"
             PROVE  ~Holds(accepted'[x], m)
  BY DEF AcceptedOnce, Holds
<1>0. /\ sendPc[m] # "ok" => ~Holds(accepted[x], m)
      /\ accepted[x] \in Seq(Message)
      /\ accepted = [c \in Conn |-> accepted[c]] /\ sendPc = [y \in Message |-> sendPc[y]]
  BY DEF AcceptedOnce, TypeOK
<1>1. CASE accepted' = accepted /\ sendPc[m] # "ok"
  BY <1>0, <1>1
<1>2. ASSUME NEW e \in Message, Enqueue(e) PROVE ~Holds(accepted'[x], m)
  <2>1. PICK c : c = target[e]
    OBVIOUS
  <2>2. /\ accepted' = [accepted EXCEPT ![c] = Append(accepted[c], e)]
        /\ sendPc' = [sendPc EXCEPT ![e] = "ok"]
    BY <1>2, <2>1 DEF Enqueue
  <2>3. e # m /\ sendPc[m] # "ok"
    BY <1>0, <2>2
  <2>4. ~Holds(Append(accepted[x], e), m)
    BY <1>0, <2>3, HoldsAppend
  <2>5. accepted'[x] \in {accepted[x], Append(accepted[x], e)}
    BY <1>0, <2>2
  <2> QED BY <1>0, <2>3, <2>4, <2>5
<1>3. ASSUME NEW e \in Message, GiveBack(e) \/ (\E n \in Name : Lookup(e, n))
      PROVE  accepted' = accepted /\ sendPc[m] # "ok"
  BY <1>0, <1>3 DEF GiveBack, Lookup
<1>4. ASSUME NEW c \in Conn, \/ ConnTask(c) \/ Incoming(c) \/ FrameDone(c) \/ Outgoing(c) \/ PeerRead(c) \/ PeerLeaves(c)
                             \/ \E n \in Name : Upgrade(c, n)
      PROVE  accepted' = accepted /\ sendPc[m] # "ok"
  BY <1>4 DEF ConnTask, BadHello, Register, Reject, Welcome, FrameDone, Written, Broken, Unregister,
     Incoming, Outgoing, PeerRead, PeerLeaves, Upgrade, sendVars
<1>5. CASE UNCHANGED vars
  BY <1>1, <1>5 DEF vars, sendVars
<1> QED BY <1>1, <1>2, <1>3, <1>4, <1>5 DEF Next, SendTask

\* Each step of the relay is a step of the outbox or none: a message is accepted
\* when it enters a queue, refused when its sender is told so, and delivered
\* when the task has written it; then it is the next of the accepted ones.
BoxInv == IInv /\ Traced /\ AcceptedOnce

LEMMA BoxStep == ASSUME BoxInv, [Next]_vars PROVE [Box!Next]_(Box!vars)
<1> DEFINE Off == {m \in Message : sendPc[m] = "offline"}
<1>0. /\ TypeOK /\ Greeted /\ Traced /\ AcceptedOnce
      /\ accepted = [x \in Conn |-> accepted[x]] /\ sent = [x \in Conn |-> sent[x]]
      /\ sendPc = [x \in Message |-> sendPc[x]] /\ pc = [x \in Conn |-> pc[x]]
      /\ hand = [x \in Conn |-> hand[x]]
      /\ \A x \in Conn : sent[x] \in Seq(Frames) /\ hand[x] \in Seq(Frames) /\ queue[x] \in Seq(Frames)
  BY DEF BoxInv, IInv, TypeOK, Frames
\* Nothing is accepted, delivered or refused.
<1>1. ASSUME UNCHANGED accepted, Delivered' = Delivered,
             \A m \in Message : sendPc'[m] = "offline" <=> sendPc[m] = "offline"
      PROVE  UNCHANGED (Box!vars)
  <2>1. {m \in Message : sendPc'[m] = "offline"} = Off
    BY <1>1
  <2> QED BY <1>1, <2>1 DEF Box!vars
<1>2. ASSUME NEW c \in Conn, Reject(c) \/ Welcome(c) PROVE UNCHANGED (Box!vars)
  <2>1. /\ UNCHANGED <<sendPc, accepted>> /\ sent[c] = <<>>
        /\ sent'[c] \in {<<>>, <<"error">>, <<"welcome">>}
        /\ \A x \in Conn \ {c} : sent'[x] = sent[x]
    <3>1. /\ UNCHANGED <<sendPc, accepted>>
          /\ sent'[c] \in {sent[c], Append(sent[c], "error"), Append(sent[c], "welcome")}
          /\ \A x \in Conn \ {c} : sent'[x] = sent[x]
          /\ pc[c] \in {"rejecting", "welcoming"}
      BY <1>0, <1>2 DEF Reject, Welcome, sendVars
    <3>2. sent[c] = <<>>
      BY <1>0, <3>1 DEF Greeted, Shape, Early
    <3>3. Append(<<>>, "error") = <<"error">> /\ Append(<<>>, "welcome") = <<"welcome">>
      OBVIOUS
    <3> QED BY <3>1, <3>2, <3>3
  <2>2. Tail(<<"welcome">>) = <<>> /\ <<"error">>[1] = "error"
    OBVIOUS
  <2>3. \A x \in Conn : DeliveredOf(sent'[x]) = DeliveredOf(sent[x])
    BY <2>1, <2>2 DEF DeliveredOf
  <2>4. Delivered' = Delivered
    BY <2>3 DEF Delivered, DeliveredOf
  <2> QED BY <1>1, <2>1, <2>4
<1>3. ASSUME NEW c \in Conn, Written(c) PROVE Box!Deliver(c)
  <2>1. /\ pc[c] = "writing" /\ sent' = [sent EXCEPT ![c] = sent[c] \o hand[c]]
        /\ UNCHANGED <<sendPc, accepted>>
    BY <1>3 DEF Written, sendVars
  <2>2. Delivered[c] \in Seq(Frames)
    <3>1. sent[c] # <<>> => Tail(sent[c]) \in Seq(Frames)
      BY <1>0
    <3> QED BY <3>1, EmptySeq DEF Delivered
  <2>3. DeliveredOf(sent'[c]) = Delivered[c] \o hand[c]
    <3>1. sent[c] # <<>> /\ 1 \in DOMAIN sent[c] /\ sent[c][1] # "error"
      BY <1>0, <2>1 DEF Greeted, Shape, Serving
    <3>2. Tail(sent[c] \o hand[c]) = Tail(sent[c]) \o hand[c] /\ (sent[c] \o hand[c])[1] = sent[c][1]
          /\ sent[c] \o hand[c] # <<>>
      BY <1>0, <3>1, TailConcat
    <3>3. sent'[c] = sent[c] \o hand[c]
      BY <1>0, <2>1
    <3> QED BY <3>1, <3>2, <3>3 DEF DeliveredOf, Delivered
  <2>4. accepted[c] = Delivered[c] \o (hand[c] \o queue[c]) /\ Len(hand[c]) = 1
    BY <1>0, <2>1 DEF Traced, Trace, Serving
  <2>5. PICK d \in Seq(Frames), h \in Seq(Frames), q \in Seq(Frames) :
           d = Delivered[c] /\ h = hand[c] /\ q = queue[c]
    BY <1>0, <2>2
  <2>6. /\ Len(d) + 1 \in DOMAIN Line(d, h, q)
        /\ d \o h = Added(d, Line(d, h, q)[Len(d) + 1])
    <3>1. Len(h) = 1
      BY <2>4, <2>5
    <3> QED BY <3>1, NextIsInHand
  <2>7. Delivered' = [Delivered EXCEPT ![c] = d \o h]
    <3>1. \A x \in Conn \ {c} : sent'[x] = sent[x]
      BY <1>0, <2>1
    <3>2. \A x \in Conn : Delivered'[x] = IF x = c THEN d \o h ELSE Delivered[x]
      BY <2>3, <2>5, <3>1 DEF Delivered, DeliveredOf
    <3>3. Delivered' = [x \in Conn |-> Delivered'[x]] /\ Delivered = [x \in Conn |-> Delivered[x]]
      BY DEF Delivered
    <3> QED BY <3>2, <3>3
  <2>8. {m \in Message : sendPc'[m] = "offline"} = Off
    BY <2>1
  <2>9. /\ Len(d) + 1 \in DOMAIN accepted[c]
        /\ d \o h = Append(d, accepted[c][Len(d) + 1])
    BY <2>4, <2>5, <2>6 DEF Line, Added
  <2> QED BY <2>1, <2>5, <2>7, <2>8, <2>9 DEF Box!Deliver
<1>4. ASSUME NEW m \in Message, Enqueue(m) PROVE [Box!Next]_(Box!vars)
  <2>1. PICK c : c = target[m]
    OBVIOUS
  <2>2. /\ accepted' = [accepted EXCEPT ![c] = Append(accepted[c], m)]
        /\ sendPc[m] = "waiting" /\ sendPc' = [sendPc EXCEPT ![m] = "ok"]
        /\ sent' = sent
    BY <1>4, <2>1 DEF Enqueue, connVars
  <2>3. Delivered' = Delivered
    BY <2>2 DEF Delivered
  <2>4. \A x \in Message : sendPc'[x] = "offline" <=> sendPc[x] = "offline"
    BY <1>0, <2>2
  <2>5. {x \in Message : sendPc'[x] = "offline"} = Off
    BY <2>4
  <2>6. CASE c \in Conn
    <3>1. m \notin Off /\ \A x \in Conn : \A i \in DOMAIN accepted[x] : accepted[x][i] # m
      BY <1>0, <2>2 DEF AcceptedOnce, Holds
    <3>2. Box!Accept(m, c)
      BY <2>2, <2>3, <2>5, <3>1 DEF Box!Accept, Box!Undecided
    <3> QED BY <2>6, <3>2 DEF Box!Next
  <2>7. CASE c \notin Conn
    <3>1. accepted' = accepted
      BY <1>0, <2>2, <2>7
    <3> QED BY <1>1, <2>3, <2>4, <3>1
  <2> QED BY <2>6, <2>7
<1>5. ASSUME NEW m \in Message, GiveBack(m) \/ (\E n \in Name : Lookup(m, n))
      PROVE  [Box!Next]_(Box!vars)
  <2>1. /\ sendPc[m] \in {"waiting", "idle"} /\ UNCHANGED <<sent, accepted>>
        /\ \A x \in Message \ {m} : sendPc'[x] = sendPc[x]
    BY <1>0, <1>5 DEF GiveBack, Lookup, connVars
  <2>2. Delivered' = Delivered
    BY <2>1 DEF Delivered
  <2>3. CASE sendPc'[m] = "offline"
    <3>1. m \notin Off /\ \A x \in Conn : \A i \in DOMAIN accepted[x] : accepted[x][i] # m
      BY <1>0, <2>1 DEF AcceptedOnce, Holds
    <3>2. {x \in Message : sendPc'[x] = "offline"} = Off \cup {m}
      BY <2>1, <2>3
    <3>3. Box!Refuse(m)
      BY <2>1, <2>2, <3>1, <3>2 DEF Box!Refuse, Box!Undecided
    <3> QED BY <3>3 DEF Box!Next
  <2>4. CASE sendPc'[m] # "offline"
    <3>1. \A x \in Message : sendPc'[x] = "offline" <=> sendPc[x] = "offline"
      BY <2>1, <2>4
    <3> QED BY <1>1, <2>1, <2>2, <3>1
  <2> QED BY <2>3, <2>4
<1>6. ASSUME NEW c \in Conn, \/ BadHello(c) \/ Register(c) \/ FrameDone(c) \/ Broken(c) \/ Unregister(c)
                             \/ Incoming(c) \/ Outgoing(c) \/ PeerRead(c) \/ PeerLeaves(c)
                             \/ \E n \in Name : Upgrade(c, n)
      PROVE  UNCHANGED <<sent, accepted, sendPc>>
  BY <1>6 DEF BadHello, Register, FrameDone, Broken, Unregister, Incoming, Outgoing, PeerRead, PeerLeaves,
     Upgrade, connVars, sendVars
<1>7. CASE UNCHANGED <<sent, accepted, sendPc>>
  <2>1. Delivered' = Delivered
    BY <1>7 DEF Delivered
  <2> QED BY <1>1, <1>7, <2>1
<1>8. CASE UNCHANGED vars
  BY <1>7, <1>8 DEF vars, connVars, sendVars
<1>9. ASSUME NEW c \in Conn, Written(c) PROVE Box!Next
  BY <1>3, <1>9 DEF Box!Next
<1> QED BY <1>2, <1>4, <1>5, <1>6, <1>7, <1>8, <1>9 DEF Next, ConnTask, SendTask

\* What the relay does with messages is what the outbox promises: every message
\* is accepted by one connection or refused, and the socket of a connection
\* carries a prefix of what it accepted, in that order and each once
\* (hub.rs:34-48, agent_ws.rs:115-135).
THEOREM OutboxImplemented == Spec => ImplementsOutbox
<1>1. Init => Traced /\ AcceptedOnce /\ Box!Init
  <2> SUFFICES ASSUME Init PROVE Traced /\ AcceptedOnce /\ Box!Init
    OBVIOUS
  <2>1. Delivered = [c \in Conn |-> <<>>]
    BY DEF Init, Delivered
  <2>2. Traced
    BY <2>1 DEF Init, Traced, Trace, Early, Serving
  <2>3. {m \in Message : sendPc[m] = "offline"} = {}
    BY DEF Init
  <2>4. AcceptedOnce
    BY HoldsEmpty DEF Init, AcceptedOnce
  <2> QED BY <2>1, <2>2, <2>3, <2>4 DEF Init, Box!Init
<1>2. BoxInv /\ [Next]_vars => BoxInv'
  BY TypeStep, NameStep, HoldStep, GreetStep, TraceStep, OnceStep DEF BoxInv, IInv
<1>3. Init => BoxInv
  BY <1>1, InitInv DEF BoxInv
<1>4. BoxInv /\ [Next]_vars => [Box!Next]_(Box!vars)
  BY BoxStep
<1> QED BY <1>1, <1>2, <1>3, <1>4, PTL DEF Spec, ImplementsOutbox, Box!Spec
-----------------------------------------------------------------------------
(* What the socket carries, also after the task has stopped serving.        *)

\* After the greeting, w carries the first of a, in that order.
Carries(w, a) == \A i \in DOMAIN w : i > 1 => i - 1 \in DOMAIN a /\ w[i] = a[i - 1]
Joined(w, h) == w \o h
SocketInv == \A c \in Conn : Carries(sent[c], accepted[c])

\* Every message on a socket was accepted by that very connection, at its place,
\* and its sender was told so.
SocketIsAccepted ==
  \A c \in Conn : \A i \in DOMAIN sent[c] :
    i > 1 => /\ i - 1 \in DOMAIN accepted[c] /\ sent[c][i] = accepted[c][i - 1]
             /\ sendPc[sent[c][i]] = "ok"

LEMMA WriteCarries ==
  ASSUME NEW S, NEW w \in Seq(S), w # <<>>, NEW h \in Seq(S), NEW q \in Seq(S),
         NEW d \in Seq(S), d = Tail(w), NEW a, a = Line(d, h, q)
  PROVE  Carries(Joined(w, h), a)
<1> DEFINE j == w \o h
<1>1. /\ Len(w) \in Nat /\ Len(h) \in Nat /\ Len(q) \in Nat /\ Len(w) > 0 /\ Len(d) = Len(w) - 1
      /\ \A i \in 1..Len(d) : d[i] = w[i + 1]
  <2>1. Len(w) \in Nat /\ Len(h) \in Nat /\ Len(q) \in Nat /\ Len(w) > 0
    OBVIOUS
  <2>2. Len(d) = Len(w) - 1 /\ \A i \in 1..Len(d) : d[i] = w[i + 1]
    OBVIOUS
  <2> QED BY <2>1, <2>2
<1>2. /\ DOMAIN j = 1..(Len(w) + Len(h))
      /\ \A i \in 1..(Len(w) + Len(h)) : j[i] = IF i <= Len(w) THEN w[i] ELSE h[i - Len(w)]
  OBVIOUS
<1>3. PICK r \in Seq(S) : r = h \o q
  <2>1. h \o q \in Seq(S)
    OBVIOUS
  <2> QED BY <2>1
<1>4. Len(r) = Len(h) + Len(q) /\ \A i \in 1..Len(h) : r[i] = h[i]
  BY <1>1, <1>3
<1>5. /\ DOMAIN (d \o r) = 1..(Len(d) + Len(r))
      /\ \A i \in 1..(Len(d) + Len(r)) : (d \o r)[i] = IF i <= Len(d) THEN d[i] ELSE r[i - Len(d)]
  OBVIOUS
<1>6. a = d \o r
  BY <1>3 DEF Line
<1> HIDE DEF j
<1>7. ASSUME NEW i \in DOMAIN j, i > 1 PROVE i - 1 \in DOMAIN a /\ j[i] = a[i - 1]
  <2>0. i \in 1..(Len(w) + Len(h)) /\ i - 1 \in 1..(Len(d) + Len(r))
    BY <1>1, <1>2, <1>4, <1>7
  <2>1. i - 1 \in DOMAIN a /\ a[i - 1] = IF i - 1 <= Len(d) THEN d[i - 1] ELSE r[(i - 1) - Len(d)]
    BY <1>5, <1>6, <2>0
  <2>2. CASE i <= Len(w)
    <3>1. i - 1 \in 1..Len(d) /\ i - 1 <= Len(d)
      BY <1>1, <2>0, <1>7, <2>2
    <3>2. d[i - 1] = w[(i - 1) + 1]
      BY <1>1, <3>1
    <3>3. (i - 1) + 1 = i
      BY <2>0
    <3> QED BY <1>2, <2>0, <2>1, <2>2, <3>1, <3>2, <3>3
  <2>3. CASE i > Len(w)
    <3>1. (i - 1) - Len(d) = i - Len(w) /\ i - Len(w) \in 1..Len(h) /\ ~(i - 1 <= Len(d)) /\ ~(i <= Len(w))
      BY <1>1, <2>0, <2>3
    <3>2. r[i - Len(w)] = h[i - Len(w)] /\ j[i] = h[i - Len(w)]
      BY <1>2, <1>4, <2>0, <3>1
    <3> QED BY <2>1, <3>1, <3>2
  <2> QED BY <1>1, <2>0, <2>2, <2>3
<1> QED BY <1>7 DEF Carries, Joined, j

LEMMA AcceptCarries ==
  ASSUME NEW S, NEW w \in Seq(S), NEW a \in Seq(S), NEW m \in S, Carries(w, a), NEW b, b = Added(a, m)
  PROVE  Carries(w, b)
<1>1. DOMAIN a \subseteq DOMAIN b /\ \A i \in DOMAIN a : b[i] = a[i]
  BY DEF Added
<1> QED BY <1>1 DEF Carries

LEMMA SocketStep == ASSUME BoxInv, SocketInv, [Next]_vars PROVE SocketInv'
<1>0. /\ TypeOK /\ Greeted /\ Traced
      /\ accepted = [x \in Conn |-> accepted[x]] /\ sent = [x \in Conn |-> sent[x]]
      /\ \A x \in Conn : /\ sent[x] \in Seq(Frames) /\ hand[x] \in Seq(Frames) /\ queue[x] \in Seq(Frames)
                         /\ accepted[x] \in Seq(Frames)
  BY DEF BoxInv, IInv, TypeOK, Frames
\* Only the socket and the accepted messages of c may move.
<1>1. ASSUME NEW c \in Conn, Carries(sent'[c], accepted'[c]),
             \A x \in Conn \ {c} : sent'[x] = sent[x] /\ accepted'[x] = accepted[x]
      PROVE  SocketInv'
  <2>1. ASSUME NEW x \in Conn PROVE Carries(sent'[x], accepted'[x])
    BY <1>1 DEF SocketInv
  <2> QED BY <2>1 DEF SocketInv, Carries
<1>2. ASSUME NEW c \in Conn, Reject(c) \/ Welcome(c) PROVE SocketInv'
  <2>1. /\ UNCHANGED accepted
        /\ sent'[c] \in {sent[c], Append(sent[c], "error"), Append(sent[c], "welcome")}
        /\ \A x \in Conn \ {c} : sent'[x] = sent[x]
        /\ pc[c] \in {"rejecting", "welcoming"}
    BY <1>0, <1>2 DEF Reject, Welcome, sendVars
  <2>2. sent[c] = <<>>
    BY <1>0, <2>1 DEF Greeted, Shape, Early
  <2>3. \A i \in DOMAIN sent'[c] : i = 1
    BY <2>1, <2>2
  <2>4. Carries(sent'[c], accepted'[c])
    BY <2>3 DEF Carries
  <2> QED BY <1>1, <2>1, <2>4
<1>3. ASSUME NEW c \in Conn, Written(c) PROVE SocketInv'
  <2>1. /\ pc[c] = "writing" /\ sent'[c] = sent[c] \o hand[c] /\ UNCHANGED accepted
        /\ \A x \in Conn \ {c} : sent'[x] = sent[x]
    BY <1>0, <1>3 DEF Written, sendVars
  <2>2. sent[c] # <<>> /\ sent[c][1] # "error"
    <3>1. sent[c] # <<>> /\ \A i \in DOMAIN sent[c] : sent[c][i] # "error"
      BY <1>0, <2>1 DEF Greeted, Shape, Serving
    <3>2. 1 \in DOMAIN sent[c]
      BY <1>0, <3>1
    <3> QED BY <3>1, <3>2
  <2>3. accepted[c] = Delivered[c] \o (hand[c] \o queue[c]) /\ Delivered[c] = Tail(sent[c])
    BY <1>0, <2>1, <2>2 DEF Traced, Trace, Serving, Delivered
  <2>4. PICK w \in Seq(Frames), h \in Seq(Frames), q \in Seq(Frames), a \in Seq(Frames) :
           w = sent[c] /\ h = hand[c] /\ q = queue[c] /\ a = accepted[c]
    BY <1>0
  <2>5. PICK d \in Seq(Frames) : d = Tail(w)
    <3>1. w # <<>> /\ w \in Seq(Frames)
      BY <2>2, <2>4
    <3>2. Tail(w) \in Seq(Frames)
      BY <3>1
    <3> QED BY <3>2
  <2>6. a = Line(d, h, q)
    BY <2>3, <2>4, <2>5 DEF Line
  <2>7. Carries(Joined(w, h), a)
    BY <2>2, <2>4, <2>5, <2>6, WriteCarries
  <2>8. Carries(sent'[c], accepted'[c])
    BY <2>1, <2>4, <2>7 DEF Joined
  <2> QED BY <1>1, <2>1, <2>8
<1>4. ASSUME NEW m \in Message, Enqueue(m) PROVE SocketInv'
  <2>1. PICK c : c = target[m]
    OBVIOUS
  <2>2. accepted' = [accepted EXCEPT ![c] = Append(accepted[c], m)] /\ sent' = sent
    BY <1>4, <2>1 DEF Enqueue, connVars
  <2>3. CASE c \in Conn
    <3>1. PICK w \in Seq(Frames), a \in Seq(Frames) : w = sent[c] /\ a = accepted[c]
      BY <1>0, <2>3
    <3>2. PICK b : b = Added(a, m)
      OBVIOUS
    <3>3. m \in Frames /\ Carries(w, a)
      BY <2>3, <3>1 DEF Frames, SocketInv
    <3>4. Carries(w, b)
      BY <3>2, <3>3, AcceptCarries
    <3>5. accepted'[c] = b /\ sent'[c] = w /\ \A x \in Conn \ {c} : accepted'[x] = accepted[x]
      BY <1>0, <2>2, <2>3, <3>1, <3>2 DEF Added
    <3> QED BY <1>1, <2>2, <2>3, <3>4, <3>5
  <2>4. CASE c \notin Conn
    <3>1. accepted' = accepted
      BY <1>0, <2>2, <2>4
    <3> QED BY <2>2, <3>1 DEF SocketInv, Carries
  <2> QED BY <2>3, <2>4
<1>5. ASSUME NEW c \in Conn, \/ BadHello(c) \/ Register(c) \/ FrameDone(c) \/ Broken(c) \/ Unregister(c)
                             \/ Incoming(c) \/ Outgoing(c) \/ PeerRead(c) \/ PeerLeaves(c)
                             \/ \E n \in Name : Upgrade(c, n)
      PROVE  UNCHANGED <<sent, accepted>>
  BY <1>5 DEF BadHello, Register, FrameDone, Broken, Unregister, Incoming, Outgoing, PeerRead, PeerLeaves,
     Upgrade, connVars, sendVars
<1>6. ASSUME NEW m \in Message, GiveBack(m) \/ (\E n \in Name : Lookup(m, n))
      PROVE  UNCHANGED <<sent, accepted>>
  BY <1>6 DEF GiveBack, Lookup, connVars
<1>7. CASE UNCHANGED <<sent, accepted>>
  BY <1>7 DEF SocketInv, Carries
<1>8. CASE UNCHANGED vars
  BY <1>7, <1>8 DEF vars, connVars, sendVars
<1> QED BY <1>2, <1>3, <1>4, <1>5, <1>6, <1>7, <1>8 DEF Next, ConnTask, SendTask

LEMMA BoxAlways == Spec => [](BoxInv /\ SocketInv)
<1>1. Init => Traced /\ AcceptedOnce /\ SocketInv
  BY HoldsEmpty DEF Init, Traced, Trace, Early, Serving, Delivered, AcceptedOnce, SocketInv, Carries
<1>2. Init => BoxInv /\ SocketInv
  BY <1>1, InitInv DEF BoxInv
<1>3. BoxInv /\ SocketInv /\ [Next]_vars => BoxInv' /\ SocketInv'
  BY TypeStep, NameStep, HoldStep, GreetStep, TraceStep, OnceStep, SocketStep DEF BoxInv, IInv
<1> QED BY <1>2, <1>3, PTL DEF Spec

\* Also when the task has stopped serving and dropped its queue: what the socket
\* carries after the greeting are the first of the messages the connection
\* accepted, in their order, and their senders were told "ok" (hub.rs:34-48,
\* agent_ws.rs:115-135).
THEOREM SocketsCarryAccepted == Spec => []SocketIsAccepted
<1>1. BoxInv /\ SocketInv => SocketIsAccepted
  <2> SUFFICES ASSUME BoxInv, SocketInv, NEW c \in Conn, NEW i \in DOMAIN sent[c], i > 1
               PROVE  /\ i - 1 \in DOMAIN accepted[c] /\ sent[c][i] = accepted[c][i - 1]
                      /\ sendPc[sent[c][i]] = "ok"
    BY DEF SocketIsAccepted
  <2>1. i - 1 \in DOMAIN accepted[c] /\ sent[c][i] = accepted[c][i - 1]
    BY DEF SocketInv, Carries
  <2>2. accepted[c] \in Seq(Message)
    BY DEF BoxInv, IInv, TypeOK
  <2>3. accepted[c][i - 1] \in Message /\ Holds(accepted[c], accepted[c][i - 1])
    BY <2>1, <2>2 DEF Holds
  <2> QED BY <2>1, <2>3 DEF BoxInv, AcceptedOnce
<1> QED BY <1>1, BoxAlways, PTL
-----------------------------------------------------------------------------
\* No peer reads what was not written.
ReadIsWritten == \A c \in Conn : read[c] <= Len(sent[c])

LEMMA ReadStep == ASSUME TypeOK, ReadIsWritten, [Next]_vars PROVE ReadIsWritten'
<1>0. /\ sent = [x \in Conn |-> sent[x]] /\ read = [x \in Conn |-> read[x]]
      /\ \A x \in Conn : /\ sent[x] \in Seq(Frames) /\ hand[x] \in Seq(Frames)
                         /\ read[x] \in Nat /\ read[x] <= Len(sent[x])
  BY DEF TypeOK, Frames, ReadIsWritten
<1>1. \A w, h \in Seq(Frames) : Len(w \o h) >= Len(w) /\ Len(w) \in Nat
  OBVIOUS
<1>2. \A w \in Seq(Frames) : Len(Append(w, "error")) >= Len(w) /\ Len(Append(w, "welcome")) >= Len(w)
  OBVIOUS
<1>3. ASSUME NEW c \in Conn, Reject(c) \/ Welcome(c) \/ Written(c) PROVE ReadIsWritten'
  <2>1. /\ sent'[c] \in {sent[c], Append(sent[c], "error"), Append(sent[c], "welcome"), sent[c] \o hand[c]}
        /\ \A x \in Conn \ {c} : sent'[x] = sent[x]
        /\ read' = read
    BY <1>0, <1>3 DEF Reject, Welcome, Written, peerVars
  <2>2. Len(sent'[c]) >= Len(sent[c])
    BY <1>0, <1>1, <1>2, <2>1
  <2>3. Len(sent'[c]) \in Nat
    BY <1>0, <2>1 DEF Frames
  <2>4. read[c] <= Len(sent'[c])
    BY <1>0, <1>1, <2>2, <2>3
  <2> QED BY <1>0, <2>1, <2>4 DEF ReadIsWritten
<1>4. ASSUME NEW c \in Conn, PeerRead(c) PROVE ReadIsWritten'
  <2>1. /\ Len(sent[c]) > read[c] /\ read'[c] = read[c] + 1 /\ sent' = sent
        /\ \A x \in Conn \ {c} : read'[x] = read[x]
    BY <1>0, <1>4 DEF PeerRead, InFlight, connVars
  <2>2. read'[c] <= Len(sent[c])
    BY <1>0, <1>1, <2>1
  <2> QED BY <1>0, <2>1, <2>2 DEF ReadIsWritten
<1>5. ASSUME NEW c \in Conn, \/ BadHello(c) \/ Register(c) \/ FrameDone(c) \/ Broken(c) \/ Unregister(c)
                             \/ Incoming(c) \/ Outgoing(c) \/ PeerLeaves(c)
                             \/ \E n \in Name : Upgrade(c, n)
      PROVE  UNCHANGED <<sent, read>>
  BY <1>5 DEF BadHello, Register, FrameDone, Broken, Unregister, Incoming, Outgoing, PeerLeaves, Upgrade,
     connVars, peerVars
<1>6. ASSUME NEW m \in Message, SendTask(m) \/ (\E n \in Name : Lookup(m, n))
      PROVE  UNCHANGED <<sent, read>>
  BY <1>6 DEF SendTask, Enqueue, GiveBack, Lookup, connVars, peerVars
<1>7. CASE UNCHANGED <<sent, read>>
  BY <1>7 DEF ReadIsWritten
<1>8. CASE UNCHANGED vars
  BY <1>7, <1>8 DEF vars, connVars, peerVars
<1> QED BY <1>3, <1>4, <1>5, <1>6, <1>7, <1>8 DEF Next, ConnTask

LEMMA ReadAlways == Spec => []ReadIsWritten
<1>1. Init => ReadIsWritten
  BY DEF Init, ReadIsWritten
<1>2. TypeOK /\ ReadIsWritten /\ [Next]_vars => ReadIsWritten'
  BY ReadStep
<1> QED BY <1>1, <1>2, TypeCorrect, PTL DEF Spec
=============================================================================
