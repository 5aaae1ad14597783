---------------------------- MODULE Relay_proofs ----------------------------
(***************************************************************************)
(* Proofs about Relay, for every number of users, sessions, channels,      *)
(* events, requests and deliveries, and every bound.                       *)
(***************************************************************************)
EXTENDS Relay, SequenceTheorems, FiniteSetTheorems, TLAPS

-----------------------------------------------------------------------------
(* Maps.                                                                    *)

\* Inserting into a map: its keys, its values, and that it is a map again.
LEMMA PutMap ==
  ASSUME NEW S, NEW T, NEW f, IsMap(f, S, T), NEW k \in S, NEW v \in T
  PROVE  /\ IsMap(Put(f, k, v), S, T)
         /\ DOMAIN Put(f, k, v) = DOMAIN f \cup {k}
         /\ Put(f, k, v)[k] = v
         /\ \A x \in DOMAIN f : x # k => Put(f, k, v)[x] = f[x]
BY DEF IsMap, Put

\* Restricting a map to some of its keys.
LEMMA RestrictMap ==
  ASSUME NEW S, NEW T, NEW f, IsMap(f, S, T), NEW K, K \subseteq DOMAIN f
  PROVE  /\ IsMap(Restrict(f, K), S, T)
         /\ DOMAIN Restrict(f, K) = K
         /\ \A x \in K : Restrict(f, K)[x] = f[x]
BY DEF IsMap, Restrict

\* Changing the value of a key.
LEMMA ExceptMap ==
  ASSUME NEW S, NEW T, NEW f, IsMap(f, S, T), NEW k \in DOMAIN f, NEW v \in T
  PROVE  IsMap([f EXCEPT ![k] = v], S, T)
BY DEF IsMap

\* The queue and the set of the de-duplication stay what they are.
LEMMA DedupeType ==
  ASSUME order \in Seq(EventId), seen \subseteq EventId, NEW e \in EventId
  PROVE  D!Pushed(e) \in Seq(EventId) /\ D!Remembered(e) \subseteq EventId
<1> DEFINE a == Append(order, e)
<1>1. a \in Seq(EventId) /\ a # <<>>
  BY AppendProperties
<1>2. Tail(a) \in Seq(EventId)
  <2> HIDE DEF a
  <2> QED BY <1>1
<1> QED BY <1>1, <1>2 DEF D!Pushed, D!Remembered

\* The empty map.
LEMMA EmptyMap ==
  ASSUME NEW S, NEW T
  PROVE  IsMap(Empty, S, T) /\ DOMAIN Empty = {}
BY DEF IsMap, Empty

\* What the sweep keeps: entries of the table no older than Ttl, unchanged.
LEMMA SweepMap ==
  ASSUME IsMap(pending, RequestId, Pending), NEW t \in Nat
  PROVE  LET p == Sweep(pending, t)
         IN  /\ IsMap(p, RequestId, Pending)
             /\ DOMAIN p \subseteq DOMAIN pending
             /\ \A id \in DOMAIN p : p[id] = pending[id] /\ t - p[id].created <= Ttl
<1> DEFINE K == {id \in DOMAIN pending : t - pending[id].created <= Ttl}
<1>1. K \subseteq DOMAIN pending
  OBVIOUS
<1>2. /\ IsMap(Restrict(pending, K), RequestId, Pending)
      /\ DOMAIN Restrict(pending, K) = K
      /\ \A x \in K : Restrict(pending, K)[x] = pending[x]
  BY <1>1, RestrictMap
<1>3. Sweep(pending, t) = Restrict(pending, K)
  BY DEF Sweep
<1> QED BY <1>1, <1>2, <1>3
-----------------------------------------------------------------------------
(* The inductive invariant, by the tables it is about.                      *)

\* The places of a handler that has cloned a binding.
Past == {"match", "consume", "send", "waiting", "notice",
         "verdictSent", "inboundSent", "noticed", "noticeFailed"}

\* A binding is what its thread was bound to from the start; a root that is
\* not bound yet belongs to one picker and to no owner.
PickInv ==
  /\ \A p \in PickId : pickPc[p] # "idle" => p \in DOMAIN pick
  /\ \A c \in DOMAIN bindings : c \in DOMAIN owner /\ bindings[c] = owner[c]
  /\ \A c \in DOMAIN owner : c[2] < nextTs
  /\ \A p \in PickId : pickPc[p] = "posted" =>
       pick[p].chat[2] < nextTs /\ pick[p].chat \notin DOMAIN owner
  /\ \A p, q \in PickId : pickPc[p] = "posted" /\ pickPc[q] = "posted" /\ p # q =>
       pick[p].chat # pick[q].chat

\* A cloned binding is the one its thread was bound to, and was cloned for an
\* authorised user.
TaskInv ==
  /\ \A d \in Delivery : pc[d] \notin {"idle", "duplicate", "ignored"} => d[1] \in DOMAIN msg
  /\ \A d \in Delivery : pc[d] \in Past => d \in DOMAIN snap
  /\ \A d \in DOMAIN snap :
       /\ pc[d] \in Past /\ msg[d[1]].user \in Authorised
       /\ msg[d[1]].chat \in DOMAIN owner /\ snap[d] = owner[msg[d[1]].chat]
  /\ \A d \in Delivery : pc[d] = "consume" => d \in DOMAIN hit
  /\ \A d \in DOMAIN hit : d \in DOMAIN snap /\ pc[d] # "match"

\* An entry of the table is the call it was recorded for.
AskInv ==
  /\ \A s \in Session : askPc[s] # "idle" =>
       s \in DOMAIN ask /\ ask[s] \in DOMAIN call /\ call[ask[s]].session = s
  /\ \A id \in DOMAIN pending :
       LET r == pending[id]
       IN  /\ r.call \in DOMAIN call /\ call[r.call].session = r.session
           /\ call[r.call].id = id /\ call[r.call].at = r.created

\* A matched request is a call of the session the thread is bound to, and the
\* reply that matched it was written by the user who bound the thread.
HitInv ==
  \A d \in DOMAIN hit :
    /\ hit[d].call \in DOMAIN call
    /\ call[hit[d].call].id = hit[d].id
    /\ call[hit[d].call].session = snap[d].session
    /\ msg[d[1]].parse = <<hit[d].id, hit[d].behavior>>
    /\ msg[d[1]].user = snap[d].user
    /\ hit[d].at - call[hit[d].call].at <= Ttl

\* A call that waits for its locks is neither in the table nor matched.
CallFresh ==
  \A s \in Session : askPc[s] = "entered" =>
    /\ \A id \in DOMAIN pending : pending[id].call # ask[s]
    /\ \A d \in DOMAIN hit : hit[d].call # ask[s]

\* No call is from the future; a prompt that was posted, or is being posted,
\* is open, and a session is done with the calls whose prompts were posted.
OpenInv ==
  /\ \A c \in DOMAIN call : call[c].at <= now
  /\ \A s \in Session : askPc[s] = "posting" => Open(ask[s])
  /\ \A c \in prompted :
       /\ c \in DOMAIN call /\ Open(c)
       /\ \A s \in Session : askPc[s] # "idle" => ask[s] # c

\* Two live calls under one id have met.
MetInv ==
  \A c, o \in DOMAIN call :
    c # o /\ call[c].id = call[o].id /\ Live(c) /\ Live(o) => {c, o} \subseteq met

IInv == /\ TypeOK /\ PickInv /\ TaskInv /\ AskInv /\ HitInv
        /\ AnsweredIsGone /\ CallFresh /\ OpenInv /\ MetInv
-----------------------------------------------------------------------------
LEMMA InitInv == Init => IInv
<1> SUFFICES ASSUME Init PROVE IInv
  OBVIOUS
<1>1. \A S, T : IsMap(Empty, S, T) /\ DOMAIN Empty = {}
  BY EmptyMap
<1>2. TypeOK
  BY <1>1, EmptySeq, TimeAssumption, LoadedAssumption DEF Init, TypeOK, Pc, Ended
<1>3. PickInv
  BY <1>1, LoadedAssumption DEF Init, PickInv
<1>4. TaskInv /\ HitInv
  BY <1>1 DEF Init, TaskInv, HitInv, Past
<1>5. AskInv /\ AnsweredIsGone /\ CallFresh /\ OpenInv /\ MetInv
  BY <1>1 DEF Init, AskInv, AnsweredIsGone, CallFresh, OpenInv, MetInv
<1> QED BY <1>2, <1>3, <1>4, <1>5 DEF IInv

\* Types are kept by every step.
LEMMA TypeStep == ASSUME IInv, [Next]_vars PROVE TypeOK'
<1> USE DEF IInv, TypeOK, Pc, Ended
<1>1. CASE Tick
  BY <1>1 DEF Tick, taskVars, pickVars, askVars
<1>2. ASSUME NEW s \in Session, Connect(s) PROVE TypeOK'
  BY <1>2 DEF Connect, taskVars, pickVars, askVars
<1>3. ASSUME NEW s \in Session, Disconnect(s) PROVE TypeOK'
  <2>1. pc' \in [Delivery -> Pc]
    BY <1>3 DEF Disconnect, GivenBack
  <2> QED BY <1>3, <2>1 DEF Disconnect, pickVars, askVars
<1>4. ASSUME NEW p \in PickId, NEW u \in User, NEW s \in Session, NEW ch \in Channel, Pick(p, u, s, ch)
      PROVE  TypeOK'
  <2>1. [user |-> u, session |-> s, chat |-> <<ch, 0>>] \in [user : User, session : Session, chat : Chat]
    BY DEF Chat
  <2>2. IsMap(pick', PickId, [user : User, session : Session, chat : Chat])
    BY <1>4, <2>1, PutMap DEF Pick
  <2> QED BY <1>4, <2>2 DEF Pick, taskVars, askVars
<1>5. ASSUME NEW p \in PickId, RootPosted(p) PROVE TypeOK'
  <2>1. p \in DOMAIN pick /\ pick[p] \in [user : User, session : Session, chat : Chat]
    BY <1>5 DEF RootPosted, PickInv, IsMap
  <2>2. IsMap(pick', PickId, [user : User, session : Session, chat : Chat])
    <3> DEFINE v == [pick[p] EXCEPT !.chat = <<pick[p].chat[1], nextTs>>]
    <3>1. v \in [user : User, session : Session, chat : Chat]
      BY <2>1 DEF Chat
    <3>2. pick' = [pick EXCEPT ![p] = v]
      BY <1>5 DEF RootPosted
    <3> QED BY <2>1, <3>1, <3>2, ExceptMap
  <2> QED BY <1>5, <2>2 DEF RootPosted, taskVars, askVars
<1>6. ASSUME NEW p \in PickId, RootFails(p) PROVE TypeOK'
  BY <1>6 DEF RootFails, taskVars, askVars
<1>7. ASSUME NEW p \in PickId, Bind(p) PROVE TypeOK'
  <2> DEFINE b == [session |-> pick[p].session, user |-> pick[p].user, created |-> now]
  <2>1. pick[p].chat \in Chat /\ b \in Binding
    BY <1>7 DEF Bind, PickInv, IsMap, Binding
  <2>2. IsMap(bindings', Chat, Binding) /\ IsMap(owner', Chat, Binding)
    <3>1. bindings' = Put(bindings, pick[p].chat, b) /\ owner' = Put(owner, pick[p].chat, b)
      BY <1>7 DEF Bind
    <3>2. IsMap(bindings, Chat, Binding) /\ IsMap(owner, Chat, Binding)
      OBVIOUS
    <3> HIDE DEF b, IInv, TypeOK
    <3> QED BY <2>1, <3>1, <3>2, PutMap
  <2> QED BY <1>7, <2>2 DEF Bind, taskVars, askVars
<1>8. ASSUME NEW u \in User, NEW ch \in Channel, Unbind(u, ch) PROVE TypeOK'
  <2>1. IsMap(bindings', Chat, Binding)
    BY <1>8, RestrictMap DEF Unbind, Retained
  <2>2. released' \subseteq Chat
    BY <1>8 DEF Unbind, IsMap
  <2> QED BY <1>8, <2>1, <2>2 DEF Unbind, taskVars, pickVars, askVars
<1>9. ASSUME NEW e \in EventId, NEW u \in User, NEW c \in Visible,
             NEW v \in {<<>>} \cup (RequestId \X Behavior), Post(e, u, c, v)
      PROVE  TypeOK'
  <2>1. c \in Chat
    BY LoadedAssumption DEF Visible, IsMap, PickInv
  <2>2. [user |-> u, chat |-> c, parse |-> v, late |-> c \in released] \in Msg
    BY <2>1 DEF Msg
  <2>3. IsMap(msg', EventId, Msg)
    <3> DEFINE m == [user |-> u, chat |-> c, parse |-> v, late |-> c \in released]
    <3>1. msg' = Put(msg, e, m) /\ IsMap(msg, EventId, Msg)
      BY <1>9 DEF Post
    <3>2. m \in Msg
      BY <2>2
    <3> HIDE DEF m
    <3> QED BY ONLY <3>1, <3>2, PutMap
  <2>4. UNCHANGED <<now, bindings, pending, online, full, released, unbinds, order, seen, pc, snap, hit, pickVars, askVars>>
    BY <1>9 DEF Post
  <2> QED BY <2>3, <2>4 DEF pickVars, askVars
<1>10. ASSUME NEW d \in Delivery, Deliver(d) PROVE TypeOK'
  <2>1. d[1] \in EventId
    BY DEF Delivery
  <2>2. order' \in Seq(EventId) /\ seen' \subseteq EventId
    BY <1>10, <2>1, DedupeType DEF Deliver
  <2>3. pc' \in [Delivery -> Pc]
    BY <1>10 DEF Deliver, Pc, Ended
  <2> QED BY <1>10, <2>2, <2>3 DEF Deliver, pickVars, askVars
<1>11. ASSUME NEW d \in Delivery, Lookup(d) PROVE TypeOK'
  <2>1. CASE UNCHANGED snap
    BY <1>11, <2>1 DEF Lookup, pickVars, askVars
  <2>2. CASE msg[d[1]].chat \in DOMAIN bindings /\ snap' = Put(snap, d, bindings[msg[d[1]].chat])
    <3>1. IsMap(snap', Delivery, Binding)
      <4>1. bindings[msg[d[1]].chat] \in Binding
        BY <2>2 DEF IsMap
      <4> QED BY <2>2, <4>1, PutMap
    <3> QED BY <1>11, <3>1 DEF Lookup, pickVars, askVars
  <2> QED BY <1>11, <2>1, <2>2 DEF Lookup
<1>12. ASSUME NEW d \in Delivery, Match(d) PROVE TypeOK'
  <2> DEFINE p == Sweep(pending, now)
             m == msg[d[1]]
  <2>1. IsMap(p, RequestId, Pending)
    BY SweepMap
  <2>2. CASE Answers(m, snap[d], p) /\ hit' = Put(hit, d, MatchedRequest(m, p))
    <3>1. m \in Msg
      BY <1>12 DEF Match, TaskInv, IsMap
    <3>2. MatchedRequest(m, p) \in Hit
      BY <2>1, <2>2, <3>1 DEF Answers, MatchedRequest, Hit, Msg, Pending, IsMap
    <3>3. IsMap(hit', Delivery, Hit)
      BY <2>2, <3>2, PutMap
    <3> QED BY <1>12, <2>1, <3>3 DEF Match, pickVars, askVars
  <2>3. CASE UNCHANGED hit
    BY <1>12, <2>1, <2>3 DEF Match, pickVars, askVars
  <2> QED BY <1>12, <2>2, <2>3 DEF Match
<1>13. ASSUME NEW d \in Delivery, Consume(d) PROVE TypeOK'
  <2>1. IsMap(pending', RequestId, Pending)
    BY <1>13, RestrictMap DEF Consume, Consumed, Remove
  <2> QED BY <1>13, <2>1 DEF Consume, pickVars, askVars
<1>14. ASSUME NEW d \in Delivery, Send(d) PROVE TypeOK'
  BY <1>14 DEF Send, SendOutcome, pickVars, askVars
<1>15. ASSUME NEW d \in Delivery, Enqueue(d) \/ Notice(d) PROVE TypeOK'
  BY <1>15 DEF Enqueue, Notice, pickVars, askVars
<1>16. ASSUME NEW s \in Session, NEW c \in CallId, NEW id \in RequestId, Request(s, c, id) PROVE TypeOK'
  <2>1. IsMap(ask', Session, CallId)
    BY <1>16, PutMap DEF Request
  <2>2. [session |-> s, id |-> id, at |-> now] \in Call
    BY DEF Call
  <2>3. IsMap(call', CallId, Call)
    BY <1>16, <2>2, PutMap DEF Request
  <2>4. met' \subseteq CallId
    BY <1>16 DEF Request, Rivals, IsMap
  <2> QED BY <1>16, <2>1, <2>3, <2>4 DEF Request, taskVars, pickVars
<1>17. ASSUME NEW s \in Session, Record(s) PROVE TypeOK'
  <2> DEFINE k == call[ask[s]]
             p == Sweep(pending, k.at)
  <2>1. k \in Call /\ ask[s] \in CallId
    BY <1>17 DEF Record, AskInv, IsMap
  <2>2. IsMap(p, RequestId, Pending)
    BY <2>1, SweepMap DEF Call
  <2>3. CASE pending' = p /\ askPc' = [askPc EXCEPT ![s] = "idle"] /\ UNCHANGED askChat
    BY <1>17, <2>2, <2>3 DEF Record, taskVars, pickVars
  <2>4. ASSUME NEW c \in DOMAIN bindings,
               pending' = Put(p, k.id, Entry(s, c)),
               askPc' = [askPc EXCEPT ![s] = "posting"],
               askChat' = Put(askChat, s, c)
        PROVE  TypeOK'
    <3> DEFINE r == Entry(s, c)
    <3>1. c \in Chat
      BY DEF IsMap
    <3>2. r \in Pending
      BY <2>1, <3>1 DEF Entry, Pending, Call
    <3>3. k.id \in RequestId
      BY <2>1 DEF Call
    <3>4. IsMap(Put(p, k.id, r), RequestId, Pending) /\ IsMap(Put(askChat, s, c), Session, Chat)
      BY <2>2, <3>1, <3>2, <3>3, PutMap
    <3> QED BY <1>17, <2>4, <3>4 DEF Record, taskVars, pickVars
  <2> QED BY <1>17, <2>3, <2>4 DEF Record
<1>18. ASSUME NEW s \in Session, Prompted(s) PROVE TypeOK'
  <2>1. ask[s] \in CallId
    BY <1>18 DEF Prompted, AskInv, IsMap
  <2> QED BY <1>18, <2>1 DEF Prompted, taskVars, pickVars
<1>19. ASSUME NEW s \in Session, PromptFails(s) PROVE TypeOK'
  BY <1>19 DEF PromptFails, taskVars, pickVars
<1>20. ASSUME NEW s \in Session, Forget(s) PROVE TypeOK'
  <2>1. IsMap(pending', RequestId, Pending)
    BY <1>20, RestrictMap DEF Forget, Forgotten, Remove
  <2> QED BY <1>20, <2>1 DEF Forget, taskVars, pickVars
<1>21. CASE UNCHANGED vars
  BY <1>21 DEF vars, taskVars, pickVars, askVars
<1>22. ASSUME NEW s \in Session, Fill(s) \/ Drain(s) PROVE TypeOK'
  BY <1>22 DEF Fill, Drain, taskVars, pickVars, askVars
<1> QED
  BY <1>1, <1>2, <1>3, <1>4, <1>5, <1>6, <1>7, <1>8, <1>9, <1>10, <1>11, <1>12, <1>13,
     <1>14, <1>15, <1>16, <1>17, <1>18, <1>19, <1>20, <1>21, <1>22 DEF Next, Slack, Agent, Task

\* A lost connection moves the sends that wait for it, and nothing else.
LEMMA DisconnectMoves ==
  ASSUME IInv, NEW s \in Session, Disconnect(s)
  PROVE  /\ UNCHANGED <<now, bindings, pending, released, order, seen, msg, snap, hit, pickVars, askVars>>
         /\ \A d \in Delivery : pc'[d] = pc[d] \/ (pc[d] = "waiting" /\ pc'[d] = "notice")
BY DEF IInv, TypeOK, Disconnect, GivenBack, WaitsFor

\* Bindings come from roots that were posted, each owned once.
LEMMA PickStep == ASSUME IInv, [Next]_vars PROVE PickInv'
<1> USE DEF IInv, PickInv
<1>1. ASSUME NEW p \in PickId, NEW u \in User, NEW s \in Session, NEW ch \in Channel, Pick(p, u, s, ch)
      PROVE  PickInv'
  <2>1. /\ DOMAIN pick' = DOMAIN pick \cup {p}
        /\ \A q \in DOMAIN pick : q # p => pick'[q] = pick[q]
    BY <1>1 DEF Pick, Put
  <2>2. \A q \in PickId : q # p => pickPc'[q] = pickPc[q]
    BY <1>1 DEF Pick, TypeOK
  <2>3. pickPc'[p] = "posting"
    BY <1>1 DEF Pick, TypeOK
  <2> QED BY <1>1, <2>1, <2>2, <2>3 DEF Pick
<1>2. ASSUME NEW p \in PickId, RootPosted(p) PROVE PickInv'
  <2>1. /\ p \in DOMAIN pick /\ DOMAIN pick' = DOMAIN pick
        /\ \A q \in DOMAIN pick : q # p => pick'[q] = pick[q]
    BY <1>2 DEF RootPosted
  <2>2. pick'[p].chat = <<pick[p].chat[1], nextTs>>
    BY <1>2, <2>1 DEF RootPosted, TypeOK, IsMap
  <2>3. \A q \in PickId : q # p => pickPc'[q] = pickPc[q]
    BY <1>2 DEF RootPosted, TypeOK
  <2>4. nextTs' = nextTs + 1 /\ nextTs \in Nat /\ UNCHANGED <<bindings, owner>>
    BY <1>2 DEF RootPosted, TypeOK
  <2>5. \A c \in DOMAIN owner : c[2] < nextTs /\ c[2] \in Nat
    BY DEF TypeOK, IsMap, Chat
  <2>6. \A q \in PickId : pickPc[q] = "posted" => pick[q].chat[2] < nextTs /\ pick[q].chat[2] \in Nat
    BY DEF TypeOK, IsMap, Chat
  <2>7. pick'[p].chat[2] = nextTs
    BY <2>2
  <2>8. \A q \in PickId : pickPc'[q] # "idle" => q \in DOMAIN pick'
    BY <2>1, <2>3
  <2>9. \A c \in DOMAIN owner' : c[2] < nextTs'
    BY <2>4, <2>5
  <2>10. \A q \in PickId : pickPc'[q] = "posted" =>
            pick'[q].chat[2] < nextTs' /\ pick'[q].chat \notin DOMAIN owner'
    <3> SUFFICES ASSUME NEW q \in PickId, pickPc'[q] = "posted"
                 PROVE  pick'[q].chat[2] < nextTs' /\ pick'[q].chat \notin DOMAIN owner'
      OBVIOUS
    <3>1. CASE q = p
      BY <2>4, <2>5, <2>7, <3>1
    <3>2. CASE q # p
      BY <2>1, <2>3, <2>4, <2>6, <3>2
    <3> QED BY <3>1, <3>2
  <2>11. \A q, r \in PickId : pickPc'[q] = "posted" /\ pickPc'[r] = "posted" /\ q # r =>
            pick'[q].chat # pick'[r].chat
    BY <2>1, <2>3, <2>4, <2>6, <2>7
  <2> QED BY <2>4, <2>8, <2>9, <2>10, <2>11
<1>3. ASSUME NEW p \in PickId, RootFails(p) PROVE PickInv'
  BY <1>3 DEF RootFails, TypeOK
<1>4. ASSUME NEW p \in PickId, Bind(p) PROVE PickInv'
  <2> DEFINE k == pick[p]
             b == [session |-> k.session, user |-> k.user, created |-> now]
  <2>1. /\ DOMAIN bindings' = DOMAIN bindings \cup {k.chat}
        /\ \A c \in DOMAIN bindings' : bindings'[c] = IF c = k.chat THEN b ELSE bindings[c]
        /\ DOMAIN owner' = DOMAIN owner \cup {k.chat}
        /\ \A c \in DOMAIN owner' : owner'[c] = IF c = k.chat THEN b ELSE owner[c]
    BY <1>4 DEF Bind, Put
  <2>2. \A q \in PickId : q # p => pickPc'[q] = pickPc[q]
    BY <1>4 DEF Bind, TypeOK
  <2>3. pickPc[p] = "posted" /\ pickPc'[p] = "bound" /\ UNCHANGED <<pick, nextTs>>
    BY <1>4 DEF Bind, TypeOK
  <2> QED BY <2>1, <2>2, <2>3
<1>5. ASSUME NEW u \in User, NEW ch \in Channel, Unbind(u, ch) PROVE PickInv'
  <2>1. DOMAIN bindings' \subseteq DOMAIN bindings /\ \A c \in DOMAIN bindings' : bindings'[c] = bindings[c]
    BY <1>5 DEF Unbind, Retained, Restrict
  <2> QED BY <1>5, <2>1 DEF Unbind, pickVars
<1>6. CASE UNCHANGED <<bindings, pickPc, pick, nextTs, owner>>
  BY <1>6
<1> QED
  BY <1>1, <1>2, <1>3, <1>4, <1>5, <1>6
  DEF Next, Slack, Agent, Task, Tick, Connect, Disconnect, Fill, Drain, Post, Deliver, Lookup, Match, Consume,
      Send, Enqueue, Notice, Request, Record, Prompted, PromptFails, Forget, vars, pickVars

\* A task that has cloned a binding keeps it until it ends.
LEMMA TaskStep == ASSUME IInv, [Next]_vars PROVE TaskInv'
<1> USE DEF IInv, TaskInv, Past
<1>1. ASSUME NEW e \in EventId, NEW u \in User, NEW c \in Visible,
             NEW v \in {<<>>} \cup (RequestId \X Behavior), Post(e, u, c, v)
      PROVE  TaskInv'
  <2>1. e \notin DOMAIN msg /\ DOMAIN msg' = DOMAIN msg \cup {e}
        /\ \A x \in DOMAIN msg : msg'[x] = msg[x]
    BY <1>1 DEF Post, Put
  <2>2. \A d \in Delivery : d \in DOMAIN snap => d[1] \in DOMAIN msg
    BY DEF TypeOK
  <2>3. DOMAIN snap \subseteq Delivery
    BY DEF TypeOK, IsMap
  <2> QED BY <1>1, <2>1, <2>2, <2>3 DEF Post, pickVars
<1>2. ASSUME NEW d \in Delivery, Deliver(d) PROVE TaskInv'
  <2>1. \A x \in Delivery : x # d => pc'[x] = pc[x]
    BY <1>2 DEF Deliver, TypeOK
  <2>2. /\ pc'[d] \in {"duplicate", "ignored", "lookup"} /\ pc[d] = "idle"
        /\ pc'[d] = "lookup" => d[1] \in DOMAIN msg
    BY <1>2 DEF Deliver, TypeOK
  <2>3. d \notin DOMAIN snap /\ DOMAIN snap \subseteq Delivery /\ DOMAIN hit \subseteq Delivery
    BY <2>2 DEF TypeOK, IsMap
  <2> QED BY <1>2, <2>1, <2>2, <2>3 DEF Deliver, pickVars
<1>3. ASSUME NEW d \in Delivery, Lookup(d) PROVE TaskInv'
  <2>0. pc[d] = "lookup" /\ d \notin DOMAIN snap /\ d \notin DOMAIN hit /\ d[1] \in DOMAIN msg
        /\ DOMAIN snap \subseteq Delivery /\ DOMAIN hit \subseteq Delivery
        /\ UNCHANGED <<msg, hit, owner>>
    BY <1>3 DEF Lookup, TypeOK, IsMap, pickVars
  <2>1. \A x \in Delivery : x # d => pc'[x] = pc[x]
    BY <1>3 DEF Lookup, TypeOK
  <2>2. CASE pc'[d] \in {"unauthorised", "unbound"} /\ UNCHANGED snap
    BY <2>0, <2>1, <2>2
  <2>3. CASE /\ msg[d[1]].user \in Authorised /\ msg[d[1]].chat \in DOMAIN bindings
             /\ pc'[d] = "match" /\ snap' = Put(snap, d, bindings[msg[d[1]].chat])
    <3>1. /\ DOMAIN snap' = DOMAIN snap \cup {d} /\ snap'[d] = bindings[msg[d[1]].chat]
          /\ \A x \in DOMAIN snap : snap'[x] = snap[x]
      BY <2>0, <2>3 DEF Put
    <3>2. msg[d[1]].chat \in DOMAIN owner /\ snap'[d] = owner[msg[d[1]].chat]
      BY <2>3, <3>1 DEF PickInv
    <3> QED BY <2>0, <2>1, <2>3, <3>1, <3>2
  <2>4. \/ pc'[d] \in {"unauthorised", "unbound"} /\ UNCHANGED snap
        \/ /\ msg[d[1]].user \in Authorised /\ msg[d[1]].chat \in DOMAIN bindings
           /\ pc'[d] = "match" /\ snap' = Put(snap, d, bindings[msg[d[1]].chat])
    BY <1>3 DEF Lookup, TypeOK
  <2> QED BY <2>2, <2>3, <2>4
<1>4. ASSUME NEW d \in Delivery, Match(d) PROVE TaskInv'
  <2>0. pc[d] = "match" /\ d \in DOMAIN snap /\ UNCHANGED <<msg, snap, owner>>
        /\ DOMAIN snap \subseteq Delivery /\ DOMAIN hit \subseteq Delivery
    BY <1>4 DEF Match, TypeOK, IsMap, pickVars
  <2>1. \A x \in Delivery : x # d => pc'[x] = pc[x]
    BY <1>4 DEF Match, TypeOK
  <2>2. \/ pc'[d] = "consume" /\ DOMAIN hit' = DOMAIN hit \cup {d}
        \/ pc'[d] = "send" /\ UNCHANGED hit
    BY <1>4 DEF Match, TypeOK, Put
  <2> QED BY <2>0, <2>1, <2>2
<1>5. ASSUME NEW d \in Delivery, Consume(d) \/ Send(d) \/ Enqueue(d) \/ Notice(d) PROVE TaskInv'
  <2>0. pc[d] \in Past \ {"match"} /\ d \in DOMAIN snap /\ UNCHANGED <<msg, snap, hit, owner>>
        /\ DOMAIN snap \subseteq Delivery /\ DOMAIN hit \subseteq Delivery
    BY <1>5 DEF Consume, Send, Enqueue, Notice, TypeOK, IsMap, pickVars
  <2>1. \A x \in Delivery : x # d => pc'[x] = pc[x]
    BY <1>5 DEF Consume, Send, Enqueue, Notice, TypeOK
  <2>2. pc'[d] \in {"send", "waiting", "notice", "verdictSent", "inboundSent", "noticed", "noticeFailed"}
    BY <1>5 DEF Consume, Send, SendOutcome, Enqueue, Notice, TypeOK
  <2> QED BY <2>0, <2>1, <2>2
<1>6. ASSUME NEW p \in PickId, Bind(p) PROVE TaskInv'
  <2>1. pick[p].chat \notin DOMAIN owner
    BY <1>6 DEF Bind, PickInv
  <2>2. DOMAIN owner \subseteq DOMAIN owner' /\ \A c \in DOMAIN owner : owner'[c] = owner[c]
    BY <1>6, <2>1 DEF Bind, Put
  <2> QED BY <1>6, <2>2 DEF Bind, taskVars
<1>7. CASE UNCHANGED <<taskVars, owner>>
  BY <1>7 DEF taskVars
<1>8. ASSUME NEW s \in Session, Disconnect(s) PROVE TaskInv'
  <2>1. /\ UNCHANGED <<msg, snap, hit, owner>>
        /\ \A d \in Delivery : pc'[d] = pc[d] \/ (pc[d] = "waiting" /\ pc'[d] = "notice")
    BY <1>8, DisconnectMoves DEF pickVars
  <2>2. DOMAIN snap \subseteq Delivery /\ DOMAIN hit \subseteq Delivery
    BY DEF TypeOK, IsMap
  <2> QED BY <2>1, <2>2
<1> QED
  BY <1>1, <1>2, <1>3, <1>4, <1>5, <1>6, <1>7, <1>8
  DEF Next, Slack, Agent, Task, Tick, Connect, Disconnect, Fill, Drain, Pick, RootPosted, RootFails, Unbind,
      Request, Record, Prompted, PromptFails, Forget, vars, pickVars

\* Entries of the table are calls; a session handles the call it was given.
LEMMA AskStep == ASSUME IInv, [Next]_vars PROVE AskInv'
<1> USE DEF IInv, AskInv
<1>1. ASSUME NEW s \in Session, NEW c \in CallId, NEW id \in RequestId, Request(s, c, id) PROVE AskInv'
  <2>1. /\ s \in DOMAIN ask' /\ ask'[s] = c
        /\ \A x \in DOMAIN ask : x \in DOMAIN ask' /\ (x # s => ask'[x] = ask[x])
    BY <1>1 DEF Request, Put
  <2>2. /\ c \notin DOMAIN call /\ c \in DOMAIN call' /\ call'[c].session = s
        /\ \A x \in DOMAIN call : x \in DOMAIN call' /\ call'[x] = call[x]
    BY <1>1 DEF Request, Put
  <2>3. \A x \in Session : x # s => askPc'[x] = askPc[x]
    BY <1>1 DEF Request, TypeOK
  <2>4. UNCHANGED pending
    BY <1>1 DEF Request
  <2> QED BY <2>1, <2>2, <2>3, <2>4
<1>2. ASSUME NEW s \in Session, Record(s) PROVE AskInv'
  <2> DEFINE k == call[ask[s]]
             p == Sweep(pending, k.at)
  <2>1. ask[s] \in DOMAIN call /\ k.session = s /\ k.at \in Nat /\ UNCHANGED <<ask, call>>
    BY <1>2 DEF Record, TypeOK, IsMap, Call
  <2>2. DOMAIN p \subseteq DOMAIN pending /\ \A id \in DOMAIN p : p[id] = pending[id]
    BY <2>1, SweepMap DEF TypeOK
  <2>3. \A x \in Session : askPc'[x] # "idle" => askPc[x] # "idle"
    BY <1>2 DEF Record, TypeOK
  <2>4. CASE pending' = p
    BY <2>1, <2>2, <2>3, <2>4
  <2>5. ASSUME NEW c \in DOMAIN bindings,
               pending' = Put(p, k.id, Entry(s, c))
        PROVE  AskInv'
    <3>1. /\ DOMAIN pending' = DOMAIN p \cup {k.id}
          /\ pending'[k.id] = [chat_id |-> c, session |-> s, created |-> k.at, call |-> ask[s]]
          /\ \A id \in DOMAIN p : id # k.id => pending'[id] = p[id]
      BY <2>5 DEF Put, Entry
    <3> HIDE DEF p
    <3> QED BY <2>1, <2>2, <2>3, <3>1
  <2> QED BY <1>2, <2>4, <2>5 DEF Record
<1>3. ASSUME NEW s \in Session, Prompted(s) \/ PromptFails(s) PROVE AskInv'
  BY <1>3 DEF Prompted, PromptFails, TypeOK
<1>4. ASSUME NEW s \in Session, Forget(s) PROVE AskInv'
  <2>1. DOMAIN pending' \subseteq DOMAIN pending /\ \A id \in DOMAIN pending' : pending'[id] = pending[id]
    BY <1>4 DEF Forget, Forgotten, Remove, Restrict
  <2> QED BY <1>4, <2>1 DEF Forget, TypeOK
<1>5. ASSUME NEW d \in Delivery, Match(d) PROVE AskInv'
  <2>1. DOMAIN pending' \subseteq DOMAIN pending /\ \A id \in DOMAIN pending' : pending'[id] = pending[id]
    BY <1>5, SweepMap DEF Match, TypeOK
  <2> QED BY <1>5, <2>1 DEF Match, askVars
<1>6. ASSUME NEW d \in Delivery, Consume(d) PROVE AskInv'
  <2>1. DOMAIN pending' \subseteq DOMAIN pending /\ \A id \in DOMAIN pending' : pending'[id] = pending[id]
    BY <1>6 DEF Consume, Consumed, Remove, Restrict
  <2> QED BY <1>6, <2>1 DEF Consume, askVars
<1>7. CASE UNCHANGED <<pending, askVars>>
  BY <1>7 DEF askVars
<1> QED
  BY <1>1, <1>2, <1>3, <1>4, <1>5, <1>6, <1>7
  DEF Next, Slack, Agent, Task, Tick, Connect, Disconnect, Fill, Drain, Pick, RootPosted, RootFails, Bind, Unbind,
      Post, Deliver, Lookup, Send, Enqueue, Notice, vars

\* A call, once made, is never changed; calls are only added.
LEMMA CallsGrow ==
  ASSUME [Next]_vars
  PROVE  \A c \in DOMAIN call : c \in DOMAIN call' /\ call'[c] = call[c]
<1>1. ASSUME NEW s \in Session, NEW c \in CallId, NEW id \in RequestId, Request(s, c, id)
      PROVE  \A x \in DOMAIN call : x \in DOMAIN call' /\ call'[x] = call[x]
  BY <1>1 DEF Request, Put
<1>2. CASE UNCHANGED call
  BY <1>2
<1> QED
  BY <1>1, <1>2
  DEF Next, Slack, Agent, Task, Tick, Connect, Disconnect, Fill, Drain, Pick, RootPosted, RootFails, Bind, Unbind,
      Post, Deliver, Lookup, Match, Consume, Send, Enqueue, Notice, Record, Prompted, PromptFails, Forget,
      vars, askVars

\* What a match records is an entry of the table that answers the reply.
LEMMA MatchHit ==
  ASSUME IInv, NEW d \in Delivery, Match(d), ~UNCHANGED hit
  PROVE  /\ d \notin DOMAIN hit /\ DOMAIN hit' = DOMAIN hit \cup {d}
         /\ \A x \in DOMAIN hit : hit'[x] = hit[x]
         /\ pc'[d] = "consume" /\ hit'[d].at = now
         /\ msg[d[1]].parse = <<hit'[d].id, hit'[d].behavior>>
         /\ msg[d[1]].user = snap[d].user
         /\ hit'[d].id \in DOMAIN pending
         /\ LET r == pending[hit'[d].id]
            IN  /\ hit'[d].call = r.call /\ r.session = snap[d].session
                /\ now - r.created <= Ttl
<1> DEFINE m == msg[d[1]]
           p == Sweep(pending, now)
<1>1. /\ IsMap(p, RequestId, Pending) /\ DOMAIN p \subseteq DOMAIN pending
      /\ \A id \in DOMAIN p : p[id] = pending[id] /\ now - p[id].created <= Ttl
  BY SweepMap DEF IInv, TypeOK
<1>2. Answers(m, snap[d], p) /\ hit' = Put(hit, d, MatchedRequest(m, p)) /\ pc'[d] = "consume"
  BY DEF Match, IInv, TypeOK
<1>3. d \notin DOMAIN hit
  BY DEF IInv, TaskInv, Match
<1>4. /\ DOMAIN hit' = DOMAIN hit \cup {d} /\ hit'[d] = MatchedRequest(m, p)
      /\ \A x \in DOMAIN hit : hit'[x] = hit[x]
  BY <1>2, <1>3 DEF Put
<1>5. m \in Msg
  BY DEF Match, IInv, TaskInv, TypeOK, IsMap
<1>6. m.parse[1] \in DOMAIN p /\ p[m.parse[1]].session = snap[d].session /\ m.user = snap[d].user
  BY <1>2 DEF Answers
<1>7. m.parse = <<m.parse[1], m.parse[2]>>
  BY <1>2, <1>5 DEF Answers, Msg
<1>8. /\ hit'[d].id = m.parse[1] /\ hit'[d].behavior = m.parse[2]
      /\ hit'[d].call = p[m.parse[1]].call /\ hit'[d].at = now
  BY <1>4 DEF MatchedRequest
<1>9. /\ m.parse[1] \in DOMAIN pending /\ p[m.parse[1]] = pending[m.parse[1]]
      /\ now - pending[m.parse[1]].created <= Ttl
  BY <1>1, <1>6
<1> HIDE DEF p, m
<1>10. m.parse = <<hit'[d].id, hit'[d].behavior>>
  BY <1>7, <1>8
<1> QED BY <1>2, <1>3, <1>4, <1>6, <1>8, <1>9, <1>10 DEF m

\* A matched request stays what it was matched as.
LEMMA HitStep == ASSUME IInv, [Next]_vars PROVE HitInv'
<1> USE DEF IInv, HitInv
<1>0. DOMAIN hit \subseteq Delivery /\ DOMAIN snap \subseteq Delivery
  BY DEF TypeOK, IsMap
<1>1. ASSUME NEW d \in Delivery, Match(d) PROVE HitInv'
  <2>1. CASE UNCHANGED hit
    BY <1>1, <2>1 DEF Match, askVars
  <2>2. CASE ~UNCHANGED hit
    <3>1. UNCHANGED <<msg, snap, call>>
      BY <1>1 DEF Match, askVars
    <3>2. /\ DOMAIN hit' = DOMAIN hit \cup {d} /\ \A x \in DOMAIN hit : hit'[x] = hit[x]
          /\ hit'[d].at = now
          /\ msg[d[1]].parse = <<hit'[d].id, hit'[d].behavior>>
          /\ msg[d[1]].user = snap[d].user
          /\ hit'[d].id \in DOMAIN pending
          /\ hit'[d].call = pending[hit'[d].id].call
          /\ pending[hit'[d].id].session = snap[d].session
          /\ now - pending[hit'[d].id].created <= Ttl
      BY <1>1, <2>2, MatchHit
    <3>3. LET c == hit'[d].call
          IN  /\ c \in DOMAIN call /\ call[c].id = hit'[d].id
              /\ call[c].session = snap[d].session /\ hit'[d].at - call[c].at <= Ttl
      BY <3>2 DEF AskInv
    <3> QED BY <3>1, <3>2, <3>3
  <2> QED BY <2>1, <2>2
<1>2. ASSUME NEW e \in EventId, NEW u \in User, NEW c \in Visible,
             NEW v \in {<<>>} \cup (RequestId \X Behavior), Post(e, u, c, v)
      PROVE  HitInv'
  <2>1. e \notin DOMAIN msg /\ \A x \in DOMAIN msg : msg'[x] = msg[x]
    BY <1>2 DEF Post, Put
  <2>2. \A d \in DOMAIN hit : d[1] \in DOMAIN msg
    BY <1>0 DEF TaskInv, Past, TypeOK
  <2> QED BY <1>2, <2>1, <2>2 DEF Post, askVars
<1>3. ASSUME NEW d \in Delivery, Lookup(d) PROVE HitInv'
  <2>1. d \notin DOMAIN hit
    BY <1>3 DEF Lookup, TaskInv, Past
  <2>2. \A x \in DOMAIN snap : x # d => snap'[x] = snap[x]
    BY <1>3 DEF Lookup, Put
  <2>3. DOMAIN hit \subseteq DOMAIN snap
    BY DEF TaskInv
  <2> QED BY <1>3, <2>1, <2>2, <2>3 DEF Lookup, askVars
<1>4. ASSUME UNCHANGED <<msg, snap, hit>> PROVE HitInv'
  BY <1>4, CallsGrow
<1> QED
  BY <1>1, <1>2, <1>3, <1>4
  DEF Next, Slack, Agent, Task, Tick, Connect, Disconnect, Fill, Drain, Pick, RootPosted, RootFails, Bind, Unbind,
      Deliver, Consume, Send, Enqueue, Notice, Request, Record, Prompted, PromptFails, Forget, vars, taskVars

\* Except for the entry a call adds, a step only removes entries of the table.
LEMMA PendingShrinks ==
  ASSUME IInv, [Next]_vars, NEW id \in DOMAIN pending',
         ~(id \in DOMAIN pending /\ pending'[id] = pending[id])
  PROVE  \E s \in Session : /\ Record(s) /\ askPc[s] = "entered"
                            /\ pending'[id].call = ask[s] /\ id = call[ask[s]].id
<1>0. IsMap(pending, RequestId, Pending) /\ now \in Nat
  BY DEF IInv, TypeOK
<1>1. ASSUME NEW d \in Delivery, Match(d) PROVE FALSE
  BY <1>0, <1>1, SweepMap DEF Match
<1>2. ASSUME NEW d \in Delivery, Consume(d) PROVE FALSE
  BY <1>2 DEF Consume, Consumed, Remove, Restrict
<1>3. ASSUME NEW s \in Session, Forget(s) PROVE FALSE
  BY <1>3 DEF Forget, Forgotten, Remove, Restrict
<1>4. ASSUME NEW s \in Session, Record(s)
      PROVE  askPc[s] = "entered" /\ pending'[id].call = ask[s] /\ id = call[ask[s]].id
  <2> DEFINE k == call[ask[s]]
             p == Sweep(pending, k.at)
  <2>1. k.at \in Nat
    BY <1>4 DEF Record, IInv, AskInv, TypeOK, IsMap, Call
  <2>2. DOMAIN p \subseteq DOMAIN pending /\ \A x \in DOMAIN p : p[x] = pending[x]
    BY <1>0, <2>1, SweepMap
  <2>3. PICK c : pending' = Put(p, k.id, Entry(s, c))
    BY <1>4, <2>2 DEF Record
  <2>4. id = k.id
    BY <2>2, <2>3 DEF Put
  <2> QED BY <1>4, <2>3, <2>4 DEF Put, Record, Entry
<1>5. CASE UNCHANGED pending
  BY <1>5
<1> QED
  BY <1>1, <1>2, <1>3, <1>4, <1>5
  DEF Next, Slack, Agent, Task, Tick, Connect, Disconnect, Fill, Drain, Pick, RootPosted, RootFails, Bind, Unbind,
      Post, Deliver, Lookup, Send, Enqueue, Notice, Request, Prompted, PromptFails, vars

\* Except for the request a task matches, no step changes what was matched.
LEMMA HitGrows ==
  ASSUME IInv, [Next]_vars, NEW d \in DOMAIN hit'
  PROVE  \/ /\ d \in DOMAIN hit /\ hit'[d] = hit[d]
            /\ pc'[d] # "consume" => pc[d] # "consume" \/ Consume(d)
            /\ pc'[d] = "consume" => pc[d] = "consume"
         \/ /\ d \in Delivery /\ Match(d) /\ pc'[d] = "consume"
            /\ \E id \in DOMAIN pending : hit'[d].call = pending[id].call
<1>0. DOMAIN hit \subseteq Delivery
  BY DEF IInv, TypeOK, IsMap
<1>1. ASSUME NEW x \in Delivery, Match(x)
      PROVE  \/ d \in DOMAIN hit /\ hit'[d] = hit[d] /\ (pc'[d] = "consume" <=> pc[d] = "consume")
             \/ d = x /\ pc'[d] = "consume" /\ \E id \in DOMAIN pending : hit'[d].call = pending[id].call
  <2>1. CASE UNCHANGED hit
    BY <1>0, <1>1, <2>1 DEF Match, IInv, TypeOK, TaskInv
  <2>2. CASE ~UNCHANGED hit
    <3>1. \A y \in Delivery : y # x => pc'[y] = pc[y]
      BY <1>1 DEF Match, IInv, TypeOK
    <3>2. /\ DOMAIN hit' = DOMAIN hit \cup {x} /\ pc'[x] = "consume"
          /\ \A y \in DOMAIN hit : hit'[y] = hit[y]
          /\ hit'[x].id \in DOMAIN pending /\ hit'[x].call = pending[hit'[x].id].call
          /\ x \notin DOMAIN hit
      BY <1>1, <2>2, MatchHit
    <3>3. CASE d = x
      BY <3>2, <3>3
    <3>4. CASE d # x
      BY <1>0, <3>1, <3>2, <3>4
    <3> QED BY <3>3, <3>4
  <2> QED BY <2>1, <2>2
<1>2. ASSUME NEW x \in Delivery, Consume(x)
      PROVE  /\ d \in DOMAIN hit /\ hit'[d] = hit[d]
             /\ pc'[d] # "consume" => pc[d] # "consume" \/ d = x
             /\ pc'[d] = "consume" => pc[d] = "consume"
  BY <1>0, <1>2 DEF Consume, IInv, TypeOK
<1>3. ASSUME NEW x \in Delivery, Deliver(x) \/ Lookup(x) \/ Send(x) \/ Enqueue(x) \/ Notice(x)
      PROVE  d \in DOMAIN hit /\ hit'[d] = hit[d] /\ (pc'[d] = "consume" <=> pc[d] = "consume")
  BY <1>0, <1>3 DEF Deliver, Lookup, Send, SendOutcome, Enqueue, Notice, IInv, TypeOK
<1>4. CASE UNCHANGED <<pc, hit>>
  BY <1>4
<1>5. ASSUME NEW s \in Session, Disconnect(s)
      PROVE  d \in DOMAIN hit /\ hit'[d] = hit[d] /\ (pc'[d] = "consume" <=> pc[d] = "consume")
  BY <1>0, <1>5, DisconnectMoves
<1> QED
  BY <1>1, <1>2, <1>3, <1>4, <1>5
  DEF Next, Slack, Agent, Task, Tick, Connect, Disconnect, Fill, Drain, Pick, RootPosted, RootFails, Bind, Unbind,
      Post, Request, Record, Prompted, PromptFails, Forget, vars, taskVars

\* An answered call does not come back to the table, and a call that waits is new.
LEMMA GoneStep == ASSUME IInv, [Next]_vars PROVE AnsweredIsGone' /\ CallFresh'
<1> USE DEF IInv
<1>0. DOMAIN hit \subseteq Delivery
  BY DEF TypeOK, IsMap
<1>1. AnsweredIsGone'
  <2> SUFFICES ASSUME NEW d \in DOMAIN hit', NEW id \in DOMAIN pending', pc'[d] # "consume",
                      pending'[id].call = hit'[d].call
               PROVE  FALSE
    BY DEF AnsweredIsGone
  <2>1. d \in DOMAIN hit /\ hit'[d] = hit[d] /\ (pc[d] # "consume" \/ Consume(d))
    BY HitGrows
  <2>2. CASE ~(id \in DOMAIN pending /\ pending'[id] = pending[id])
    BY <2>1, <2>2, PendingShrinks DEF CallFresh
  <2>3. CASE id \in DOMAIN pending /\ pending'[id] = pending[id] /\ pc[d] # "consume"
    BY <2>1, <2>3 DEF AnsweredIsGone
  <2>4. CASE id \in DOMAIN pending /\ pending'[id] = pending[id] /\ Consume(d)
    <3>1. id # hit[d].id
      BY <2>4 DEF Consume, Consumed, Remove, Restrict
    <3>2. call[pending[id].call].id = id /\ call[hit[d].call].id = hit[d].id
      BY <2>1, <2>4 DEF AskInv, HitInv
    <3> QED BY <2>1, <2>4, <3>1, <3>2
  <2> QED BY <2>1, <2>2, <2>3, <2>4
<1>2. CallFresh'
  <2> SUFFICES ASSUME NEW s \in Session, askPc'[s] = "entered"
               PROVE  /\ \A id \in DOMAIN pending' : pending'[id].call # ask'[s]
                      /\ \A d \in DOMAIN hit' : hit'[d].call # ask'[s]
    BY DEF CallFresh
  <2>1. CASE \E c \in CallId, id \in RequestId : Request(s, c, id)
    <3>1. ask'[s] \notin DOMAIN call /\ UNCHANGED <<pending, hit>>
      BY <2>1 DEF Request, Put, taskVars
    <3> QED BY <3>1 DEF AskInv, HitInv
  <2>2. CASE askPc[s] = "entered" /\ s \in DOMAIN ask /\ ask'[s] = ask[s]
    <3>1. \A id \in DOMAIN pending' : pending'[id].call # ask'[s]
      <4> SUFFICES ASSUME NEW id \in DOMAIN pending', pending'[id].call = ask[s] PROVE FALSE
        BY <2>2
      <4>1. PICK x \in Session : Record(x) /\ askPc[x] = "entered" /\ ask[s] = ask[x]
        BY <2>2, PendingShrinks DEF CallFresh
      <4>2. x = s
        BY <2>2, <4>1 DEF AskInv
      <4>3. askPc'[s] # "entered"
        BY <4>1, <4>2 DEF Record, TypeOK
      <4> QED BY <4>3
    <3>2. \A d \in DOMAIN hit' : hit'[d].call # ask'[s]
      BY <2>2, HitGrows DEF CallFresh
    <3> QED BY <3>1, <3>2
  <2>3. \/ \E c \in CallId, id \in RequestId : Request(s, c, id)
        \/ askPc[s] = "entered" /\ ask'[s] = ask[s]
    <3>1. ASSUME NEW x \in Session, NEW c \in CallId, NEW id \in RequestId, Request(x, c, id), x # s
          PROVE  askPc[s] = "entered" /\ s \in DOMAIN ask /\ ask'[s] = ask[s]
      <4>1. askPc[s] = "entered"
        BY <3>1 DEF Request, TypeOK
      <4>2. s \in DOMAIN ask
        BY <4>1 DEF AskInv
      <4> QED BY <3>1, <4>1, <4>2 DEF Request, Put
    <3>2. ASSUME NEW x \in Session, Record(x) \/ Prompted(x) \/ PromptFails(x) \/ Forget(x)
          PROVE  askPc[s] = "entered" /\ ask'[s] = ask[s]
      BY <3>2 DEF Record, Prompted, PromptFails, Forget, TypeOK
    <3>3. CASE UNCHANGED askVars
      BY <3>3 DEF askVars
    <3> QED
      BY <3>1, <3>2, <3>3
      DEF Next, Slack, Agent, Task, Tick, Connect, Disconnect, Fill, Drain, Pick, RootPosted, RootFails, Bind, Unbind,
          Post, Deliver, Lookup, Match, Consume, Send, Enqueue, Notice, vars
  <2>4. askPc[s] = "entered" => s \in DOMAIN ask
    BY DEF AskInv
  <2> QED BY <2>1, <2>2, <2>3, <2>4
<1> QED BY <1>1, <1>2

\* Calls that have met have met for ever.
LEMMA MetGrows == ASSUME [Next]_vars PROVE met \subseteq met'
<1>1. ASSUME NEW s \in Session, NEW c \in CallId, NEW id \in RequestId, Request(s, c, id)
      PROVE  met \subseteq met'
  BY <1>1 DEF Request
<1> QED
  BY <1>1
  DEF Next, Slack, Agent, Task, Tick, Connect, Disconnect, Fill, Drain, Pick, RootPosted, RootFails, Bind,
      Unbind, Post, Deliver, Lookup, Match, Consume, Send, Enqueue, Notice, Record, Prompted, PromptFails,
      Forget, vars, askVars

\* A call that is open stays open, unless its own handler gives up on it.
LEMMA StaysOpen ==
  ASSUME IInv, [Next]_vars, TypeOK', NEW c \in DOMAIN call, Open(c),
         \A s \in Session : Forget(s) => ask[s] # c
  PROVE  Open(c)'
<1> USE DEF IInv
<1>0. c \in DOMAIN call' /\ call'[c] = call[c]
  BY CallsGrow
<1>1. now \in Nat /\ now' \in Nat /\ now' >= now /\ call[c].at \in Nat /\ now >= call[c].at
  <2>1. now' = now \/ now' = now + 1
    BY DEF Next, Slack, Agent, Task, Tick, Connect, Disconnect, Fill, Drain, Pick, RootPosted, RootFails, Bind, Unbind,
           Post, Deliver, Lookup, Match, Consume, Send, Enqueue, Notice, Request, Record, Prompted, PromptFails,
           Forget, vars
  <2> QED BY <2>1 DEF TypeOK, OpenInv, IsMap, Call
<1>2. CASE now - call[c].at > Ttl
  BY <1>0, <1>1, <1>2, TimeAssumption DEF Open
<1>3. CASE \E d \in DOMAIN hit : hit[d].call = c
  <2>1. PICK d \in DOMAIN hit : hit[d].call = c
    BY <1>3
  <2>2. d \in DOMAIN hit' /\ hit'[d] = hit[d]
    <3>1. ASSUME NEW x \in Delivery, Match(x), ~UNCHANGED hit PROVE d \in DOMAIN hit' /\ hit'[d] = hit[d]
      BY <3>1, MatchHit
    <3>2. CASE UNCHANGED hit
      BY <3>2
    <3> QED
      BY <3>1, <3>2
      DEF Next, Slack, Agent, Task, Tick, Connect, Disconnect, Fill, Drain, Pick, RootPosted, RootFails, Bind, Unbind,
          Post, Deliver, Lookup, Consume, Send, Enqueue, Notice, Request, Record, Prompted, PromptFails,
          Forget, vars, taskVars
  <2> QED BY <2>1, <2>2 DEF Open
<1>4. CASE c \in met
  BY <1>0, <1>4, MetGrows DEF Open
<1>5. CASE /\ call[c].id \in DOMAIN pending /\ pending[call[c].id].call = c
           /\ now - call[c].at <= Ttl
           /\ ~\E d \in DOMAIN hit : hit[d].call = c
           /\ c \notin met
  <2> DEFINE i == call[c].id
  <2>1. pending[i].created = call[c].at /\ Live(c)
    BY <1>5 DEF AskInv, Live
  <2>2. ASSUME NEW t \in Nat, t <= now
        PROVE  i \in DOMAIN Sweep(pending, t) /\ Sweep(pending, t)[i] = pending[i]
    <3>1. t - pending[i].created <= Ttl
      BY <1>1, <1>5, <2>1, <2>2, TimeAssumption
    <3> QED BY <1>5, <3>1 DEF Sweep, Restrict
  <2>3. ASSUME i \in DOMAIN pending', pending'[i].call = c PROVE Open(c)'
    BY <1>0, <2>3 DEF Open
  <2>4. ASSUME NEW d \in Delivery, Match(d) PROVE Open(c)'
    BY <1>1, <1>5, <2>2, <2>3, <2>4 DEF Match
  <2>5. ASSUME NEW d \in Delivery, Consume(d) PROVE Open(c)'
    <3>1. d \in DOMAIN hit /\ hit[d].call \in DOMAIN call /\ hit[d].id = call[hit[d].call].id
      BY <2>5 DEF Consume, TaskInv, HitInv
    <3>2. hit[d].id # i
      <4>1. hit[d].call # c /\ Live(hit[d].call)
        BY <1>5, <2>5, <3>1 DEF Consume, Live
      <4> QED BY <1>5, <2>1, <3>1, <4>1 DEF MetInv
    <3> QED BY <1>5, <2>3, <2>5, <3>2 DEF Consume, Consumed, Remove, Restrict
  <2>6. ASSUME NEW s \in Session, Forget(s) PROVE Open(c)'
    <3>1. ask[s] \in DOMAIN call /\ ask[s] # c
      BY <2>6 DEF Forget, AskInv
    <3>2. call[ask[s]].id # i
      <4>1. Live(ask[s])
        BY <2>6 DEF Forget, Live
      <4> QED BY <1>5, <2>1, <3>1, <4>1 DEF MetInv
    <3> QED BY <1>5, <2>3, <2>6, <3>2 DEF Forget, Forgotten, Remove, Restrict
  <2>7. ASSUME NEW s \in Session, Record(s) PROVE Open(c)'
    <3>1. ask[s] \in DOMAIN call /\ call[ask[s]].at \in Nat /\ call[ask[s]].at <= now
      BY <2>7 DEF Record, AskInv, OpenInv, TypeOK, IsMap, Call
    <3>2. i \in DOMAIN Sweep(pending, call[ask[s]].at)
          /\ Sweep(pending, call[ask[s]].at)[i] = pending[i]
      BY <2>2, <3>1
    <3>3. CASE ask[s] = c
      <4>1. i \in DOMAIN pending' /\ pending'[i].call = c
        BY <1>5, <2>7, <3>2, <3>3 DEF Record, Put, Entry
      <4> QED BY <2>3, <4>1
    <3>4. CASE ask[s] # c
      <4>1. call[ask[s]].id # i
        <5>1. Live(ask[s])
          BY <2>7 DEF Record, Live
        <5> QED BY <1>5, <2>1, <3>1, <3>4, <5>1 DEF MetInv
      <4>2. i \in DOMAIN pending' /\ pending'[i].call = c
        BY <1>5, <2>7, <3>2, <4>1 DEF Record, Put
      <4> QED BY <2>3, <4>2
    <3> QED BY <3>3, <3>4
  <2>8. CASE UNCHANGED pending
    BY <1>5, <2>3, <2>8
  <2> QED
    BY <2>4, <2>5, <2>6, <2>7, <2>8
    DEF Next, Slack, Agent, Task, Tick, Connect, Disconnect, Fill, Drain, Pick, RootPosted, RootFails, Bind, Unbind,
        Post, Deliver, Lookup, Send, Enqueue, Notice, Request, Prompted, PromptFails, vars, askVars
<1> QED BY <1>1, <1>2, <1>3, <1>4, <1>5, TimeAssumption DEF Open

\* What the handler of a session does to its place and to its call.
LEMMA AskMoves ==
  ASSUME IInv, [Next]_vars, NEW s \in Session
  PROVE  \/ askPc'[s] = askPc[s] /\ (askPc[s] # "idle" => ask'[s] = ask[s]) /\ ~Forget(s)
         \/ askPc'[s] = "entered" /\ ask'[s] \notin DOMAIN call /\ UNCHANGED prompted
         \/ Record(s) /\ askPc[s] = "entered" /\ askPc'[s] \in {"idle", "posting"} /\ ask'[s] = ask[s]
         \/ Prompted(s) /\ askPc[s] = "posting" /\ askPc'[s] = "idle" /\ ask'[s] = ask[s]
         \/ askPc[s] = "posting" /\ askPc'[s] = "failed" /\ ask'[s] = ask[s]
         \/ Forget(s) /\ askPc[s] = "failed" /\ askPc'[s] = "idle" /\ ask'[s] = ask[s]
<1> USE DEF IInv, TypeOK
<1>1. ASSUME NEW x \in Session, NEW c \in CallId, NEW id \in RequestId, Request(x, c, id)
      PROVE  \/ askPc'[s] = askPc[s] /\ (askPc[s] # "idle" => ask'[s] = ask[s]) /\ ~Forget(s)
             \/ askPc'[s] = "entered" /\ ask'[s] \notin DOMAIN call /\ UNCHANGED prompted
  <2>1. CASE x = s
    BY <1>1, <2>1 DEF Request, Put
  <2>2. CASE x # s
    <3>1. askPc'[s] = askPc[s]
      BY <1>1, <2>2 DEF Request
    <3>2. askPc[s] # "idle" => s \in DOMAIN ask
      BY DEF AskInv
    <3>3. ~Forget(s)
      BY <1>1, <3>1 DEF Forget
    <3> QED BY <1>1, <2>2, <3>1, <3>2, <3>3 DEF Request, Put
  <2> QED BY <2>1, <2>2
<1>2. ASSUME NEW x \in Session, Record(x) \/ Prompted(x) \/ PromptFails(x) \/ Forget(x), x # s
      PROVE  askPc'[s] = askPc[s] /\ ask'[s] = ask[s] /\ ~Forget(s)
  <2>1. askPc'[s] = askPc[s] /\ ask' = ask
    BY <1>2 DEF Record, Prompted, PromptFails, Forget
  <2> QED BY <2>1 DEF Forget
<1>3. ASSUME Record(s)
      PROVE  askPc[s] = "entered" /\ askPc'[s] \in {"idle", "posting"} /\ ask'[s] = ask[s]
  BY <1>3 DEF Record
<1>4. ASSUME Prompted(s) PROVE askPc[s] = "posting" /\ askPc'[s] = "idle" /\ ask'[s] = ask[s]
  BY <1>4 DEF Prompted
<1>5. ASSUME PromptFails(s) PROVE askPc[s] = "posting" /\ askPc'[s] = "failed" /\ ask'[s] = ask[s]
  BY <1>5 DEF PromptFails
<1>6. ASSUME Forget(s) PROVE askPc[s] = "failed" /\ askPc'[s] = "idle" /\ ask'[s] = ask[s]
  BY <1>6 DEF Forget
<1>7. CASE UNCHANGED askVars
  BY <1>7 DEF askVars, Forget
<1> QED
  BY <1>1, <1>2, <1>3, <1>4, <1>5, <1>6, <1>7
  DEF Next, Slack, Agent, Task, Tick, Connect, Disconnect, Fill, Drain, Pick, RootPosted, RootFails, Bind, Unbind,
      Post, Deliver, Lookup, Match, Consume, Send, Enqueue, Notice, vars

\* Prompted calls stay open.
LEMMA OpenStep == ASSUME IInv, [Next]_vars, TypeOK' PROVE OpenInv'
<1> USE DEF IInv
<1>1. \A c \in DOMAIN call' : call'[c].at <= now'
  <2>1. ASSUME NEW s \in Session, NEW c \in CallId, NEW id \in RequestId, Request(s, c, id)
        PROVE  \A x \in DOMAIN call' : call'[x].at <= now'
    <3>1. /\ DOMAIN call' = DOMAIN call \cup {c} /\ call'[c].at = now
          /\ \A x \in DOMAIN call : x # c => call'[x] = call[x]
      BY <2>1 DEF Request, Put
    <3> QED BY <2>1, <3>1 DEF Request, OpenInv, TypeOK
  <2>2. CASE UNCHANGED call /\ (now' = now \/ now' = now + 1)
    BY <2>2 DEF OpenInv, TypeOK, IsMap, Call
  <2> QED
    BY <2>1, <2>2
    DEF Next, Slack, Agent, Task, Tick, Connect, Disconnect, Fill, Drain, Pick, RootPosted, RootFails, Bind, Unbind,
        Post, Deliver, Lookup, Match, Consume, Send, Enqueue, Notice, Record, Prompted, PromptFails, Forget,
        vars, askVars
<1>2. ASSUME NEW s \in Session, askPc'[s] = "posting", NEW c, c = ask'[s] PROVE Open(c)'
  <2>1. CASE askPc[s] = "posting" /\ ask'[s] = ask[s] /\ ~Forget(s)
    <3>1. c \in DOMAIN call /\ Open(c)
      BY <1>2, <2>1 DEF AskInv, OpenInv, Open
    <3>2. \A x \in Session : Forget(x) => ask[x] # c
      BY <1>2, <2>1 DEF AskInv, Forget
    <3> QED BY <3>1, <3>2, StaysOpen
  <2>2. CASE Record(s) /\ ask'[s] = ask[s]
    <3>1. \E b : pending' = Put(Sweep(pending, call[c].at), call[c].id,
                      [chat_id |-> b, session |-> s, created |-> call[c].at, call |-> c])
      BY <1>2, <2>2 DEF Record, TypeOK, Entry
    <3>2. call'[c] = call[c]
      BY <2>2 DEF Record
    <3>3. call'[c].id \in DOMAIN pending' /\ pending'[call'[c].id].call = c
      BY <3>1, <3>2 DEF Put
    <3> QED BY <3>3 DEF Open
  <2> QED BY <1>2, <2>1, <2>2, AskMoves
<1>3. ASSUME NEW c \in prompted'
      PROVE  /\ c \in DOMAIN call' /\ Open(c)'
             /\ \A s \in Session : askPc'[s] # "idle" => ask'[s] # c
  <2>1. CASE c \in prompted
    <3>1. c \in DOMAIN call /\ Open(c) /\ \A x \in Session : askPc[x] # "idle" => ask[x] # c
      BY <2>1 DEF OpenInv
    <3>2. Open(c)'
      BY <3>1, StaysOpen DEF Forget
    <3>3. ASSUME NEW s \in Session, askPc'[s] # "idle" PROVE ask'[s] # c
      BY <3>1, <3>3, AskMoves
    <3> QED BY <3>1, <3>2, <3>3, CallsGrow
  <2>2. CASE c \notin prompted
    <3>1. PICK s \in Session : Prompted(s) /\ c = ask[s]
      BY <2>2
      DEF Next, Slack, Agent, Task, Tick, Connect, Disconnect, Fill, Drain, Pick, RootPosted, RootFails, Bind, Unbind,
          Post, Deliver, Lookup, Match, Consume, Send, Enqueue, Notice, Request, Record, Prompted, PromptFails,
          Forget, vars, askVars
    <3>2. c \in DOMAIN call /\ Open(c) /\ call[c].session = s
      BY <3>1 DEF Prompted, AskInv, OpenInv
    <3>3. \A x \in Session : ~Forget(x)
      BY <3>1 DEF Prompted, Forget, TypeOK
    <3>4. Open(c)'
      BY <3>2, <3>3, StaysOpen
    <3>5. ASSUME NEW x \in Session, askPc'[x] # "idle" PROVE ask'[x] # c
      <4>1. x # s /\ askPc'[x] = askPc[x] /\ ask'[x] = ask[x]
        BY <3>1, <3>5 DEF Prompted, TypeOK
      <4> QED BY <3>2, <3>5, <4>1 DEF AskInv
    <3> QED BY <3>2, <3>4, <3>5, CallsGrow
  <2> QED BY <2>1, <2>2
<1>4. \A s \in Session : (askPc[s] = "posting" => Open(ask[s]))'
  BY <1>2 DEF Open
<1> QED BY <1>1, <1>3, <1>4 DEF OpenInv

\* Only a new call becomes live.
LEMMA LiveShrinks ==
  ASSUME IInv, [Next]_vars, NEW c \in DOMAIN call, Live(c)'
  PROVE  Live(c)
<1>1. ASSUME NEW s \in Session, askPc'[s] # "idle", ask'[s] = c PROVE Live(c)
  BY <1>1, AskMoves DEF Live
<1>2. ASSUME NEW id \in DOMAIN pending', pending'[id].call = c PROVE Live(c)
  <2>1. CASE id \in DOMAIN pending /\ pending'[id] = pending[id]
    BY <1>2, <2>1 DEF Live
  <2>2. CASE ~(id \in DOMAIN pending /\ pending'[id] = pending[id])
    BY <1>2, <2>2, PendingShrinks DEF Live
  <2> QED BY <2>1, <2>2
<1>3. ASSUME NEW d \in DOMAIN hit', pc'[d] = "consume", hit'[d].call = c PROVE Live(c)
  BY <1>3, HitGrows DEF Live
<1> QED BY <1>1, <1>2, <1>3 DEF Live

\* Whoever becomes live while another is, under the same id, meets it.
LEMMA MetStep == ASSUME IInv, [Next]_vars PROVE MetInv'
<1> SUFFICES ASSUME NEW c \in DOMAIN call', NEW o \in DOMAIN call', c # o,
                    call'[c].id = call'[o].id, Live(c)', Live(o)'
             PROVE  c \in met' /\ o \in met'
  BY DEF MetInv
<1>1. CASE c \in DOMAIN call /\ o \in DOMAIN call
  <2>1. Live(c) /\ Live(o) /\ call[c].id = call[o].id
    BY <1>1, LiveShrinks, CallsGrow
  <2> QED BY <1>1, <2>1, MetGrows DEF IInv, MetInv
<1>2. ASSUME NEW s \in Session, NEW x \in CallId, NEW id \in RequestId, Request(s, x, id),
             ~(c \in DOMAIN call /\ o \in DOMAIN call)
      PROVE  c \in met' /\ o \in met'
  <2>1. /\ DOMAIN call' = DOMAIN call \cup {x} /\ call'[x].id = id
        /\ \A y \in DOMAIN call : y # x => call'[y] = call[y]
        /\ x \notin DOMAIN call
    BY <1>2 DEF Request, Put
  <2>2. ASSUME NEW y \in DOMAIN call, y \in {c, o} PROVE y \in Rivals(id)
    <3>1. call[y].id = id
      BY <1>2, <2>1, <2>2
    <3> QED BY <2>2, <3>1, LiveShrinks DEF Rivals
  <2>3. \E y \in DOMAIN call : y \in {c, o} /\ {c, o} = {x, y}
    BY <1>2, <2>1
  <2> QED BY <1>2, <2>2, <2>3 DEF Request
<1>3. CASE UNCHANGED call
  BY <1>1, <1>3
<1> QED
  BY <1>1, <1>2, <1>3
  DEF Next, Slack, Agent, Task, Tick, Connect, Disconnect, Fill, Drain, Pick, RootPosted, RootFails, Bind,
      Unbind, Post, Deliver, Lookup, Match, Consume, Send, Enqueue, Notice, Record, Prompted, PromptFails,
      Forget, vars, askVars

\* A thread that was unbound is bound no more, and a reply that was late for it
\* stops at the lookup.
UnboundInv ==
  /\ \A c \in released : c \in DOMAIN owner /\ c \notin DOMAIN bindings
  /\ \A e \in DOMAIN msg : msg[e].late => msg[e].chat \in released
  /\ UnboundStaysUnbound

\* Where a reply to an unbound thread may be.
Stopped == {"idle", "duplicate", "ignored", "lookup", "unauthorised", "unbound"}

\* A step of delivery d leaves the replies to unbound threads where they may be.
LEMMA StoppedStep ==
  ASSUME UnboundInv, pc \in [Delivery -> Pc], NEW d \in Delivery, NEW p, pc' = [pc EXCEPT ![d] = p],
         d[1] \in DOMAIN msg /\ msg[d[1]].late => p \in Stopped,
         UNCHANGED <<released, owner, bindings, msg>>
  PROVE  UnboundInv'
<1>1. pc'[d] = p /\ \A x \in Delivery : x # d => pc'[x] = pc[x]
  OBVIOUS
<1>2. UnboundStaysUnbound'
  BY <1>1 DEF UnboundInv, UnboundStaysUnbound, Stopped
<1> QED BY <1>2 DEF UnboundInv

LEMMA UnboundStep == ASSUME IInv, UnboundInv, [Next]_vars PROVE UnboundInv'
<1>0. pc \in [Delivery -> Pc]
  BY DEF IInv, TypeOK
<1>1. ASSUME NEW p \in PickId, Bind(p) PROVE UnboundInv'
  <2>1. pickPc[p] = "posted" /\ pick[p].chat \notin DOMAIN owner
    BY <1>1 DEF Bind, IInv, PickInv
  <2>2. /\ DOMAIN bindings' = DOMAIN bindings \cup {pick[p].chat}
        /\ DOMAIN owner' = DOMAIN owner \cup {pick[p].chat}
        /\ UNCHANGED <<released, msg, pc>>
    BY <1>1 DEF Bind, Put, taskVars
  <2> QED BY <2>1, <2>2 DEF UnboundInv, UnboundStaysUnbound
<1>2. ASSUME NEW u \in User, NEW ch \in Channel, Unbind(u, ch) PROVE UnboundInv'
  <2>1. /\ DOMAIN bindings' = Retained(u, ch) /\ UNCHANGED <<owner, msg, pc>>
        /\ released' = released \cup {c \in DOMAIN bindings : c[1] = ch /\ bindings[c].user = u}
    BY <1>2 DEF Unbind, Restrict, taskVars, pickVars
  <2>2. \A c \in released' : c \in DOMAIN owner' /\ c \notin DOMAIN bindings'
    BY <2>1 DEF Retained, UnboundInv, IInv, PickInv
  <2> QED BY <2>1, <2>2 DEF UnboundInv, UnboundStaysUnbound
<1>3. ASSUME NEW e \in EventId, NEW u \in User, NEW c \in Visible,
             NEW v \in {<<>>} \cup (RequestId \X Behavior), Post(e, u, c, v)
      PROVE  UnboundInv'
  <2> DEFINE m == [user |-> u, chat |-> c, parse |-> v, late |-> c \in released]
  <2>1. /\ DOMAIN msg' = DOMAIN msg \cup {e} /\ e \notin DOMAIN msg /\ msg'[e] = m
        /\ \A x \in DOMAIN msg : msg'[x] = msg[x]
    BY <1>3 DEF Post, Put
  <2>2. UNCHANGED <<released, owner, bindings, pc>>
    BY <1>3 DEF Post, pickVars
  <2>3. \A d \in Delivery : d[1] = e => pc[d] \in Stopped
    BY <2>1 DEF IInv, TaskInv, Stopped
  <2>4. UnboundStaysUnbound'
    BY <2>1, <2>2, <2>3 DEF UnboundInv, UnboundStaysUnbound, Stopped
  <2>5. m.chat = c
    OBVIOUS
  <2>6. m.late => m.chat \in released
    BY <2>5, Zenon
  <2> HIDE DEF m
  <2>7. \A x \in DOMAIN msg' : msg'[x].late => msg'[x].chat \in released'
    BY <2>1, <2>2, <2>6 DEF UnboundInv
  <2> QED BY <2>2, <2>4, <2>7 DEF UnboundInv
<1>4. ASSUME NEW d \in Delivery, Deliver(d) PROVE UnboundInv'
  <2>1. PICK p \in {"duplicate", "lookup", "ignored"} : pc' = [pc EXCEPT ![d] = p]
    BY <1>4 DEF Deliver
  <2>2. UNCHANGED <<released, owner, bindings, msg>>
    BY <1>4 DEF Deliver, pickVars
  <2> QED BY <1>0, <2>1, <2>2, StoppedStep DEF Stopped
<1>5. ASSUME NEW d \in Delivery, Lookup(d) PROVE UnboundInv'
  <2>1. UNCHANGED <<released, owner, bindings, msg>>
    BY <1>5 DEF Lookup, pickVars
  <2>2. CASE pc' = [pc EXCEPT ![d] = "unauthorised"] \/ pc' = [pc EXCEPT ![d] = "unbound"]
    BY <1>0, <2>1, <2>2, StoppedStep DEF Stopped
  <2>3. CASE pc' = [pc EXCEPT ![d] = "match"] /\ msg[d[1]].chat \in DOMAIN bindings
    <3>1. d[1] \in DOMAIN msg => ~msg[d[1]].late
      BY <2>3 DEF UnboundInv
    <3> QED BY <1>0, <2>1, <2>3, <3>1, StoppedStep
  <2> QED BY <1>5, <2>2, <2>3 DEF Lookup
<1>6. ASSUME NEW d \in Delivery, Match(d) \/ Consume(d) \/ Send(d) \/ Enqueue(d) \/ Notice(d) PROVE UnboundInv'
  <2>1. PICK p : pc' = [pc EXCEPT ![d] = p]
    BY <1>6 DEF Match, Consume, Send, Enqueue, Notice
  <2>2. UNCHANGED <<released, owner, bindings, msg>>
    BY <1>6 DEF Match, Consume, Send, Enqueue, Notice, pickVars
  <2>3. pc[d] \in {"match", "consume", "send", "waiting", "notice"}
    BY <1>6 DEF Match, Consume, Send, Enqueue, Notice
  <2>4. d[1] \in DOMAIN msg => ~msg[d[1]].late
    BY <2>3 DEF UnboundInv, UnboundStaysUnbound
  <2> QED BY <1>0, <2>1, <2>2, <2>4, StoppedStep
<1>7. CASE UNCHANGED <<released, owner, bindings, msg, pc>>
  BY <1>7 DEF UnboundInv, UnboundStaysUnbound
<1>8. ASSUME NEW s \in Session, Disconnect(s) PROVE UnboundInv'
  <2>1. /\ UNCHANGED <<released, owner, bindings, msg>>
        /\ \A d \in Delivery : pc'[d] = pc[d] \/ (pc[d] = "waiting" /\ pc'[d] = "notice")
    BY <1>8, DisconnectMoves DEF pickVars
  <2> QED BY <2>1 DEF UnboundInv, UnboundStaysUnbound
<1> QED
  BY <1>1, <1>2, <1>3, <1>4, <1>5, <1>6, <1>7, <1>8
  DEF Next, Slack, Agent, Task, Tick, Connect, Disconnect, Fill, Drain, Pick, RootPosted, RootFails,
      Request, Record, Prompted, PromptFails, Forget, vars, taskVars, pickVars
-----------------------------------------------------------------------------
(* The theorems.                                                            *)

LEMMA Inductive == Spec => []IInv
<1>1. IInv /\ [Next]_vars => IInv'
  BY TypeStep, PickStep, TaskStep, AskStep, HitStep, GoneStep, OpenStep, MetStep DEF IInv
<1> QED BY InitInv, <1>1, PTL DEF Spec

\* Every variable keeps its type.
THEOREM TypeCorrect == Spec => []TypeOK
<1>1. IInv => TypeOK
  BY DEF IInv
<1> QED BY <1>1, Inductive, PTL

\* A verdict reaches only the session that asked, and only from the authorised
\* user who bound the thread to it, whatever handlers are interleaved.
THEOREM VerdictsAreAnswers == Spec => []VerdictIsAnAnswer
<1>1. IInv => VerdictIsAnAnswer
  BY DEF IInv, TypeOK, IsMap, TaskInv, HitInv, VerdictIsAnAnswer, Past
<1> QED BY <1>1, Inductive, PTL

\* No request is matched after its time.
THEOREM AnsweredInTime == Spec => []VerdictInTime
<1>1. IInv => VerdictInTime
  BY DEF IInv, HitInv, VerdictInTime
<1> QED BY <1>1, Inductive, PTL

\* A request whose answer was consumed is never in the table again.
THEOREM AnsweredStaysGone == Spec => []AnsweredIsGone
<1>1. IInv => AnsweredIsGone
  BY DEF IInv
<1> QED BY <1>1, Inductive, PTL

\* A posted question that was never live beside another one of its id stays
\* answerable until it is answered or expires, whatever other requests come and go.
THEOREM QuestionsStayOpen == Spec => []QuestionStaysOpen
<1>1. IInv => QuestionStaysOpen
  BY DEF IInv, OpenInv, QuestionStaysOpen
<1> QED BY <1>1, Inductive, PTL

\* A reply written after /cc unbind reaches no agent, whatever was under way:
\* the thread is bound once, so it stays unbound (slack.rs:78-91, 191-201).
THEOREM UnboundStays == Spec => []UnboundStaysUnbound
<1>1. Init => UnboundInv
  BY DEF Init, UnboundInv, UnboundStaysUnbound, Empty
<1>2. IInv /\ UnboundInv /\ [Next]_vars => UnboundInv'
  BY UnboundStep
<1>3. UnboundInv => UnboundStaysUnbound
  BY DEF UnboundInv
<1> QED BY <1>1, <1>2, <1>3, Inductive, PTL DEF Spec
-----------------------------------------------------------------------------
(* Replies that are dropped as unbound.                                     *)

\* A thread of the state file or of a picker is bound once the picker is done;
\* a bound thread stays bound until it is unbound, and a reply is written in a
\* thread that can be seen.
VisibleInv ==
  /\ DOMAIN Loaded \subseteq DOMAIN owner
  /\ \A p \in PickId : pickPc[p] = "bound" => pick[p].chat \in DOMAIN owner
  /\ \A c \in DOMAIN owner : c \in DOMAIN bindings \cup released
  /\ \A e \in DOMAIN msg : msg[e].chat \in Visible

\* The pickers whose root is in its channel.
Rooted == {p \in PickId : pickPc[p] \in {"posted", "lost", "bound"}}

\* A root stays where it is, and visible.
LEMMA RootsStay ==
  ASSUME IInv, [Next]_vars
  PROVE  /\ \A p \in Rooted : p \in Rooted' /\ pick'[p].chat = pick[p].chat
         /\ \A c \in Visible : c \in Visible'
<1>0. pickPc \in [PickId -> {"idle", "posting", "refused", "posted", "lost", "bound"}]
      /\ \A p \in Rooted : p \in DOMAIN pick
  BY DEF IInv, TypeOK, PickInv, Rooted
<1>1. \A p \in Rooted : p \in Rooted' /\ pick'[p].chat = pick[p].chat
  <2>1. ASSUME NEW p \in PickId, NEW u \in User, NEW s \in Session, NEW ch \in Channel, Pick(p, u, s, ch)
        PROVE  \A q \in Rooted : q \in Rooted' /\ pick'[q].chat = pick[q].chat
    BY <1>0, <2>1 DEF Pick, Put, Rooted
  <2>2. ASSUME NEW p \in PickId, RootPosted(p)
        PROVE  \A q \in Rooted : q \in Rooted' /\ pick'[q].chat = pick[q].chat
    BY <1>0, <2>2 DEF RootPosted, Rooted
  <2>3. ASSUME NEW p \in PickId, RootFails(p) \/ Bind(p)
        PROVE  \A q \in Rooted : q \in Rooted' /\ pick'[q].chat = pick[q].chat
    BY <1>0, <2>3 DEF RootFails, Bind, Rooted
  <2>4. CASE UNCHANGED <<pickPc, pick>>
    BY <2>4 DEF Rooted
  <2> QED
    BY <2>1, <2>2, <2>3, <2>4
    DEF Next, Slack, Agent, Task, Tick, Connect, Disconnect, Fill, Drain, Unbind, Post, Deliver, Lookup, Match,
        Consume, Send, Enqueue, Notice, Request, Record, Prompted, PromptFails, Forget, vars, taskVars, pickVars
<1>2. Visible = DOMAIN Loaded \cup {pick[p].chat : p \in Rooted}
  BY DEF Visible, Rooted
<1>3. Visible' = DOMAIN Loaded \cup {pick'[p].chat : p \in Rooted'}
  BY DEF Visible, Rooted
<1> HIDE DEF Visible, Rooted
<1> QED BY <1>1, <1>2, <1>3

\* A step changes the tables as VisibleInv needs it.
LEMMA VisibleStep == ASSUME IInv, VisibleInv, [Next]_vars PROVE VisibleInv'
<1>0. \A c \in Visible : c \in Visible'
  BY RootsStay
<1>1. ASSUME NEW p \in PickId, Bind(p) PROVE VisibleInv'
  <2>1. /\ DOMAIN bindings' = DOMAIN bindings \cup {pick[p].chat}
        /\ DOMAIN owner' = DOMAIN owner \cup {pick[p].chat}
        /\ UNCHANGED <<released, msg, pick>>
        /\ \A q \in PickId : pickPc'[q] = "bound" => q = p \/ pickPc[q] = "bound"
    BY <1>1 DEF Bind, Put, taskVars, IInv, TypeOK
  <2> QED BY <1>0, <2>1 DEF VisibleInv
<1>2. ASSUME NEW u \in User, NEW ch \in Channel, Unbind(u, ch) PROVE VisibleInv'
  <2>1. /\ DOMAIN bindings' = Retained(u, ch) /\ UNCHANGED <<owner, msg, pick, pickPc>>
        /\ released' = released \cup {c \in DOMAIN bindings : c[1] = ch /\ bindings[c].user = u}
    BY <1>2 DEF Unbind, Restrict, taskVars, pickVars
  <2>2. \A c \in DOMAIN bindings \cup released : c \in DOMAIN bindings' \cup released'
    BY <2>1 DEF Retained
  <2> QED BY <1>0, <2>1, <2>2 DEF VisibleInv
<1>3. ASSUME NEW e \in EventId, NEW u \in User, NEW c \in Visible,
             NEW v \in {<<>>} \cup (RequestId \X Behavior), Post(e, u, c, v)
      PROVE  VisibleInv'
  <2>1. /\ DOMAIN msg' = DOMAIN msg \cup {e} /\ msg'[e].chat = c
        /\ \A x \in DOMAIN msg : x # e => msg'[x] = msg[x]
    BY <1>3 DEF Post, Put
  <2>2. UNCHANGED <<released, owner, bindings, pick, pickPc>>
    BY <1>3 DEF Post, pickVars
  <2>3. \A x \in DOMAIN msg' : msg'[x].chat \in Visible'
    BY <1>0, <2>1 DEF VisibleInv
  <2> QED BY <2>2, <2>3 DEF VisibleInv
<1>4. ASSUME NEW p \in PickId, NEW u \in User, NEW s \in Session, NEW ch \in Channel, Pick(p, u, s, ch)
      PROVE  VisibleInv'
  <2>1. \A q \in PickId : pickPc'[q] = "bound" => pickPc[q] = "bound" /\ pick'[q] = pick[q]
    <3>1. \A q \in PickId : pickPc'[q] = "bound" => pickPc[q] = "bound" /\ q # p /\ q \in DOMAIN pick
      BY <1>4 DEF Pick, IInv, TypeOK, PickInv
    <3> QED BY <1>4, <3>1 DEF Pick, Put
  <2>2. UNCHANGED <<released, owner, bindings, msg>>
    BY <1>4 DEF Pick, taskVars
  <2> QED BY <1>0, <2>1, <2>2 DEF VisibleInv
<1>5. ASSUME NEW p \in PickId, RootPosted(p) \/ RootFails(p) PROVE VisibleInv'
  <2>1. \A q \in PickId : pickPc'[q] = "bound" => pickPc[q] = "bound" /\ pick'[q] = pick[q]
    BY <1>5 DEF RootPosted, RootFails, IInv, TypeOK, PickInv
  <2>2. UNCHANGED <<released, owner, bindings, msg>>
    BY <1>5 DEF RootPosted, RootFails, taskVars
  <2> QED BY <1>0, <2>1, <2>2 DEF VisibleInv
<1>6. CASE UNCHANGED <<released, owner, bindings, msg, pick, pickPc>>
  BY <1>0, <1>6 DEF VisibleInv
<1> QED
  BY <1>1, <1>2, <1>3, <1>4, <1>5, <1>6
  DEF Next, Slack, Agent, Task, Tick, Connect, Disconnect, Fill, Drain, Deliver, Lookup, Match, Consume, Send,
      Enqueue, Notice, Request, Record, Prompted, PromptFails, Forget, vars, taskVars, pickVars

\* What is said of a step that drops the reply of d.
Explained(d) ==
  \/ msg[d[1]].chat \in released
  \/ \E p \in DOMAIN pick : pick[p].chat = msg[d[1]].chat /\ pickPc[p] \in {"posted", "lost"}

\* Only the lookup drops a reply, of a thread that is not bound.
LEMMA OnlyLookupDrops ==
  ASSUME IInv, [Next]_vars, NEW d \in Delivery, pc[d] # "unbound", pc'[d] = "unbound"
  PROVE  d[1] \in DOMAIN msg /\ msg[d[1]].chat \notin DOMAIN bindings
<1>0. pc \in [Delivery -> Pc]
  BY DEF IInv, TypeOK
<1>1. ASSUME NEW x \in Delivery, Deliver(x) PROVE FALSE
  BY <1>0, <1>1 DEF Deliver
<1>2. ASSUME NEW x \in Delivery, Lookup(x)
      PROVE  d[1] \in DOMAIN msg /\ msg[d[1]].chat \notin DOMAIN bindings
  <2>1. x = d /\ pc[d] = "lookup"
    BY <1>0, <1>2 DEF Lookup
  <2>2. msg[d[1]].chat \notin DOMAIN bindings
    BY <1>0, <1>2, <2>1 DEF Lookup
  <2> QED BY <2>1, <2>2 DEF IInv, TaskInv
<1>3. ASSUME NEW x \in Delivery, Match(x) \/ Consume(x) \/ Send(x) \/ Enqueue(x) \/ Notice(x) PROVE FALSE
  BY <1>0, <1>3 DEF Match, Consume, Send, SendOutcome, Enqueue, Notice
<1>4. CASE UNCHANGED pc
  BY <1>4
<1>5. ASSUME NEW s \in Session, Disconnect(s) PROVE FALSE
  BY <1>5, DisconnectMoves
<1> QED
  BY <1>1, <1>2, <1>3, <1>4, <1>5
  DEF Next, Slack, Agent, Task, Tick, Connect, Disconnect, Fill, Drain, Pick, RootPosted, RootFails, Bind, Unbind,
      Post, Request, Record, Prompted, PromptFails, Forget, vars, taskVars

\* A drop has one of the reasons that can be named.
LEMMA DropStep ==
  ASSUME IInv, VisibleInv, [Next]_vars, NEW d \in Delivery, pc[d] # "unbound", pc'[d] = "unbound"
  PROVE  Explained(d)
<1> DEFINE c == msg[d[1]].chat
<1>1. d[1] \in DOMAIN msg /\ c \notin DOMAIN bindings
  BY OnlyLookupDrops
<1>2. c \in Visible /\ (c \in DOMAIN owner => c \in released)
  BY <1>1 DEF VisibleInv
<1>3. CASE c \in DOMAIN Loaded
  BY <1>2, <1>3 DEF VisibleInv, Explained
<1>4. ASSUME NEW p \in PickId, pickPc[p] \in {"posted", "lost", "bound"}, c = pick[p].chat
      PROVE  Explained(d)
  <2>1. p \in DOMAIN pick
    BY <1>4 DEF IInv, PickInv
  <2> QED BY <1>2, <1>4, <2>1 DEF VisibleInv, Explained
<1> QED BY <1>2, <1>3, <1>4 DEF Visible

LEMMA VisibleAlways == Spec => []VisibleInv
<1>1. Init => VisibleInv
  <2> SUFFICES ASSUME Init PROVE VisibleInv
    OBVIOUS
  <2>1. \A p \in PickId : pickPc[p] # "bound"
    BY DEF Init
  <2>2. DOMAIN msg = {}
    BY DEF Init, Empty
  <2> QED BY <2>1, <2>2 DEF Init, VisibleInv
<1>2. IInv /\ VisibleInv /\ [Next]_vars => VisibleInv'
  BY VisibleStep
<1> QED BY <1>1, <1>2, Inductive, PTL DEF Spec

\* A reply is dropped as unbound only when its thread was unbound, or its root
\* waits for its binding or lost it for ever (slack.rs:84-90, 235-253).
THEOREM DropsAreExplained == Spec => DropIsExplained
<1> DEFINE Step == \A d \in Delivery : pc[d] # "unbound" /\ pc'[d] = "unbound" => Explained(d)
<1>1. IInv /\ VisibleInv /\ [Next]_vars => [Step]_vars
  BY DropStep
<1>2. [Step]_vars <=>
        [\A d \in Delivery : pc[d] # "unbound" /\ pc'[d] = "unbound" =>
           \/ msg[d[1]].chat \in released
           \/ \E p \in DOMAIN pick : pick[p].chat = msg[d[1]].chat /\ pickPc[p] \in {"posted", "lost"}]_vars
  BY DEF Explained
<1> HIDE DEF Step
<1> QED BY <1>1, <1>2, Inductive, VisibleAlways, PTL DEF Spec, DropIsExplained
-----------------------------------------------------------------------------
(* One delivery of every event.                                             *)

\* The de-duplication remembers more events than there are.
Roomy == IsFiniteSet(EventId) /\ Capacity \in Nat /\ Cardinality(EventId) <= Capacity

\* The places of a delivery that was not refused as a duplicate.
Processed(d) == pc[d] \notin {"idle", "duplicate"}

\* The queue is as long as the set is large, and the events that were processed
\* are in the set.
SeenInv ==
  /\ IsFiniteSet(seen) /\ Len(order) = Cardinality(seen)
  /\ \A d \in Delivery : Processed(d) => d[1] \in seen
  /\ \A d1, d2 \in Delivery : d1[1] = d2[1] /\ Processed(d1) /\ Processed(d2) => d1 = d2

\* With room for every event none is forgotten.
LEMMA NothingForgotten ==
  ASSUME Roomy, order \in Seq(EventId), seen \subseteq EventId, SeenInv, NEW e \in EventId, e \notin seen
  PROVE  /\ D!Remembered(e) = seen \cup {e} /\ IsFiniteSet(D!Remembered(e))
         /\ Len(D!Pushed(e)) = Cardinality(D!Remembered(e))
<1>1. IsFiniteSet(seen \cup {e}) /\ Cardinality(seen \cup {e}) = Cardinality(seen) + 1
  BY FS_AddElement DEF SeenInv
<1>2. Cardinality(seen \cup {e}) <= Cardinality(EventId)
  BY FS_Subset DEF Roomy
<1>3. Cardinality(seen) \in Nat /\ Cardinality(EventId) \in Nat
  BY FS_CardinalityType DEF SeenInv, Roomy
<1>4. ~D!Overfull
  BY <1>1, <1>2, <1>3 DEF D!Overfull, SeenInv, Roomy
<1>5. Len(Append(order, e)) = Len(order) + 1
  OBVIOUS
<1> QED BY <1>1, <1>4, <1>5 DEF D!Remembered, D!Pushed, SeenInv

\* A step other than Deliver leaves the de-duplication alone, and moves only
\* deliveries that were processed before.
LEMMA SeenFrame ==
  ASSUME IInv, [Next]_vars, \A d \in Delivery : ~Deliver(d)
  PROVE  UNCHANGED <<order, seen>> /\ \A d \in Delivery : Processed(d)' <=> Processed(d)
<1>0. pc \in [Delivery -> Pc]
  BY DEF IInv, TypeOK
<1>1. ASSUME NEW x \in Delivery, Lookup(x) \/ Match(x) \/ Consume(x) \/ Send(x) \/ Enqueue(x) \/ Notice(x)
      PROVE  UNCHANGED <<order, seen>> /\ \A d \in Delivery : Processed(d)' <=> Processed(d)
  <2>1. pc[x] \in {"lookup", "match", "consume", "send", "waiting", "notice"} /\ UNCHANGED <<order, seen>>
    BY <1>1 DEF Lookup, Match, Consume, Send, Enqueue, Notice
  <2>2. /\ \A d \in Delivery : d # x => pc'[d] = pc[d]
        /\ pc'[x] \notin {"idle", "duplicate"}
    BY <1>0, <1>1 DEF Lookup, Match, Consume, Send, SendOutcome, Enqueue, Notice
  <2> QED BY <2>1, <2>2 DEF Processed
<1>2. CASE UNCHANGED <<order, seen, pc>>
  BY <1>2 DEF Processed
<1>3. ASSUME NEW s \in Session, Disconnect(s)
      PROVE  UNCHANGED <<order, seen>> /\ \A d \in Delivery : Processed(d)' <=> Processed(d)
  BY <1>3, DisconnectMoves DEF Processed
<1> QED
  BY <1>1, <1>2, <1>3
  DEF Next, Slack, Agent, Task, Tick, Connect, Disconnect, Fill, Drain, Pick, RootPosted, RootFails, Bind, Unbind,
      Post, Request, Record, Prompted, PromptFails, Forget, vars, taskVars

LEMMA SeenStep == ASSUME Roomy, IInv, SeenInv, [Next]_vars PROVE SeenInv'
<1>0. pc \in [Delivery -> Pc] /\ order \in Seq(EventId) /\ seen \subseteq EventId
  BY DEF IInv, TypeOK
<1>1. ASSUME NEW d \in Delivery, Deliver(d) PROVE SeenInv'
  <2>0. d[1] \in EventId /\ ~Processed(d) /\ \A x \in Delivery : x # d => pc'[x] = pc[x]
    BY <1>0, <1>1 DEF Deliver, Delivery, Processed
  <2>1. CASE pc'[d] = "duplicate" /\ UNCHANGED <<order, seen>>
    BY <2>0, <2>1 DEF SeenInv, Processed
  <2>2. CASE d[1] \notin seen /\ order' = D!Pushed(d[1]) /\ seen' = D!Remembered(d[1])
    <3>1. seen' = seen \cup {d[1]} /\ IsFiniteSet(seen') /\ Len(order') = Cardinality(seen')
      BY <1>0, <2>0, <2>2, NothingForgotten
    <3>2. \A x \in Delivery : x # d /\ Processed(x)' => Processed(x) /\ x[1] \in seen /\ x[1] # d[1]
      BY <2>0, <2>2 DEF SeenInv, Processed
    <3>3. \A x \in Delivery : Processed(x)' => x[1] \in seen'
      BY <3>1, <3>2
    <3>4. \A x, y \in Delivery : x[1] = y[1] /\ Processed(x)' /\ Processed(y)' => x = y
      BY <3>2 DEF SeenInv
    <3> QED BY <3>1, <3>3, <3>4 DEF SeenInv
  <2> QED BY <1>0, <1>1, <2>1, <2>2 DEF Deliver
<1>2. CASE \A d \in Delivery : ~Deliver(d)
  <2>1. UNCHANGED <<order, seen>> /\ \A d \in Delivery : Processed(d)' <=> Processed(d)
    BY <1>2, SeenFrame
  <2> QED BY <2>1 DEF SeenInv
<1> QED BY <1>1, <1>2

\* Slack may deliver an event as often as it likes: one delivery is processed,
\* for every number of events that the queue has room for (events.rs:95-106).
THEOREM EventsAreProcessedOnce == ASSUME Roomy PROVE Spec => []OncePerEvent
<1>1. Init => SeenInv
  BY EmptySeq, FS_EmptySet DEF Init, SeenInv, Processed
<1>2. IInv /\ SeenInv /\ [Next]_vars => SeenInv'
  BY Roomy, SeenStep
<1>3. SeenInv => OncePerEvent
  BY DEF SeenInv, OncePerEvent, Processed
<1> QED BY <1>1, <1>2, <1>3, Inductive, PTL DEF Spec
=============================================================================
