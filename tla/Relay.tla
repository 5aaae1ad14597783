------------------------------- MODULE Relay -------------------------------
(***************************************************************************)
(* The routing core of the relay: how thread replies from Slack become     *)
(* Inbound messages or permission verdicts for an agent, how sessions are  *)
(* bound to threads, and how permission requests are asked and answered    *)
(* (relay/src/routes/slack.rs, relay/src/permission.rs).                   *)
(*                                                                         *)
(* Every handler is a tokio task.  Between two of its awaits it runs alone *)
(* on the data it has locked; at an await any other handler may run.  So a *)
(* handler is a sequence of actions, one per critical section or call of   *)
(* Slack, and its locals (the binding it cloned, the request it matched)   *)
(* survive from one to the next while the shared tables move on.           *)
(*                                                                         *)
(* One life of the process: the tables start from a loaded state file and  *)
(* the process does not crash here.                                        *)
(***************************************************************************)
EXTENDS Integers, Sequences, Functions

CONSTANTS
  User, Authorised,     \* Slack users; those in Store.users (it never shrinks)
  Session, Channel,     \* session names; channels, as the ranks of their names
  RequestId, CallId,    \* ids of permission requests; single calls of the handler
  EventId, MaxDelivery, \* Slack message events; deliveries of one event
  PickId, MaxUnbind,    \* uses of the picker; bound: uses of /cc unbind
  Loaded, FirstTs,      \* bindings of the state file; the next Slack timestamp
  Ttl, MaxTime,         \* PENDING_TTL_SECS; bound: the clock
  Capacity              \* DEDUPE_CAPACITY

Chat == Channel \X Nat                     \* chat_id, "{channel}:{thread_ts}"
Behavior == {"allow", "deny"}
Binding == [session : Session, user : User, created : Nat]

\* f is a map from keys in S to values in T (a Rust map).
IsMap(f, S, T) == f = [x \in DOMAIN f |-> f[x]] /\ DOMAIN f \subseteq S
                  /\ \A x \in DOMAIN f : f[x] \in T
Put(f, k, v) == [x \in DOMAIN f \cup {k} |-> IF x = k THEN v ELSE f[x]]
Remove(f, k) == Restrict(f, DOMAIN f \ {k})
Empty == [x \in {} |-> x]

ASSUME UserAssumption == Authorised \subseteq User
ASSUME ChannelAssumption == Channel \subseteq Nat
ASSUME TimeAssumption == Ttl \in Nat /\ MaxTime \in Nat /\ FirstTs \in Nat
ASSUME LoadedAssumption == /\ IsMap(Loaded, Chat, Binding)
                           /\ \A c \in DOMAIN Loaded : c[2] < FirstTs

VARIABLES
  now,                  \* the clock, AppState.now
  bindings, pending,    \* Store.bindings; AppState.pending
  order, seen,          \* AppState.dedupe
  online,               \* sessions in the hub whose receiver is alive
  full,                 \* those of them whose queue has no room
  msg,                  \* Slack: the messages posted in threads, by event
  pc, snap, hit,        \* handle_message: place, cloned binding, matched request
  pickPc, pick,         \* interactions: place; selection and, once posted, root
  nextTs,               \* Slack: the timestamp of the next root post
  askPc, ask, askChat,  \* handle_request: place, call, chosen thread, per session
  call, prompted,       \* history: calls of handle_request; those fully posted
  met,                  \* history: calls that met another one under their id
  owner, released,      \* history: who bound each thread; threads unbound since
  unbinds               \* bound: uses of /cc unbind so far

taskVars == <<order, seen, msg, pc, snap, hit>>
pickVars == <<pickPc, pick, nextTs, owner>>
askVars  == <<askPc, ask, askChat, call, prompted, met>>
vars == <<now, bindings, pending, online, full, released, unbinds, taskVars, pickVars, askVars>>

Delivery == EventId \X (1..MaxDelivery)
Msg == [user : User, chat : Chat, parse : {<<>>} \cup (RequestId \X Behavior), late : BOOLEAN]
Hit == [id : RequestId, behavior : Behavior, call : CallId, at : Nat]
Pending == [chat_id : Chat, session : Session, created : Nat, call : CallId]
Call == [session : Session, id : RequestId, at : Nat]
Ended == {"duplicate", "ignored", "unauthorised", "unbound",
          "verdictSent", "inboundSent", "noticed", "noticeFailed"}
Pc == {"idle", "lookup", "match", "consume", "send", "waiting", "notice"} \cup Ended

D == INSTANCE Dedupe WITH MaxAccepted <- 0, answer <- <<>>, accepted <- <<>>

Init ==
  /\ now = 0
  /\ bindings = Loaded /\ pending = Empty
  /\ order = <<>> /\ seen = {}
  /\ online = {} /\ full = {}
  /\ msg = Empty
  /\ pc = [d \in Delivery |-> "idle"] /\ snap = Empty /\ hit = Empty
  /\ pickPc = [p \in PickId |-> "idle"] /\ pick = Empty /\ nextTs = FirstTs
  /\ askPc = [s \in Session |-> "idle"] /\ ask = Empty /\ askChat = Empty
  /\ call = Empty /\ prompted = {} /\ met = {}
  /\ owner = Loaded /\ released = {} /\ unbinds = 0

Tick ==
  /\ now < MaxTime
  /\ now' = now + 1
  /\ UNCHANGED <<bindings, pending, online, full, released, unbinds, taskVars, pickVars, askVars>>
-----------------------------------------------------------------------------
(* The hub, as its callers see it: whether a session has a receiver, and    *)
(* whether its queue has room.  A connection whose task is inside           *)
(* handle_request notices the loss of its peer only afterwards.             *)
Connect(s) ==
  /\ s \notin online
  /\ online' = online \cup {s}
  /\ UNCHANGED <<now, bindings, pending, full, released, unbinds, taskVars, pickVars, askVars>>

\* The receiver is dropped: every send that waits for room in its queue fails.
WaitsFor(d, s) == pc[d] = "waiting" /\ snap[d].session = s
GivenBack(s) == [d \in Delivery |-> IF WaitsFor(d, s) THEN "notice" ELSE pc[d]]

Disconnect(s) ==
  /\ s \in online /\ askPc[s] = "idle"
  /\ online' = online \ {s} /\ full' = full \ {s}
  /\ pc' = GivenBack(s)
  /\ UNCHANGED <<now, bindings, pending, released, unbinds, order, seen, msg, snap, hit, pickVars, askVars>>

\* The queue fills up, which matters only to a send that waits; the
\* connection's task takes a message out of it.
Fill(s) ==
  /\ s \in online \ full /\ \E d \in Delivery : WaitsFor(d, s)
  /\ full' = full \cup {s}
  /\ UNCHANGED <<now, bindings, pending, online, released, unbinds, taskVars, pickVars, askVars>>

Drain(s) ==
  /\ s \in full
  /\ full' = full \ {s}
  /\ UNCHANGED <<now, bindings, pending, online, released, unbinds, taskVars, pickVars, askVars>>
-----------------------------------------------------------------------------
(* interactions: a session is picked, the root is posted, its thread bound. *)
Pick(p, u, s, ch) ==
  /\ pickPc[p] = "idle"
  /\ u \in Authorised
  /\ pickPc' = [pickPc EXCEPT ![p] = "posting"]
  /\ pick' = Put(pick, p, [user |-> u, session |-> s, chat |-> <<ch, 0>>])
  /\ UNCHANGED <<now, bindings, pending, online, full, released, unbinds, taskVars, nextTs, owner, askVars>>

\* Slack accepts the post: the root is visible before the relay has its answer.
RootPosted(p) ==
  /\ pickPc[p] = "posting"
  /\ pickPc' = [pickPc EXCEPT ![p] = "posted"]
  /\ pick' = [pick EXCEPT ![p].chat = <<@[1], nextTs>>]
  /\ nextTs' = nextTs + 1
  /\ UNCHANGED <<now, bindings, pending, online, full, released, unbinds, taskVars, owner, askVars>>

\* The post fails, or its answer is lost to the client's timeout although the
\* root is visible: the user is told to invite the bot, nothing is bound.
RootFails(p) ==
  /\ pickPc[p] \in {"posting", "posted"}
  /\ pickPc' = [pickPc EXCEPT ![p] = IF @ = "posting" THEN "refused" ELSE "lost"]
  /\ UNCHANGED <<now, bindings, pending, online, full, released, unbinds, taskVars, pick, nextTs, owner, askVars>>

Bind(p) ==
  /\ pickPc[p] = "posted"
  /\ pickPc' = [pickPc EXCEPT ![p] = "bound"]
  /\ LET k == pick[p]
         b == [session |-> k.session, user |-> k.user, created |-> now]
     IN  /\ bindings' = Put(bindings, k.chat, b)
         /\ owner' = Put(owner, k.chat, b)
  /\ UNCHANGED <<now, pending, online, full, released, unbinds, taskVars, pick, nextTs, askVars>>

\* /cc unbind: of the user's threads in this channel, none is retained.
\* Mutants: the channel is compared the wrong way round; the user is not compared.
RetainedElsewhere(u, ch) == {c \in DOMAIN bindings : ~(c[1] # ch /\ bindings[c].user = u)}
RetainedOfNobody(u, ch) == {c \in DOMAIN bindings : c[1] # ch}
Retained(u, ch) == {c \in DOMAIN bindings : ~(c[1] = ch /\ bindings[c].user = u)}

Unbind(u, ch) ==
  /\ unbinds < MaxUnbind
  /\ u \in Authorised
  /\ bindings' = Restrict(bindings, Retained(u, ch))
  /\ released' = released \cup {c \in DOMAIN bindings : c[1] = ch /\ bindings[c].user = u}
  /\ unbinds' = unbinds + 1
  /\ UNCHANGED <<now, pending, online, full, taskVars, pickVars, askVars>>
-----------------------------------------------------------------------------
(* Slack: a user replies in a visible thread; the event is delivered, and   *)
(* delivered again when the answer to an earlier delivery was late or lost. *)
Visible == DOMAIN Loaded \cup {pick[p].chat : p \in {q \in PickId : pickPc[q] \in {"posted", "lost", "bound"}}}

Post(e, u, c, v) ==
  /\ e \notin DOMAIN msg /\ pc[<<e, 1>>] = "idle"
  /\ c \in Visible
  /\ msg' = Put(msg, e, [user |-> u, chat |-> c, parse |-> v, late |-> c \in released])
  /\ UNCHANGED <<now, bindings, pending, online, full, released, unbinds, order, seen, pc, snap, hit, pickVars, askVars>>

\* handle_message: the de-duplication comes first, also for the events that
\* are no candidates (a message of a bot, an edit, a message in no thread).
Deliver(d) ==
  /\ pc[d] = "idle"
  /\ d[2] > 1 => pc[<<d[1], d[2] - 1>>] # "idle"
  /\ \/ /\ d[1] \in seen
        /\ pc' = [pc EXCEPT ![d] = "duplicate"]
        /\ UNCHANGED <<order, seen>>
     \/ /\ d[1] \notin seen
        /\ \/ d[1] \in DOMAIN msg /\ pc' = [pc EXCEPT ![d] = "lookup"]
           \/ d[1] \notin DOMAIN msg /\ pc' = [pc EXCEPT ![d] = "ignored"]
        /\ order' = D!Pushed(d[1]) /\ seen' = D!Remembered(d[1])
  /\ UNCHANGED <<now, bindings, pending, online, full, released, unbinds, msg, snap, hit, pickVars, askVars>>

\* Under the store lock: the user is authorised, the binding is cloned.
Lookup(d) ==
  LET m == msg[d[1]]
  IN  /\ pc[d] = "lookup"
      /\ \/ /\ m.user \notin Authorised
            /\ pc' = [pc EXCEPT ![d] = "unauthorised"] /\ UNCHANGED snap
         \/ /\ m.user \in Authorised /\ m.chat \notin DOMAIN bindings
            /\ pc' = [pc EXCEPT ![d] = "unbound"] /\ UNCHANGED snap
         \/ /\ m.user \in Authorised /\ m.chat \in DOMAIN bindings
            /\ pc' = [pc EXCEPT ![d] = "match"]
            /\ snap' = Put(snap, d, bindings[m.chat])
      /\ UNCHANGED <<now, bindings, pending, online, full, released, unbinds, order, seen, msg, hit, pickVars, askVars>>

\* Mutants: a request expires a second too early, or too late.
SweepEarly(p, t) == Restrict(p, {id \in DOMAIN p : t - p[id].created < Ttl})
SweepLate(p, t) == Restrict(p, {id \in DOMAIN p : t - p[id].created <= Ttl + 1})
Sweep(p, t) == Restrict(p, {id \in DOMAIN p : t - p[id].created <= Ttl})

\* Mutant: the user who answers is not compared with the one who bound.
AnswersAnyone(m, b, p) ==
  /\ m.parse # <<>>
  /\ m.parse[1] \in DOMAIN p
  /\ p[m.parse[1]].chat_id = m.chat /\ p[m.parse[1]].session = b.session

\* match_verdict: m, in a thread bound as b, answers an entry of p.
Answers(m, b, p) ==
  /\ m.parse # <<>>
  /\ m.parse[1] \in DOMAIN p
  /\ LET r == p[m.parse[1]]
     IN  r.chat_id = m.chat /\ r.session = b.session /\ m.user = b.user

MatchedRequest(m, p) ==
  [id |-> m.parse[1], behavior |-> m.parse[2], call |-> p[m.parse[1]].call, at |-> now]

\* Under the pending lock: sweep, then match.  The lock is released after it.
Match(d) ==
  LET m == msg[d[1]]
      p == Sweep(pending, now)
  IN  /\ pc[d] = "match"
      /\ pending' = p
      /\ \/ /\ Answers(m, snap[d], p)
            /\ pc' = [pc EXCEPT ![d] = "consume"]
            /\ hit' = Put(hit, d, MatchedRequest(m, p))
         \/ /\ ~Answers(m, snap[d], p)
            /\ pc' = [pc EXCEPT ![d] = "send"] /\ UNCHANGED hit
      /\ UNCHANGED <<now, bindings, online, full, released, unbinds, order, seen, msg, snap, pickVars, askVars>>

\* Mutant: the matched request stays in the table.
ConsumedNot(d) == pending

\* Under the pending lock, taken again: the matched id is removed.
Consumed(d) == Remove(pending, hit[d].id)

Consume(d) ==
  /\ pc[d] = "consume"
  /\ pending' = Consumed(d)
  /\ pc' = [pc EXCEPT ![d] = "send"]
  /\ UNCHANGED <<now, bindings, online, full, released, unbinds, order, seen, msg, snap, hit, pickVars, askVars>>

\* Mutant: nothing follows when the session of a verdict is offline.
SendOutcomeSilent(d) ==
  IF snap[d].session \in online THEN "waiting"
  ELSE IF d \in DOMAIN hit THEN "ignored" ELSE "notice"

\* hub.send, under the hub's lock: the queue's sender is cloned, or there is none.
SendOutcome(d) == IF snap[d].session \in online THEN "waiting" ELSE "notice"

Send(d) ==
  /\ pc[d] = "send"
  /\ pc' = [pc EXCEPT ![d] = SendOutcome(d)]
  /\ UNCHANGED <<now, bindings, pending, online, full, released, unbinds, order, seen, msg, snap, hit, pickVars, askVars>>

\* Without the lock, and for as long as it takes: the verdict of a matched
\* answer, or the text of any other reply, gets room in the queue.
Enqueue(d) ==
  /\ pc[d] = "waiting" /\ snap[d].session \notin full
  /\ pc' = [pc EXCEPT ![d] = IF d \in DOMAIN hit THEN "verdictSent" ELSE "inboundSent"]
  /\ UNCHANGED <<now, bindings, pending, online, full, released, unbinds, order, seen, msg, snap, hit, pickVars, askVars>>

\* notify_offline: the notice is posted once; a failure is only logged.
Notice(d) ==
  /\ pc[d] = "notice"
  /\ \/ pc' = [pc EXCEPT ![d] = "noticed"]
     \/ pc' = [pc EXCEPT ![d] = "noticeFailed"]
  /\ UNCHANGED <<now, bindings, pending, online, full, released, unbinds, order, seen, msg, snap, hit, pickVars, askVars>>
-----------------------------------------------------------------------------
(* handle_request, run by the connection task of its session.               *)

\* A call that a handler may still put into the table, or take out of it:
\* being handled, in the table, or matched and about to be removed.
Live(c) ==
  \/ \E s \in Session : askPc[s] # "idle" /\ ask[s] = c
  \/ \E id \in DOMAIN pending : pending[id].call = c
  \/ \E d \in DOMAIN hit : pc[d] = "consume" /\ hit[d].call = c
Rivals(id) == {o \in DOMAIN call : call[o].id = id /\ Live(o)}

\* An agent asks.  The clock is read before any lock is taken.
Request(s, c, id) ==
  /\ s \in online /\ askPc[s] = "idle" /\ c \notin DOMAIN call
  /\ askPc' = [askPc EXCEPT ![s] = "entered"]
  /\ ask' = Put(ask, s, c)
  /\ call' = Put(call, c, [session |-> s, id |-> id, at |-> now])
  /\ met' = IF Rivals(id) = {} THEN met ELSE met \cup Rivals(id) \cup {c}
  /\ UNCHANGED <<now, bindings, pending, online, full, released, unbinds, taskVars, pickVars, askChat, prompted>>

\* latest_binding: the session's binding of highest (created, chat_id).
Later(b, c1, c2) ==
  \/ b[c1].created > b[c2].created
  \/ /\ b[c1].created = b[c2].created
     /\ c1[1] > c2[1] \/ (c1[1] = c2[1] /\ c1[2] >= c2[2])
Bound(b, s) == {c \in DOMAIN b : b[c].session = s}
IsLatest(b, s, c) == c \in Bound(b, s) /\ \A o \in Bound(b, s) : Later(b, c, o)

\* The entry of the session's call, in thread c.
\* Mutant: the two strings are swapped.
EntrySwapped(s, c) == [chat_id |-> s, session |-> c, created |-> call[ask[s]].at, call |-> ask[s]]
Entry(s, c) == [chat_id |-> c, session |-> s, created |-> call[ask[s]].at, call |-> ask[s]]

\* Under the pending lock and, inside it, the store lock.
Record(s) ==
  LET k == call[ask[s]]
      p == Sweep(pending, k.at)
  IN  /\ askPc[s] = "entered"
      /\ \/ /\ Bound(bindings, s) = {}
            /\ pending' = p
            /\ askPc' = [askPc EXCEPT ![s] = "idle"] /\ UNCHANGED askChat
         \/ \E c \in DOMAIN bindings :
            /\ IsLatest(bindings, s, c)
            /\ pending' = Put(p, k.id, Entry(s, c))
            /\ askPc' = [askPc EXCEPT ![s] = "posting"]
            /\ askChat' = Put(askChat, s, c)
      /\ UNCHANGED <<now, bindings, online, full, released, unbinds, taskVars, pickVars, ask, call, prompted, met>>

\* All chunks of the prompt are posted, or one of them fails and the rest is
\* not sent; a failed request is taken out of the table by its id.
Prompted(s) ==
  /\ askPc[s] = "posting"
  /\ askPc' = [askPc EXCEPT ![s] = "idle"]
  /\ prompted' = prompted \cup {ask[s]}
  /\ UNCHANGED <<now, bindings, pending, online, full, released, unbinds, taskVars, pickVars, ask, askChat, call, met>>

PromptFails(s) ==
  /\ askPc[s] = "posting"
  /\ askPc' = [askPc EXCEPT ![s] = "failed"]
  /\ UNCHANGED <<now, bindings, pending, online, full, released, unbinds, taskVars, pickVars, ask, askChat, call, prompted, met>>

\* Mutant: what the session asked is removed, whatever its id.
ForgottenOfSession(s) == Restrict(pending, {id \in DOMAIN pending : pending[id].session # s})
Forgotten(s) == Remove(pending, call[ask[s]].id)

Forget(s) ==
  /\ askPc[s] = "failed"
  /\ pending' = Forgotten(s)
  /\ askPc' = [askPc EXCEPT ![s] = "idle"]
  /\ UNCHANGED <<now, bindings, online, full, released, unbinds, taskVars, pickVars, ask, askChat, call, prompted, met>>
-----------------------------------------------------------------------------
Task(d) == Lookup(d) \/ Match(d) \/ Consume(d) \/ Send(d) \/ Enqueue(d) \/ Notice(d)

Slack ==
  \/ \E e \in EventId, u \in User, c \in Visible, v \in {<<>>} \cup (RequestId \X Behavior) : Post(e, u, c, v)
  \/ \E d \in Delivery : Deliver(d)
  \/ \E p \in PickId, u \in User, s \in Session, ch \in Channel : Pick(p, u, s, ch)
  \/ \E p \in PickId : RootPosted(p) \/ RootFails(p) \/ Bind(p)
  \/ \E u \in User, ch \in Channel : Unbind(u, ch)

Agent ==
  \E s \in Session :
    \/ Connect(s) \/ Disconnect(s) \/ Fill(s) \/ Drain(s)
    \/ \E c \in CallId, id \in RequestId : Request(s, c, id)
    \/ Record(s) \/ Prompted(s) \/ PromptFails(s) \/ Forget(s)

Next == Tick \/ Slack \/ Agent \/ (\E d \in Delivery : Task(d))

Spec == Init /\ [][Next]_vars

\* tokio keeps polling a spawned task, and Slack delivers an event at least once.
\* Sends that wait for room get it in the order they came, when there is any;
\* that there ever is any (Drain) is not assumed: an agent may be stuck.
FairSpec ==
  /\ Spec
  /\ \A d \in Delivery : WF_vars(Task(d)) /\ SF_vars(Enqueue(d))
  /\ \A e \in EventId : WF_vars(e \in DOMAIN msg /\ Deliver(<<e, 1>>))
-----------------------------------------------------------------------------
TypeOK ==
  /\ now \in Nat /\ nextTs \in Nat /\ unbinds \in Nat
  /\ IsMap(bindings, Chat, Binding) /\ IsMap(owner, Chat, Binding)
  /\ IsMap(pending, RequestId, Pending)
  /\ order \in Seq(EventId) /\ seen \subseteq EventId
  /\ online \subseteq Session /\ full \subseteq Session /\ released \subseteq Chat
  /\ IsMap(msg, EventId, Msg)
  /\ pc \in [Delivery -> Pc] /\ IsMap(snap, Delivery, Binding) /\ IsMap(hit, Delivery, Hit)
  /\ pickPc \in [PickId -> {"idle", "posting", "refused", "posted", "lost", "bound"}]
  /\ IsMap(pick, PickId, [user : User, session : Session, chat : Chat])
  /\ askPc \in [Session -> {"idle", "entered", "posting", "failed"}]
  /\ IsMap(ask, Session, CallId) /\ IsMap(askChat, Session, Chat)
  /\ IsMap(call, CallId, Call) /\ prompted \subseteq CallId /\ met \subseteq CallId

\* A verdict that reaches an agent answers a call of that very session, for the
\* id the call carried, and was written by the authorised user who bound the
\* thread to that session (permission.rs:74-89, slack.rs:78-104).  The binding
\* is a clone and the request may have been replaced by another session's in
\* between: neither may redirect an answer.
VerdictIsAnAnswer ==
  \A d \in DOMAIN hit : pc[d] = "verdictSent" =>
    LET m == msg[d[1]]
        c == call[hit[d].call]
    IN  /\ m.parse = <<c.id, hit[d].behavior>>
        /\ m.chat \in DOMAIN owner /\ m.user \in Authorised
        /\ owner[m.chat].user = m.user
        /\ owner[m.chat].session = c.session /\ snap[d].session = c.session

\* An answer matches a request only within Ttl of the moment the agent asked
\* (permission.rs:56-58), also when the request waited for its locks.
VerdictInTime ==
  \A d \in DOMAIN hit : hit[d].at - call[hit[d].call].at <= Ttl

\* Once a matched answer has consumed its request, the request is not in the
\* table again: whatever is matched later is another call (slack.rs:99).
AnsweredIsGone ==
  \A d \in DOMAIN hit, id \in DOMAIN pending :
    pc[d] # "consume" => pending[id].call # hit[d].call

\* A request whose prompt was posted stays answerable until it is answered or
\* expires: no removal or sweep by the handlers of other requests takes it
\* (slack.rs:99, permission.rs:104, 139), neither of the same session nor of an
\* earlier call under its id.  Two calls under one id at the same time are
\* outside: the later entry replaces the other, and removals go by the id.
Open(c) ==
  \/ now - call[c].at > Ttl
  \/ \E d \in DOMAIN hit : hit[d].call = c
  \/ c \in met
  \/ call[c].id \in DOMAIN pending /\ pending[call[c].id].call = c
QuestionStaysOpen == \A c \in prompted : Open(c)

\* Of all deliveries of one event, one is processed (events.rs:95-106), as long
\* as no more events than the capacity are in play.
OncePerEvent ==
  \A d1, d2 \in Delivery :
    d1[1] = d2[1] /\ {pc[d1], pc[d2]} \cap {"idle", "duplicate"} = {} => d1 = d2

\* A reply written after its thread was unbound reaches no agent, whatever
\* handlers were under way when /cc unbind ran (slack.rs:78-91, 191-201).
UnboundStaysUnbound ==
  \A d \in Delivery :
    d[1] \in DOMAIN msg /\ msg[d[1]].late =>
      pc[d] \in {"idle", "duplicate", "ignored", "lookup", "unauthorised", "unbound"}

\* A reply of an authorised user in a bound thread ends in the agent's queue or
\* with one attempt to post the offline notice (slack.rs:104-126, 135-141),
\* unless its thread is unbound before it is looked up, or the agent's queue is
\* full and stays so, in which case the handler waits (hub.rs:43).
Awaited(e) == e \in DOMAIN msg /\ msg[e].user \in Authorised /\ msg[e].chat \in DOMAIN bindings
              /\ pc[<<e, 1>>] # "unbound"
Settled(e) == e \in DOMAIN msg /\ (\/ msg[e].chat \in released
                                 \/ pc[<<e, 1>>] \in {"inboundSent", "verdictSent", "noticed", "noticeFailed"})
Held(e) == \E s \in full : WaitsFor(<<e, 1>>, s)
RepliesHandled == \A e \in EventId : Awaited(e) ~> (Settled(e) \/ []Held(e))

\* One call is answered by one verdict.
OneVerdictPerCall ==
  \A d1, d2 \in DOMAIN hit :
    {pc[d1], pc[d2]} = {"verdictSent"} /\ hit[d1].call = hit[d2].call => d1 = d2

\* A reply of an authorised user in a visible thread of the relay is dropped as
\* unbound only for a reason that can be named: the thread was unbound, or its
\* root was posted and the binding is not written yet, or never will be because
\* the answer to the root post was lost (slack.rs:84-90, 235-253).
DropIsExplained ==
  [][\A d \in Delivery : pc[d] # "unbound" /\ pc'[d] = "unbound" =>
       \/ msg[d[1]].chat \in released
       \/ \E p \in DOMAIN pick : pick[p].chat = msg[d[1]].chat /\ pickPc[p] \in {"posted", "lost"}]_vars

\* A reply in the thread of a root post of the relay is part of a conversation:
\* it is not dropped as unbound while nobody has unbound the thread.
RootIsBound ==
  \A d \in Delivery : pc[d] = "unbound" => msg[d[1]].chat \in released
=============================================================================
