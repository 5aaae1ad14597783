# Formal models of slack-claude-remote

slack-claude-remote lets a person talk to Claude Code sessions from Slack
threads. Two programs run: one **relay** (a web server that Slack calls and
agents connect to) and, on every machine with a Claude Code session, an
**agent** (an MCP server on stdio that keeps a WebSocket to the relay). The
modules here describe how the two behave when tasks interleave, connections
break and messages are repeated; TLC checks them on small instances and TLAPS
proves the main results for every instance.

```
 Slack --HTTP--> relay: routes/slack.rs --Hub.send--> queue --socket--> agent: ws.rs --channel--> stdio.rs --stdout--> Claude Code
 Slack <--API--- relay: permission.rs, agent_ws.rs <--------socket----- agent: ws.rs <--channel-- stdio.rs <--stdin--- Claude Code
```

## 1. Inventory

| Component | State it keeps | Operations | What is hard | What makes it correct |
|---|---|---|---|---|
| Slack event routing and bindings (`routes/slack.rs`, `slack/events.rs`) | `Store.bindings`, `Store.users` under one mutex; each handler's cloned binding and matched request | `handle_message` (a spawned task per event), `interactions` (picker), `/cc unbind` | every `await` lets another handler run; a clone outlives its lock; Slack repeats events; a post may succeed with its answer lost | a reply reaches the session its thread is bound to, once, or the user is told it did not; nothing said after an unbind arrives |
| Permission relay (`permission.rs`) | `AppState.pending`, keyed by request id alone | `handle_request`, `sweep`, `match_verdict`, consumption in `handle_message` | requests with equal ids, late removals, a prompt that fails half way, the TTL boundary | a verdict answers a call of that session, in the words of the user who bound the thread, in time; a question stays open until answered |
| Event de-duplication (`slack/events.rs`) | a queue and a set of event ids | `first_seen` | agreement of the two, capacity | exactly the last `capacity` ids are refused |
| Hub and agent connections (`hub.rs`, `routes/agent_ws.rs`) | name -> sender of a queue of 64; per connection a socket and its queue | `register`, `unregister`, `send`, `run`/`handshake`/`serve` | `send` waits outside the lock; the name is registered before the welcome and freed after the queue is dropped; full queue and full socket | one owner per name; welcome first; "offline" is never a lie; sends return |
| Agent process (`agent/src`) | two channels of 32, the socket, the next pause | the `select!` of `stdio::run`, of `ws::run` and `drain_while` | two bounded channels in opposite directions; reconnects; what is dropped and what is not | every request answered once; order kept; the end of stdin ends the process; being offline blocks nobody |
| State file (`store.rs`, `state.rs`, `commit`) | users, token hashes, bindings, in memory under a mutex and on disk | `load`, `save`, `commit` | every step of a save may fail; the process or the machine may stop between any two; bind and unbind change memory first and ignore a failed save | the file is always whole; outside a save memory and file differ only by bindings whose save failed |
| Login and admin pages (`auth/`) | login states and cookies, in memory only | `login`, `callback`, `tokens` | a clock read before an `await` and used after it; racing callbacks with one login state; a token that is shown once | a state signs in once; a cookie is of a saved administrator and ends in time; a token that was shown works |
| Posting of texts (`chunk.rs`, `post_reply`, `handle_request`, `slack/api.rs`) | per connection the piece it posts; Slack's thread | `chunk`, `post_message` with a timeout | a call may be refused, answered badly, or carried out after its client gave up; other connections post in between | the pieces make the text; the thread shows the beginning of each text in order, once; an open question is readable |
| Pure functions (`slack/verify.rs`, `commands.rs`, `parse_verdict`, `mcp.rs`) | none | parsing, escaping, the signature window | boundaries | tabulated by the unit tests; not modelled (section 7) |
| HTTP clients, configuration, wiring, HTML, dev endpoints | none of their own | I/O | outcomes only | outside the models: their outcomes are nondeterministic choices of the callers |

The components share memory inside one process (`AppState`'s mutexes, the
hub's `RwLock`), pass values through bounded `tokio::sync::mpsc` channels, and
talk over the socket and Slack's HTTP API. `PROJECT.json` lists the hazards of
the code, each at the line where it bites, with the property that covers it.

## 2. Plan

1. *Done*: `RecentWindow`, `Dedupe`, `Relay`, `Outbox`, `AgentWs`, `Agent`.
2. *Done*: `StateFile` (memory, file, temporary file; every failure and stop)
   and on top of it `Login`.
3. *Done*: `System`, the client of `Agent` and the connection of `AgentWs` over
   one finite socket.
4. *Done*: `Posting`, the cutting of texts and the posting of their pieces.
5. *Done*: proofs of every component and of `System`: each safety property that
   a passing run checks is a theorem.

The abstract specifications are `RecentWindow` (what a de-duplicator promises)
and `Outbox` (what a connection promises to a sender); both refinements are
proved. No module that is proved about uses a recursive operator.

## 3. Modules

**RecentWindow / Dedupe.** `RecentWindow` knows the sequence of accepted ids and
answers whether an id is among the last `Capacity`. `Dedupe` has the code's
`VecDeque` (`order`) and `HashSet` (`seen`) and the eviction of
`Dedupe::first_seen`. `ImplementsWindow` is the refinement; `accepted` is a
history variable. `Relay` takes `Pushed` and `Remembered` from `Dedupe`.

**Relay.** One action per critical section or Slack call of a handler:

| Code | Actions |
|---|---|
| `handle_message` | `Deliver` (dedupe), `Lookup` (store lock, clone of the binding), `Match` (pending lock: sweep and match), `Consume` (pending lock, again), `Send` (hub lock: the queue's sender is cloned), `Enqueue` (the queue has room), `Notice` (one attempt to post it) |
| `interactions` | `Pick`, `RootPosted` (the root exists in Slack), `Bind`, `RootFails` (refused, or its answer lost) |
| `unbind` | `Unbind` |
| `handle_request` | `Request` (the clock is read), `Record` (pending and store locks), `Prompted` or `PromptFails`, `Forget` |
| hub, clock, Slack | `Connect`, `Disconnect`, `Fill`, `Drain`, `Tick`, `Post` |

`snap[d]` and `hit[d]` are the locals of the task of delivery `d`: the cloned
binding and the matched request. `askPc`, `ask`, `askChat` are those of
`handle_request`; a connection task runs one at a time, so they are indexed by
session. `call`, `prompted`, `met`, `owner` and `released` are history variables
for the properties; `Pending.call` names the call that put an entry there, and
`met` holds the calls that were in play under one id at the same time. A Slack
text is what `parse_verdict` makes of it: `<<>>` or a request id and a
behavior. Channels are numbers because `latest_binding` breaks ties by the
order of chat ids. Timestamps of root posts are given in order by Slack.
The hub is as `AgentWs` shows it to be: a message waits for room in the queue
(`full` are the queues that have none while somebody waits), without bound if the
agent takes nothing more, and `Disconnect` gives it back "offline". A notice that
cannot be posted is only logged (`"noticeFailed"`). The saves that follow a bind and an unbind are in
`StateFile`, the pieces of a prompt in `Posting`.

**Outbox / AgentWs.** `Outbox` promises a sender that a message is accepted or
refused, that accepted messages reach the socket in the order they were
accepted, and that refused ones never do. `AgentWs` has the connection task
(`Upgrade`, `BadHello`, `Register`, `Reject`, `Welcome`, `Incoming`/`FrameDone`,
`Outgoing`/`Written`, `Broken`, `Unregister`), the two halves of `Hub::send`
(`Lookup` under the read lock; `Enqueue` or `GiveBack` without it) and the peer,
which reads, closes, or vanishes without a word. A write waits when `WireSize`
frames are unread (`Room`). A vanished peer is noticed only while something is
under way to it (`Broken`): the code has no heartbeat. Whatever an incoming
frame makes the task do is one busy period (`Incoming` to `FrameDone`), during
which the queue is not emptied and the end of the socket is not noticed.

**Agent.** The stdio task (`TakeLine`, `TakeNotification`, `WriteOut`,
`HandOver`, `Exit`), the client task (`Connect`, `Refused`, `SendHello`,
`Incoming`, `Notify`, `Outgoing`, `Sent`, `Lost`, `Resume`, and `Drain`, which
is `drain_while`), Claude Code at the pipes and the relay at the socket. A
line has one of five kinds, the four outcomes of `mcp::dispatch`: a request
that is answered, a call of the reply tool that is answered and relayed, a
permission request that is only relayed, and anything that is ignored; and a bad
one, which is not UTF-8 or could not be read, and at which the process ends. `wait`
is counted in seconds; `fails` counts the pauses since the last welcome. When the
agent runs without a relay the client is `"off"` and nobody reads `toRelay`.

**System.** `A == INSTANCE Agent` and `R == INSTANCE AgentWs` share one socket.
Where a step of one end is a step of the other, the two are taken together:
`Connect` (`R!Upgrade`, `A!Connect`), `Greet` (`R!Welcome` or `R!Reject`,
`A!Greet`), `Push` (`R!Written`, `A!Push`), `RelayReads` (`R!Incoming`,
`A!RelayReads`), `AgentReads` (`R!PeerRead`, `A!Incoming`), `Exit` and `Break`
(`R!PeerLeaves`). `Agent`'s `down` and `pushed` are not variables here but
functions of `AgentWs`'s `sent` and `read` (`UnderWay`, `Notifications`): so
what `Agent` assumes of the relay and `AgentWs` of its peer is supplied by the
other. `Wasted` is what the relay writes to a connection that is already lost.
`LineKinds` says what each line of Claude Code may be: in the run a call of the
reply tool and then a permission request.

**StateFile.** The mutex of `AppState.store` is held from a change to the end of
its save (`job`); `Locked` says that the next caller may take it. `Commit` saves
a changed clone and installs it with `Rename`; `Bind` and `Unbind` change `mem`
at once. A save goes through `WriteTmp`, `SyncTmp`, `Rename`, and may fail at
each of them (`SaveFails`). `Crash` loses memory. `PowerLoss` loses also what
was not synced, and may undo renames: `dir` is the set of images that the
directory may still show, until the kernel records it (`DirRecorded`; `save`
does not sync the directory). `Start` is `Store::load`; a file that does not
parse keeps the relay from starting (`"refused"`). Tokens stand for their hashes.

**Login** EXTENDS `StateFile`. `BeginLogin` is `login`; `TakePending`,
`Exchanged` or `ExchangeFails`, `CommitFor` and `SetCookie` are `callback`;
`AskToken`, `CommitFor` and `ShowToken` are `tokens`; `NotSaved` is their answer
500, `HangUp` the drop of a handler whose client left (at an `await`, so never
inside a save). `at[t]` is the local `now` of the handler. The id_token is any
subject and any expiry; that it belongs to this login is the nonce's doing and
part of `ExchangeFails`. `Tick` cannot pass the timeout of an exchange under way.

**Posting.** `Receive` is the arrival of a frame in `handle_frame` (dropped, or
cut and posted). `Cut` and `Rest` are the iterations of `chunk` over the
characters of the text, of which only the newline is told apart; a piece is an
interval. `Posted` is Slack's side of `chat.postMessage`, `Answered` and `Fails`
the client's, `Late` a call that Slack carries out after the client gave up.
After a failed piece `AfterFailure` ends a reply, and takes a prompt's request
out of the table first (`Forget`).

The `MC` modules give the constants their values.

## 4. Runs

| Run | Instance | Shows |
|---|---|---|
| `dedupe` | capacity 2, 4 ids | queue and set agree, retries are refused, the window is implemented |
| `relay_safety` | 3 users (2 authorised), 2 sessions, 2 calls with one id, 1 reply, 1 pick, 1 unbind, 1 loaded thread; the clock stands still | no verdict crosses over to another session, user or thread; a reply written after the unbind reaches no one, and a reply is dropped only for a reason the user was or can be told |
| `relay_delivery` | 1 user, 1 session, 2 ids, 2 calls, 1 event delivered twice, 1 unbind, clock 0..1, TTL 0; fair | one delivery of an event is processed; no answer is matched after the TTL; a posted question stays open through the removals and sweeps of other requests; a consumed request is gone; every reply ends in the agent's queue or with an attempt at the notice, unless that queue stays full |
| `relay_verdicts` | 2 replies, 1 call | **violation**: two verdicts for one call |
| `relay_root` | 1 pick, 1 reply | **violation**: a reply in the relay's own thread is dropped as unbound |
| `agentws` | 2 connections, 1 name, 2 messages, queue 1, socket 1; fair | all of `AgentWs`, the refinement of `Outbox` and the liveness of sends and names, with peers that may stop reading and frames that may be handled without end |
| `agent_safety` | 2 lines, 2 notifications, 3 attempts, channels, pipe and socket of 1 | answers, notifications and messages are neither lost (where they must not be), repeated nor reordered; the pauses are 1, 2, 3, 3 (the upper limit set to 3) and 1 again after a welcome |
| `agent_eof` | 2 lines, 2 notifications, 1 attempt; fair | **violation**: with both channels full the end of stdin is never read |
| `agent_stdio_only` | no relay; fair | **violation**: the channel fills up and the stdio task stops |
| `system` | 1 connection, 2 lines (a call of the reply tool, a permission request), 2 sends, all queues, pipe and socket of 1; fair | what Claude Code is shown are the hub's accepted messages, in order and without a gap; the agent ends, a line gets room and a send returns, unless one of the two cycles of waits has closed |
| `login` | 2 callbacks, 2 login states, 1 token request, 1 thread, times of 1, clock 0..1, 1 crash or power loss | the file is whole and agrees with memory; sign-ins, tokens and their expiry keep their promises through failed saves and one stop at any step |
| `posting` | every text of up to 4 characters cut at 2, then a short one, beside a short one of another agent | the pieces make the text; the thread shows each text's beginning in order, once; only a call that timed out is overtaken; an open question is readable |

*Why the bounds are enough.* The hazards are races of two: two replies for one
request, two calls with one id, two connections with one name, a send against
the end of a connection, a bind against an unbind. Every run has two of each
party its hazard needs, and queues of one place, so that "full" and "empty" are
one step apart. TTL 0 and a clock of 0 and 1 have both sides of the boundary
(`now - created` equal to, and greater than, the TTL). One name suffices for
`AgentWs`: connections with different names share no state. In `system` one
connection suffices: reconnects are in `agent_safety`, competing connections in
`agentws`, and both cycles of waits close within one connection (both are
reachable). Vanished peers are left to `agentws` there. In `login` one thread is
bound and unbound (bindings do not interact), one stop falls between any two
steps, and the times of 1 second with a clock of 0 and 1 have both sides of
every expiry. In `posting` a text of 4 with a limit of 2 has every position of
newlines in one full window and in the next, hard cuts, and up to three pieces.
Deadlock is checked in `dedupe`; in the other runs the bounds (events, calls,
lines, attempts) make every instance stop, and a program that hangs is what the
liveness properties are about. `SYMMETRY` is used for events, calls and picks, in runs without
liveness only. `relay_delivery` has two ids, so that one handler's removal and
sweep meet the request of another, and two calls, which may also use one id one
after the other or at once; calls of two sessions are in `relay_safety`, and in
the theorem `QuestionsStayOpen`. In `system` the two lines are those that travel
on, one that is answered first and one that is not: the other kinds never leave
the stdio task, and are in `agent_safety`. Two lines and two sends fill a channel
or a socket of one and leave a second to wait.

*Bounds by name.* `MaxTime`, `MaxUnbind`, `MaxDelivery` (`Relay`), `MaxAccepted`
(`Dedupe`), `MaxLines`, `MaxFrames`, `MaxAttempts` (`Agent`), `Sends` and `LineKinds` (`System`), `MaxTime`, `MaxStops` (`Login`),
`Text` (`Posting`); the finite sets of
events, calls, picks, connections and messages bound the rest.

### Disagreements found

1. **Two verdicts for one request** (`relay_verdicts`). `handle_message` matches
   under one lock of `pending` and removes under another (`slack.rs:93-99`).
   Two replies, say "yes abcde" and "no abcde", can both match. `docs/spec.md`
   6.2 step 9 describes existence check, removal and send as one step.
2. **A thread that is visible but not bound** (`relay_root`). The root is
   visible before the binding is stored, and stays visible when Slack's answer
   times out; replies are dropped without a notice (`slack.rs:235-253`), where
   the repository's README says that replies to the root are the conversation.
3. **The agent can hang** (`agent_eof`). Each task of the agent waits for room
   in the channel that the other one reads only when it does not send
   (`stdio.rs:34`, `ws.rs:148`). The process then does not end at the end of
   stdin as `docs/spec.md` 4.3 says.
4. **stdio-only mode stops after 32 messages** (`agent_stdio_only`). The
   receiver is kept in `main` and never read (`main.rs:23-32`); `docs/spec.md`
   4.1 says that the agent then works with stdio alone.

One more has no run of its own. **A reply that timed out may still be posted**:
the client gives `chat.postMessage` up after 10 s and only logs the error
(`api.rs:44`, `agent_ws.rs:178-184`), but Slack may have the call and carry it
out later (`Fails`, then `Late`, in `Posting`). Line 170 of the repository's
README says that a reply that timed out is not posted to the thread.

For each there are properties that say what does hold: `AnsweredIsGone` and
`VerdictIsAnAnswer` (every verdict sent is still the answer of the right user to
the right call), `UnboundStaysUnbound` and `DropIsExplained`, `EndsUnlessStuck`
and `RoomUnlessStuck`, `OnlyLateIsOvertaken` and `ThreadShowsPrefix`.

## 5. Fairness

* Tasks are polled by tokio as long as they can run: weak fairness of the
  actions of a task (`Task(d)`, `ConnTask(c)`, `WsTask`, `WriteOut`, `HandOver`).
* `select!` without `biased` starts at a random branch, so a branch that is
  ready again and again is taken in the end: strong fairness of `Outgoing` and
  `Broken` in `AgentWs`, and of `TakeLine`, `Exit`, `Lost`, `Drain` and
  `Outgoing` in `Agent`. `TakeNotification`, on which no property depends, has none.
* A waiting `mpsc::Sender::send` queues in a first-come first-served semaphore:
  strong fairness of `SendTask(m)` and, in `Relay`, of `Enqueue(d)`: a sender gets
  the room there is. That there ever is room (`Drain`) is not assumed.
* The other ends: in `Agent` the relay reads its socket (`RelayReads`) and greets
  (`Greet`), Claude Code reads stdout while it lives (`ReadOutput`), and the relay
  closes a connection it rejected (`link = "rejected" /\ Break`,
  `agent_ws.rs:56-61`). Only the two expected violations of `Agent` use these
  assumptions, and they are the stronger for them. `AgentWs` does not assume that
  an agent reads its socket (`PeerRead`), which this agent stops to do when its
  channel to stdout is full (`ws.rs:148`), nor that the handling of a frame ends
  (`FrameDone`): `SendsReturn` and `NameIsFreed` name these cases. In `System` the
  reading of either end is no assumption but follows from its tasks.
* Slack delivers an event at least once: weak fairness of the first delivery.
* `System` needs only that some task goes on while any can (`WF(Progress)`): every
  step uses up a line, a send or the one connection, so no task can be passed
  over for ever, and no choice of `select!` has to be fair.
  That the handling of a frame ends there (`FrameDone` is part of `Progress`) is
  the 10 s timeout of Slack's client (`api.rs:44`): each of the finitely many
  pieces of a text is posted or given up.
* `Login`, `StateFile` and `Posting` have safety properties only.
* Nothing is assumed of users, of Claude Code's input, of connections coming or
  breaking, or of the clock.

## 6. Proofs

All theorems hold for every value of the constants that satisfies the named
assumptions in the modules (capacities positive, `Authorised` within `User`,
loaded threads older than the first new one, no message equal to a control
frame, the stored users without repeats, callbacks and token requests disjoint,
administrators among the users, times in `Nat`, the first pause not longer than
the longest). Two theorems have a hypothesis of their own: `Roomy` and `Powers`,
explained below.

**Dedupe_proofs.** `SetMatchesQueueAlways`, `RetriesDroppedAlways` and
`WindowImplemented`. The queue is the last `Len(order)` accepted ids, it is
never longer than the capacity, and it is full once as many ids were accepted
(`IInv`); `PushedQueue` shows what one eviction and one push make of it.
From this the code's answer and the window's answer are the same, step by step.

**Relay_proofs.** `TypeCorrect`, `VerdictsAreAnswers`, `AnsweredInTime`,
`AnsweredStaysGone`, `QuestionsStayOpen`, `UnboundStays`, `DropsAreExplained`,
`EventsAreProcessedOnce`. None is inductive. The strengthening says
where a handler is when it holds a clone or a match, that a clone agrees with
`owner` (a thread is bound once: timestamps of roots only grow), that an entry of
`pending` carries the id, the session and the clock of the call it came from,
and that its thread belongs to that session; for `AnsweredIsGone`, that calls
put an entry at most once, after the clock is read and before the prompt; for
`QuestionStaysOpen`, that a call whose prompt is still being posted is already
open and that a session has left the calls whose prompts are posted. `MetInv`
says that two calls in play under one id are in `met`, so whoever removes an id
takes its own call, or one in `met`; a call that comes later under an id of one
already posted finds it in play, or answered, or expired. `UnboundInv`
adds, on top of that invariant, that an unbound thread has had an owner: the
only threads that `Bind` can bind have had none. For the drops, `VisibleInv`
says that every reply is in a visible thread, which is loaded or the root of a
pick; that loaded threads and those of bound picks had an owner; and that a
thread that had one is bound or released. What is left are the picks whose root
is posted or whose answer was lost. `EventsAreProcessedOnce` assumes `Roomy`: the events that can
come are at most as many as the window holds, which is when `OncePerEvent` is
meant to hold. Under it the queue never evicts (it is as long as the
set is large, `SeenInv`), so what was once delivered stays remembered.

**AgentWs_proofs.** `TypeCorrect`, `NamesAreOwned`, `RefusedStaysOut`,
`WelcomeComesFirst`, `SocketsCarryAccepted`, `OutboxImplemented`. `NameIsOwned`
is inductive with the types. `OnlyAccepted`
says that what is in a queue, in a hand or on a socket was accepted, so a
refused message is nowhere. `Greeted` ties the frames on a socket to the place
of the connection task. The refinement needs that a message is accepted at most
once (`AcceptedOnce`) and where each accepted message is (`Traced`): what was
written to the socket, what is in the task's hand and what is in the queue are,
end to end, what the connection accepted. So `Enqueue` is `Outbox!Accept`, the
write of a message is `Outbox!Deliver` of the next one, a `send` that is told
"offline" is `Outbox!Refuse`, and everything else stutters.

**StateFile_proofs.** `TypeCorrect` (with "no user twice"), `FileAlwaysWhole`,
`MemoryAlwaysSaved`. Every image the directory may show is synced, because
`Rename` takes only synced ones, so whatever survives is whole; inside a save
memory and file agree on users and tokens (`SavedInv`), since only a commit
changes these and it changes memory when the file has changed. A commit takes
any store without repeats (`CommitStep`), whoever asks for it.

**Login_proofs** builds on it: every step of `Login` is one of the store or
leaves it alone, and `LInv` adds four parts. `WebInv`: the clock a callback read
is in the past and, during its exchange, at most one timeout away
(`CallbackInv`), a login state in use is not pending (`UsingInv`). `JobInv`: a
save under way loses no user and no token, and contains what its request asks
for. `ResultInv`: what was saved is in memory until the process stops.
`HeldInv`: cookies are of users in memory, shown tokens are in the file. The
theorems are `LoginTypeCorrect`, `LoginFileWhole`, `LoginMemorySaved`,
`LoginsUsedOnce`, `SignedInAlwaysSaved`, `ShownTokensAlwaysWork` and
`OldClockHarmless`.

**Posting_proofs.** `TypeCorrect`, `PiecesAlwaysMakeTheText`,
`ThreadAlwaysShowsPrefix`, `OnlyLateIsEverOvertaken`, `QuestionIsAlwaysShown`. `CutInv` follows the
loop of `chunk`: the pieces cut so far join up, and the rest of the text begins
where the last of them ends. `ReachedInv`: of the text in hand the thread shows
the pieces before the current one and no other. `LateInv`: a call that was given
up is the last of its text, and one still on its way finds the pieces before it
in the thread. `AskInv`: an entry of the table has its prompt in hand, or all
of it in the thread.

**Agent_proofs.** `TypeCorrect`, `RequestsAreAnswered`, `NotificationsAreKept`,
`MessagesStayInOrder`, `PausesDouble`. What is under way is numbered, and each
invariant is a chain of sets of numbers of which every one is below the next:
for notifications, what was written, what the stdio task holds, the channel,
what the client task holds, the socket (`NoteInv`); for messages, the same way
up (`RelayInv`); for answers, the lines read against the answers written
(`AnswerInv`). A step moves the least number of one set to the one before it.
`AddToRising`, `TailOfRising`, `AddToKind` and `TailOfKind` say what `Append`
and `Tail` do to such a set. `PausesDouble` has the hypothesis `Powers`, that
2^0 is 1 and 2^(n+1) is 2 * 2^n: the provers know `^` as a symbol only.

**System_proofs** composes two of these modules. Every step of `System` is a
step of `AgentWs` or leaves it alone, so `Spec => RP!Spec` (`RelayBehaves`) and
all theorems about `AgentWs` hold of `System`, among them that the socket
carries accepted messages (`SocketsCarryAccepted`). The agent's side is no
such refinement: the relay may still write to a connection that is already lost
(`Wasted`), which is no step of `Agent`. So the invariants of `Agent` about
notifications (`Core`) are carried over step by step: a step of `System` is one
of `Agent` or leaves what the agent has, and has read, alone (`AgentSim`). The
one condition of `Agent` on the frames under way, that they are numbered on from
those that were read, follows from the relay's side (`ArrivingHere`).
`CountInv` joins the two: the n-th notification that the client took from the
socket is the (n+1)-th frame that the relay wrote. While the client runs, what
is shown is then an initial part of what was received (`KeptShown`); `Exit` ends
the client, and nothing is written after it (`ShownStep`). With `SocketsCarryAccepted` this is `ShownIsAlwaysAccepted`.

*Model-checked only.* Every liveness property (`RepliesHandled`, `SendsReturn`,
`NameIsFreed`, `EndsUnlessStuck`, `RoomUnlessStuck`, `SendsReturnUnlessStuck`)
is beyond the prover, with the fairness and `ENABLED` it rests on; and
the four expected violations are counterexamples, which TLC finds.

## 7. Not modelled

* The pure functions on strings: the window and the signature of `verify.rs`,
  the grammar of verdicts and commands, the escaping of names, `rfc3339`, the
  JSON-RPC of `mcp.rs`. They keep no state; the models take their outcomes.
  `events`, `commands` and `interactions` return before they touch any state when
  a signature is wrong, so the models begin after it.
* The JSON forms (serde's derived code), the HTML and the root page (which only
  reads), the block kit of the picker, `/cc list` and `/cc help`, log lines.
* `respond` (its caller ignores the outcome), the `LogSlack` of the dev mode,
  the dev endpoints (they call `Hub::send` as the Slack routes do),
  configuration and wiring, except for the load of the state file.
* TLS, HTTP and WebSocket libraries: represented by the outcomes their callers
  see. That random states, cookies and tokens never collide is assumed.
