------------------------------- MODULE Agent -------------------------------
(***************************************************************************)
(* The agent process (agent/src/main.rs, stdio.rs, ws.rs): an MCP server   *)
(* on stdio whose lines become messages for the relay, and a WebSocket     *)
(* client whose frames become notifications on stdout.  Two tasks, two     *)
(* bounded channels between them, one in each direction.                   *)
(*                                                                         *)
(* The stdio task handles one line or one notification at a time and waits *)
(* for the pipe and for room in the channel to the relay.  The client      *)
(* connects, serves one frame or one message at a time, and waits for the  *)
(* socket and for room in the channel to stdout; while it connects or      *)
(* backs off it throws away the messages that arrive.                      *)
(***************************************************************************)
EXTENDS Integers, Sequences, FiniteSetsExt

CONSTANTS
  WithRelay,            \* SCCR_RELAY_URL and SCCR_TOKEN are set
  QueueSize,            \* capacity of the two channels, 32
  PipeSize, WireSize,   \* what the stdout pipe and the socket take unread
  Initial, MaxWait,     \* Backoff.initial and .max, 1 s and 30 s
  MaxLines, MaxFrames,  \* bounds: lines of Claude Code, notifications of the relay
  MaxAttempts           \* bound: connection attempts

ASSUME ModeAssumption == WithRelay \in BOOLEAN
ASSUME SizeAssumption == {QueueSize, PipeSize, WireSize} \subseteq Nat \ {0}
ASSUME WaitAssumption == Initial \in Nat \ {0} /\ MaxWait \in Nat /\ Initial <= MaxWait

VARIABLES
  claude,               \* Claude Code: "open", "eof" (stdin closed) or "dead"
  lines, taken,         \* the lines it wrote, by kind; how many were read
  output, unread,       \* what was written to stdout; how much is still in the pipe
  stdioPc, item,        \* the stdio task: its place and what it carries
  toRelay, toStdout,    \* the channels: line numbers; notification numbers
  wsPc, carry,          \* the client task: its place and what it carries
  wait,                 \* its next pause
  link, down, up,       \* the connection; frames under way to and from the agent
  uplinked, received,   \* history: lines that reached the relay; notifications read
  pushed, attempts,     \* bounds: notifications sent so far; attempts so far
  fails                 \* history: pauses begun since the last welcome

claudeVars == <<claude, lines>>
stdioVars == <<taken, output, stdioPc, item>>
wsVars == <<wsPc, carry, wait, uplinked, received, attempts, fails>>
linkVars == <<link, down, up, pushed>>
vars == <<claudeVars, stdioVars, unread, toRelay, toStdout, wsVars, linkVars>>

\* What a line asks for: an answer (Respond), an answer and a message (Both),
\* a message (Emit), nothing (Ignore); a line that is not UTF-8, or a read that
\* fails, is a bad one.
Kind == {"request", "call", "note", "other", "bad"}
\* Mutant: a call of the reply tool is relayed but not answered.
AnsweredRequestsOnly == {"request"}
AnsweredKinds == {"request", "call"}
RelayedKinds == {"call", "note"}

Init ==
  /\ claude = "open" /\ lines = <<>> /\ taken = 0
  /\ output = <<>> /\ unread = 0
  /\ stdioPc = "select" /\ item = <<>>
  /\ toRelay = <<>> /\ toStdout = <<>>
  /\ wsPc = IF WithRelay THEN "connecting" ELSE "off"
  /\ carry = <<>> /\ wait = Initial
  /\ link = "down" /\ down = <<>> /\ up = 0
  /\ uplinked = <<>> /\ received = <<>>
  /\ pushed = 0 /\ attempts = 0 /\ fails = 0
-----------------------------------------------------------------------------
(* Claude Code at the other end of the pipes.                               *)
WriteLine(k) ==
  /\ claude = "open" /\ Len(lines) < MaxLines
  /\ lines' = Append(lines, k)
  /\ UNCHANGED <<claude, stdioVars, unread, toRelay, toStdout, wsVars, linkVars>>

Close ==
  /\ claude = "open"
  /\ claude' \in {"eof", "dead"}
  /\ UNCHANGED <<lines, stdioVars, unread, toRelay, toStdout, wsVars, linkVars>>

ReadOutput ==
  /\ claude # "dead" /\ unread > 0
  /\ unread' = unread - 1
  /\ UNCHANGED <<claudeVars, stdioVars, toRelay, toStdout, wsVars, linkVars>>
-----------------------------------------------------------------------------
(* The stdio task.                                                          *)

\* select!: a line is read and dispatched ...
TakeLine ==
  LET n == taken + 1
  IN  /\ stdioPc = "select" /\ taken < Len(lines) /\ lines[n] # "bad"
      /\ taken' = n
      /\ \/ lines[n] \in AnsweredKinds /\ stdioPc' = "writing" /\ item' = <<"response", n>>
         \/ lines[n] \in RelayedKinds \ AnsweredKinds /\ stdioPc' = "relaying" /\ item' = <<"message", n>>
         \/ lines[n] \notin AnsweredKinds \cup RelayedKinds /\ UNCHANGED <<stdioPc, item>>
      /\ UNCHANGED <<claudeVars, output, unread, toRelay, toStdout, wsVars, linkVars>>

\* ... or a notification is taken from its channel.
TakeNotification ==
  /\ stdioPc = "select" /\ toStdout # <<>>
  /\ stdioPc' = "writing" /\ item' = <<"notification", Head(toStdout)>>
  /\ toStdout' = Tail(toStdout)
  /\ UNCHANGED <<claudeVars, taken, output, unread, toRelay, wsVars, linkVars>>

\* write_line; the message of a call follows its answer.
Follows == item[1] = "response" /\ lines[item[2]] \in RelayedKinds

WriteOut ==
  /\ stdioPc = "writing" /\ claude # "dead" /\ unread < PipeSize
  /\ output' = Append(output, item) /\ unread' = unread + 1
  /\ \/ Follows /\ stdioPc' = "relaying" /\ item' = <<"message", item[2]>>
     \/ ~Follows /\ stdioPc' = "select" /\ item' = <<>>
  /\ UNCHANGED <<claudeVars, taken, toRelay, toStdout, wsVars, linkVars>>

\* to_relay.send waits for room.
HandOver ==
  /\ stdioPc = "relaying" /\ Len(toRelay) < QueueSize
  /\ toRelay' = Append(toRelay, item[2])
  /\ stdioPc' = "select" /\ item' = <<>>
  /\ UNCHANGED <<claudeVars, taken, output, unread, toStdout, wsVars, linkVars>>

\* End of stdin, a bad line, or a write that fails: run returns and the process
\* ends.
InputEnds ==
  /\ stdioPc = "select"
  /\ \/ claude # "open" /\ taken = Len(lines)
     \/ taken < Len(lines) /\ lines[taken + 1] = "bad"
\* Mutant: a write that fails is ignored.
FinishedByInputOnly == InputEnds
Finished == InputEnds \/ (stdioPc = "writing" /\ claude = "dead")

Exit ==
  /\ Finished
  /\ stdioPc' = "exited" /\ wsPc' = "off"
  /\ link' = IF link = "down" THEN "down" ELSE "broken"
  /\ UNCHANGED <<claudeVars, taken, output, unread, item, toRelay, toStdout, carry, wait, uplinked, received, attempts, fails, down, up, pushed>>
-----------------------------------------------------------------------------
(* The client task: run.                                                    *)

\* drain_while: messages that arrive while it connects or pauses are dropped.
\* Mutant: messages are dropped in the pause but not while it connects.
OfflineInPause == wsPc = "pausing"
Offline == wsPc \in {"connecting", "pausing"}

Drain ==
  /\ Offline /\ toRelay # <<>>
  /\ toRelay' = Tail(toRelay)
  /\ UNCHANGED <<claudeVars, stdioVars, unread, toStdout, wsVars, linkVars>>

Connect ==
  /\ wsPc = "connecting" /\ attempts < MaxAttempts
  /\ wsPc' = "greeting" /\ link' = "open" /\ down' = <<>> /\ up' = 0
  /\ attempts' = attempts + 1
  /\ UNCHANGED <<claudeVars, stdioVars, unread, toRelay, toStdout, carry, wait, uplinked, received, fails, pushed>>

Refused ==
  /\ wsPc = "connecting" /\ attempts < MaxAttempts
  /\ wsPc' = "pausing" /\ link' = "down"
  /\ attempts' = attempts + 1
  /\ UNCHANGED <<claudeVars, stdioVars, unread, toRelay, toStdout, carry, wait, uplinked, received, fails, down, up, pushed>>

SendHello ==
  /\ wsPc = "greeting" /\ link = "open"
  /\ wsPc' = "session" /\ link' = "greeted"
  /\ UNCHANGED <<claudeVars, stdioVars, unread, toRelay, toStdout, carry, wait, uplinked, received, attempts, fails, down, up, pushed>>

\* select!: a frame of the relay ...
\* Mutant: the pause is not reset by a welcome.
WelcomedKeepsWait == fails' = 0 /\ UNCHANGED wait
Welcomed == wait' = Initial /\ fails' = 0

Incoming ==
  /\ wsPc = "session" /\ down # <<>>
  /\ down' = Tail(down)
  /\ LET f == Head(down)
     IN  \/ /\ f = <<"welcome">> /\ Welcomed /\ UNCHANGED <<wsPc, carry, received>>
         \/ /\ f = <<"error">> /\ wsPc' = "pausing"
            /\ UNCHANGED <<carry, wait, fails, received>>
         \/ /\ f[1] = "notification" /\ wsPc' = "delivering" /\ carry' = <<f[2]>>
            /\ received' = Append(received, f[2])
            /\ UNCHANGED <<wait, fails>>
  /\ UNCHANGED <<claudeVars, stdioVars, unread, toRelay, toStdout, uplinked, attempts, link, up, pushed>>

\* Mutant: a notification that finds the channel full is thrown away.
NotifyOrDrop ==
  /\ wsPc = "delivering"
  /\ toStdout' = IF Len(toStdout) < QueueSize THEN toStdout \o carry ELSE toStdout
  /\ wsPc' = "session" /\ carry' = <<>>
  /\ UNCHANGED <<claudeVars, stdioVars, unread, toRelay, wait, uplinked, received, attempts, fails, linkVars>>

\* to_stdout.send waits for room.
Notify ==
  /\ wsPc = "delivering" /\ Len(toStdout) < QueueSize
  /\ toStdout' = toStdout \o carry
  /\ wsPc' = "session" /\ carry' = <<>>
  /\ UNCHANGED <<claudeVars, stdioVars, unread, toRelay, wait, uplinked, received, attempts, fails, linkVars>>

\* ... or a message for the relay.
Outgoing ==
  /\ wsPc = "session" /\ toRelay # <<>>
  /\ wsPc' = "sending" /\ carry' = <<Head(toRelay)>>
  /\ toRelay' = Tail(toRelay)
  /\ UNCHANGED <<claudeVars, stdioVars, unread, toStdout, wait, uplinked, received, attempts, fails, linkVars>>

Sent ==
  /\ wsPc = "sending" /\ link # "broken" /\ up < WireSize
  /\ uplinked' = uplinked \o carry /\ up' = up + 1
  /\ wsPc' = "session" /\ carry' = <<>>
  /\ UNCHANGED <<claudeVars, stdioVars, unread, toRelay, toStdout, wait, received, attempts, fails, link, down, pushed>>

\* Mutant: what was being sent is queued again.
LostRequeues ==
  /\ wsPc \in {"greeting", "session", "sending"} /\ link = "broken"
  /\ wsPc' = "pausing" /\ carry' = <<>>
  /\ toRelay' = toRelay \o carry
  /\ UNCHANGED <<claudeVars, stdioVars, unread, toStdout, wait, uplinked, received, attempts, fails, linkVars>>

\* The connection is lost under any of them: what was being sent is lost too.
Lost ==
  /\ wsPc \in {"greeting", "session", "sending"} /\ link = "broken"
  /\ wsPc' = "pausing" /\ carry' = <<>>
  /\ UNCHANGED <<claudeVars, stdioVars, unread, toRelay, toStdout, wait, uplinked, received, attempts, fails, linkVars>>

\* Mutant: the pause has no upper limit.
DoubledForEver(w) == 2 * w

\* The pause ends: the next one is twice as long, up to the maximum.
Doubled(w) == Min({2 * w, MaxWait})

Resume ==
  /\ wsPc = "pausing"
  /\ wsPc' = "connecting" /\ wait' = Doubled(wait) /\ fails' = fails + 1
  /\ UNCHANGED <<claudeVars, stdioVars, unread, toRelay, toStdout, carry, uplinked, received, attempts, linkVars>>
-----------------------------------------------------------------------------
(* The relay at the other end of the socket, and the network.               *)
Greet ==
  /\ link = "greeted"
  /\ \/ link' = "welcomed" /\ down' = Append(down, <<"welcome">>)
     \/ link' = "rejected" /\ down' = Append(down, <<"error">>)
  /\ UNCHANGED <<claudeVars, stdioVars, unread, toRelay, toStdout, wsVars, up, pushed>>

Push ==
  /\ link = "welcomed" /\ pushed < MaxFrames /\ Len(down) < WireSize
  /\ down' = Append(down, <<"notification", pushed + 1>>)
  /\ pushed' = pushed + 1
  /\ UNCHANGED <<claudeVars, stdioVars, unread, toRelay, toStdout, wsVars, link, up>>

RelayReads ==
  /\ link = "welcomed" /\ up > 0
  /\ up' = up - 1
  /\ UNCHANGED <<claudeVars, stdioVars, unread, toRelay, toStdout, wsVars, link, down, pushed>>

Break ==
  /\ link \notin {"down", "broken"}
  /\ link' = "broken"
  /\ UNCHANGED <<claudeVars, stdioVars, unread, toRelay, toStdout, wsVars, down, up, pushed>>
-----------------------------------------------------------------------------
StdioTask == TakeLine \/ TakeNotification \/ WriteOut \/ HandOver \/ Exit
WsTask == \/ Connect \/ Refused \/ SendHello \/ Incoming \/ Notify \/ Sent
          \/ Lost \/ Resume
Peers == ReadOutput \/ Greet \/ RelayReads

Next ==
  \/ StdioTask \/ WsTask \/ Drain \/ Outgoing \/ Peers
  \/ \E k \in Kind : WriteLine(k)
  \/ Close \/ Push \/ Break

Spec == Init /\ [][Next]_vars

\* Tasks are polled; select! polls its branches in a random order, so none
\* loses every race; Claude Code reads its pipe and the relay its socket; a
\* relay that rejects an agent closes the connection.
FairSpec ==
  /\ Spec
  /\ WF_vars(WsTask) /\ SF_vars(Lost) /\ SF_vars(Drain) /\ SF_vars(Outgoing)
  /\ WF_vars(WriteOut) /\ WF_vars(HandOver) /\ SF_vars(TakeLine) /\ SF_vars(Exit)
  /\ WF_vars(ReadOutput) /\ WF_vars(Greet) /\ WF_vars(RelayReads)
  /\ WF_vars(link = "rejected" /\ Break)
-----------------------------------------------------------------------------
TypeOK ==
  /\ claude \in {"open", "eof", "dead"} /\ lines \in Seq(Kind)
  /\ taken \in 0..Len(lines)
  /\ output \in Seq({"response", "notification"} \X Nat) /\ unread \in 0..PipeSize
  /\ stdioPc \in {"select", "writing", "relaying", "exited"}
  /\ item \in {<<>>} \cup ({"response", "notification", "message"} \X Nat)
  /\ toRelay \in Seq(Nat) /\ Len(toRelay) <= QueueSize
  /\ toStdout \in Seq(Nat) /\ Len(toStdout) <= QueueSize
  /\ wsPc \in {"off", "connecting", "pausing", "greeting", "session", "delivering", "sending"}
  /\ carry \in Seq(Nat) /\ wait \in Initial..MaxWait
  /\ link \in {"down", "open", "greeted", "welcomed", "rejected", "broken"}
  /\ down \in Seq({<<"welcome">>, <<"error">>} \cup ({"notification"} \X Nat)) /\ up \in 0..WireSize
  /\ uplinked \in Seq(Nat) /\ received \in Seq(Nat)
  /\ pushed \in Nat /\ attempts \in Nat /\ fails \in Nat

\* The numbers written to stdout for a kind of output, and the one in hand; each
\* is greater than those before it.
Written(kind) == {output[i][2] : i \in {j \in DOMAIN output : output[j][1] = kind}}
InHand(kind) == IF item # <<>> /\ item[1] = kind THEN {item[2]} ELSE {}
Before(a, b) == \A m \in a, n \in b : m < n
Rising(s) == \A i, j \in DOMAIN s : i < j => s[i] < s[j]
InOrder(kind) ==
  /\ \A i, j \in DOMAIN output :
       i < j /\ output[i][1] = kind /\ output[j][1] = kind => output[i][2] < output[j][2]
  /\ Before(Written(kind), InHand(kind))

\* Every request of Claude Code has exactly one answer, and the answers come in
\* the order of the requests, whatever notifications are written in between
\* (stdio.rs:25-42).  Only the request in hand may be unanswered.
EveryRequestAnswered ==
  /\ InOrder("response")
  /\ Written("response") \cup InHand("response") = {n \in 1..taken : lines[n] \in {"request", "call"}}

\* A notification read from the relay is never lost, repeated or overtaken on
\* its way to stdout, across reconnects (ws.rs:145-156, stdio.rs:43-48): what
\* was written, what is in hand, in the channel and in the client is what came.
Delivering == IF wsPc = "delivering" THEN Range(carry) ELSE {}
NotificationsKept ==
  wsPc # "off" =>
    LET shown == Written("notification") \cup InHand("notification")
    IN  /\ Rising(received) /\ InOrder("notification") /\ Rising(toStdout)
        /\ Before(shown, Range(toStdout)) /\ Before(shown \cup Range(toStdout), Delivering)
        /\ shown \cup Range(toStdout) \cup Delivering = Range(received)

\* Messages reach the relay in the order of their lines, at most once each,
\* across reconnects, and a call's message only after Claude Code was answered
\* (stdio.rs:36-39, ws.rs:172-183).
MessagesInOrder ==
  /\ Rising(uplinked)
  /\ \A n \in Range(uplinked) : lines[n] = "call" => n \in Written("response")

\* The pause after the n-th failure since the last welcome is Initial * 2^n,
\* up to MaxWait: 1, 2, 4, 8, 16, 30, 30, ... seconds (ws.rs:93-120, 187-188).
BackoffLaw == wait = Min({Initial * 2^fails, MaxWait})

\* Both tasks wait for each other: neither channel has room.
Wedged ==
  /\ stdioPc = "relaying" /\ Len(toRelay) = QueueSize
  /\ wsPc = "delivering" /\ Len(toStdout) = QueueSize

\* The process ends once stdin is closed (stdio.rs:28-30); what keeps it from
\* ending is Wedged, or the second cycle of System.
EofEnds == claude # "open" ~> stdioPc = "exited"

\* A line that waits for room in the channel gets it (stdio.rs:34, 38).
LinesHandled == stdioPc = "relaying" ~> stdioPc # "relaying"
=============================================================================
