------------------------------ MODULE Posting ------------------------------
(***************************************************************************)
(* How a text reaches a Slack thread: it is cut into pieces (chunk.rs) and *)
(* the pieces are posted one after the other, each with one call of        *)
(* chat.postMessage that is never repeated (agent_ws.rs, permission.rs,    *)
(* slack/api.rs).  A connection handles one frame of its agent to its end  *)
(* before it reads the next; several connections post into the thread.     *)
(*                                                                         *)
(* A call may be refused, or its answer may be lost: to an error of the    *)
(* network, to an answer without ok or ts, or to the timeout of 10 s, after*)
(* which Slack may still carry it out.                                     *)
(***************************************************************************)
EXTENDS Integers, Sequences

CONSTANTS
  Conn,                 \* agent connections
  Text,                 \* bound: what each frame of each connection may carry
  MaxChars              \* CHUNK_CHARS, 3900

\* A text is a sequence of characters; only the newline is told apart.
NewLine == "newline"
Char == {NewLine, "other"}

ASSUME TextAssumption == Text \in [Conn -> Seq(SUBSET Seq(Char))]
ASSUME SizeAssumption == MaxChars \in Nat \ {0}

VARIABLES
  pc, frame,            \* per connection: its place; the number of its last frame
  text, kind, pieces,   \* per frame: text, "reply" or "prompt", pieces cut so far
  start, next,          \* per connection: chunk's start; the piece to post
  pending,              \* prompts with a request in the table (for what else takes
                        \* requests out see Relay)
  thread, flying,       \* Slack: the thread; calls nobody waits for any more
  late                  \* history: the calls that were given up without an answer

frameVars == <<text, kind, pieces>>
slackVars == <<thread, flying, late>>
vars == <<pc, frame, frameVars, start, next, pending, slackVars>>

Frame == Conn \X Nat
Empty == [f \in {} |-> f]
Put(f, k, v) == [x \in DOMAIN f \cup {k} |-> IF x = k THEN v ELSE f[x]]
InHand(c) == <<c, frame[c]>>
Goes(c, p) == pc' = [pc EXCEPT ![c] = p]

Init ==
  /\ pc = [c \in Conn |-> "idle"] /\ frame = [c \in Conn |-> 0]
  /\ text = Empty /\ kind = Empty /\ pieces = Empty
  /\ start = [c \in Conn |-> 0] /\ next = [c \in Conn |-> 1]
  /\ pending = {}
  /\ thread = <<>> /\ flying = {} /\ late = {}
-----------------------------------------------------------------------------
\* handle_frame: a reply with an empty text or a bad chat_id is dropped, a
\* request of a session without a binding too; a request is entered in the
\* table before its prompt, which is never empty, is cut.
Receive(c, k, t) ==
  LET f == <<c, frame[c] + 1>>
  IN  /\ pc[c] = "idle" /\ f[2] \in DOMAIN Text[c] /\ t \in Text[c][f[2]]
      /\ frame' = [frame EXCEPT ![c] = @ + 1]
      /\ \/ UNCHANGED <<pc, text, kind, pieces, start, next, pending>>
         \/ /\ t # <<>> /\ Goes(c, "cutting")
            /\ text' = Put(text, f, t) /\ kind' = Put(kind, f, k) /\ pieces' = Put(pieces, f, <<>>)
            /\ start' = [start EXCEPT ![c] = 0] /\ next' = [next EXCEPT ![c] = 1]
            /\ pending' = IF k = "prompt" THEN pending \cup {f} ELSE pending
      /\ UNCHANGED slackVars
-----------------------------------------------------------------------------
(* chunk.  A piece is the interval of the text from +1 to to.               *)
Window(c) == (start[c] + 1)..(start[c] + MaxChars)
Remaining(c) == Len(text[InHand(c)]) - start[c]
Push(c, to) ==
  /\ pieces' = [pieces EXCEPT ![InHand(c)] = Append(@, [from |-> start[c], to |-> to])]
  /\ start' = [start EXCEPT ![c] = to]
  /\ UNCHANGED <<frame, text, kind, pending, slackVars>>

\* Mutant: the cut is before the newline.
SplitsBefore(c, to) ==
  LET t == text[InHand(c)]
  IN  \/ /\ to + 1 \in Window(c) /\ t[to + 1] = NewLine /\ to > start[c]
         /\ \A j \in Window(c) : j > to + 1 => t[j] # NewLine
      \/ to = start[c] + MaxChars /\ \A j \in Window(c) : t[j] # NewLine
\* The cut is after the last newline of the window, or at the window's end.
Splits(c, to) ==
  LET t == text[InHand(c)]
  IN  \/ /\ to \in Window(c) /\ t[to] = NewLine
         /\ \A j \in Window(c) : j > to => t[j] # NewLine
      \/ to = start[c] + MaxChars /\ \A j \in Window(c) : t[j] # NewLine

Cut(c) ==
  /\ pc[c] = "cutting" /\ Remaining(c) > MaxChars
  /\ \E to \in Window(c) : Splits(c, to) /\ Push(c, to)
  /\ UNCHANGED <<pc, next>>

Rest(c) ==
  /\ pc[c] = "cutting" /\ Remaining(c) <= MaxChars
  /\ Push(c, Len(text[InHand(c)]))
  /\ Goes(c, "posting") /\ UNCHANGED next
-----------------------------------------------------------------------------
(* The pieces are posted.                                                   *)
Post(c) == <<InHand(c), next[c]>>

\* Slack carries out the call that the connection waits for.
Posted(c) ==
  /\ pc[c] = "posting" /\ Goes(c, "posted")
  /\ thread' = Append(thread, Post(c))
  /\ UNCHANGED <<frame, frameVars, start, next, pending, flying, late>>

\* Mutant: the last piece is counted twice.
MoreByOne(c) == next[c] <= Len(pieces[InHand(c)])
More(c) == next[c] < Len(pieces[InHand(c)])

\* Its answer has arrived: the next piece, if there is one.
Answered(c) ==
  /\ pc[c] = "posted"
  /\ \/ More(c) /\ next' = [next EXCEPT ![c] = @ + 1] /\ Goes(c, "posting")
     \/ ~More(c) /\ Goes(c, "idle") /\ UNCHANGED next
  /\ UNCHANGED <<frame, frameVars, start, pending, slackVars>>

\* Mutants: a failed call is made again; the request of a failed prompt stays.
AfterFailureAgain(c) == "posting"
AfterFailureKeeps(c) == "idle"
AfterFailure(c) == IF kind[InHand(c)] = "prompt" THEN "forgetting" ELSE "idle"

\* Slack refuses, or no good answer comes: the rest of the text is not posted.
Fails(c) ==
  /\ pc[c] \in {"posting", "posted"} /\ Goes(c, AfterFailure(c))
  /\ \/ UNCHANGED <<flying, late>>
     \/ /\ pc[c] = "posting"
        /\ flying' = flying \cup {Post(c)} /\ late' = late \cup {Post(c)}
  /\ UNCHANGED <<frame, frameVars, start, next, pending, thread>>

\* A request whose prompt failed is taken out of the table.
Forget(c) ==
  /\ pc[c] = "forgetting" /\ Goes(c, "idle")
  /\ pending' = pending \ {InHand(c)}
  /\ UNCHANGED <<frame, frameVars, start, next, slackVars>>

\* Slack carries out a call nobody waits for.
Late(p) ==
  /\ p \in flying
  /\ flying' = flying \ {p} /\ thread' = Append(thread, p)
  /\ UNCHANGED <<pc, frame, frameVars, start, next, pending, late>>
-----------------------------------------------------------------------------
Serve(c) == Cut(c) \/ Rest(c) \/ Answered(c) \/ Fails(c) \/ Forget(c)
Next ==
  \/ \E c \in Conn : \/ \E k \in {"reply", "prompt"}, t \in UNION {Text[c][i] : i \in DOMAIN Text[c]} : Receive(c, k, t)
                     \/ Serve(c) \/ Posted(c)
  \/ \E p \in flying : Late(p)

Spec == Init /\ [][Next]_vars
-----------------------------------------------------------------------------
Call == (DOMAIN text) \X (Nat \ {0})
Piece == [from : Nat, to : Nat]
Active == {"cutting", "posting", "posted", "forgetting"}
TypeOK ==
  /\ pc \in [Conn -> {"idle"} \cup Active] /\ frame \in [Conn -> Nat]
  /\ DOMAIN text \subseteq Frame /\ DOMAIN kind = DOMAIN text /\ DOMAIN pieces = DOMAIN text
  /\ \A f \in DOMAIN text :
       /\ f[2] \in 1..frame[f[1]] /\ text[f] \in Seq(Char) /\ text[f] # <<>>
       /\ kind[f] \in {"reply", "prompt"} /\ pieces[f] \in Seq(Piece)
  /\ start \in [Conn -> Nat] /\ next \in [Conn -> Nat \ {0}]
  /\ pending \subseteq DOMAIN text
  /\ thread \in Seq(Call) /\ flying \subseteq late
  /\ late \subseteq Call
  /\ \A c \in Conn : pc[c] \in Active => InHand(c) \in DOMAIN text
  /\ \A c \in Conn : pc[c] \in {"posting", "posted"} => next[c] \in DOMAIN pieces[InHand(c)]

\* The pieces of a text, joined, are the text: no character is lost or repeated
\* where it is cut; none is longer than Slack allows; and each but the last ends
\* with the last newline of its window or, when there is none, fills it
\* (chunk.rs:11-32).
IsCut(f) == ~(pc[f[1]] = "cutting" /\ f = InHand(f[1]))
WellCut(t, p) ==
  /\ p.from < p.to /\ p.to <= p.from + MaxChars /\ p.to <= Len(t)
  /\ p.to < Len(t) =>
       /\ p.from + MaxChars < Len(t)
       /\ t[p.to] = NewLine \/ p.to = p.from + MaxChars
       /\ \A j \in (p.to + 1)..(p.from + MaxChars) : t[j] # NewLine
       /\ t[p.to] # NewLine => \A j \in (p.from + 1)..p.to : t[j] # NewLine
PiecesMakeTheText ==
  \A f \in DOMAIN text :
    /\ \A i \in DOMAIN pieces[f] :
         /\ WellCut(text[f], pieces[f][i])
         /\ pieces[f][i].from = IF i = 1 THEN 0 ELSE pieces[f][i - 1].to
    /\ IsCut(f) => pieces[f] # <<>> /\ pieces[f][Len(pieces[f])].to = Len(text[f])

\* What the thread shows of a text are its first pieces, in order, each once,
\* whoever else posts in between and whatever answers are lost
\* (agent_ws.rs:177-186, permission.rs:129-142).
ThreadShowsPrefix ==
  \A i \in DOMAIN thread :
    /\ thread[i][2] \in DOMAIN pieces[thread[i][1]]
    /\ thread[i][2] > 1 => \E j \in 1..(i - 1) : thread[j] = <<thread[i][1], thread[i][2] - 1>>
    /\ \A j \in DOMAIN thread : thread[i] = thread[j] => i = j

\* The texts of one agent appear in the order it sent them.  A later text can
\* overtake only the one call of an earlier text that timed out, after which
\* nothing more of that text is posted (agent_ws.rs:124, 177-186, api.rs:43-45).
\* src/README.md:170 says that a reply that timed out is not posted at all: the
\* code gives the call up, but cannot keep Slack from carrying it out (Late).
OnlyLateIsOvertaken ==
  \A i, j \in DOMAIN thread :
    LET p == thread[i]
        q == thread[j]
    IN  i < j /\ p[1][1] = q[1][1] /\ p[1][2] > q[1][2] =>
          q \in late /\ (\A k \in DOMAIN thread : thread[k][1] = q[1] => thread[k][2] <= q[2])

\* A question that waits for an answer can be read to its end in the thread, as
\* soon as the connection has done with it (permission.rs:122-143).
Shown(p) == \E i \in DOMAIN thread : thread[i] = p
QuestionIsShown ==
  \A f \in pending : f # InHand(f[1]) \/ pc[f[1]] = "idle" =>
    \A n \in DOMAIN pieces[f] : Shown(<<f, n>>)
=============================================================================
