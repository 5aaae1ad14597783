----------------------------- MODULE Agent_proofs -----------------------------
(***************************************************************************)
(* Proofs about Agent for any sizes of the channels, the pipe and the      *)
(* socket, any pauses, and any number of lines, frames and attempts.       *)
(***************************************************************************)
EXTENDS Agent, SequenceTheorems, TLAPS

(* Sequences of numbers, and sequences of numbered things of several kinds. *)
Added(s, x) == Append(s, x)
Of(s, k) == {s[i][2] : i \in {j \in DOMAIN s : s[j][1] = k}}
Rises(s, k) == \A i, j \in DOMAIN s : i < j /\ s[i][1] = k /\ s[j][1] = k => s[i][2] < s[j][2]

\* What a holds when n is added to s, and when h is taken from s and r is left.
Gains(s, n, a) ==
  /\ a \in Seq(Nat) /\ Len(a) = Len(s) + 1 /\ Range(a) = Range(s) \cup {n}
  /\ Rising(s) /\ Before(Range(s), {n}) => Rising(a)
Loses(s, h, r) ==
  /\ h \in Nat /\ r \in Seq(Nat) /\ Len(r) = Len(s) - 1 /\ Range(s) = {h} \cup Range(r)
  /\ Rising(s) => Rising(r) /\ Before({h}, Range(r))
GainsOf(s, x, a, k) ==
  /\ Of(a, k) = IF x[1] = k THEN Of(s, k) \cup {x[2]} ELSE Of(s, k)
  /\ Rises(s, k) /\ (x[1] = k => Before(Of(s, k), {x[2]})) => Rises(a, k)
LosesOf(s, h, r, k) ==
  /\ Of(s, k) = IF h[1] = k THEN {h[2]} \cup Of(r, k) ELSE Of(r, k)
  /\ Rises(s, k) => Rises(r, k) /\ (h[1] = k => Before({h[2]}, Of(r, k)))

LEMMA AddToRising ==
  ASSUME NEW s \in Seq(Nat), NEW n \in Nat, NEW a, a = Added(s, n)
  PROVE  Gains(s, n, a)
<1> DEFINE m == Len(s)
<1>1. /\ a \in Seq(Nat) /\ m \in Nat /\ Len(a) = m + 1 /\ DOMAIN s = 1..m /\ DOMAIN a = 1..(m + 1)
      /\ a[m + 1] = n /\ \A i \in 1..m : a[i] = s[i]
  BY DEF Added
<1> HIDE DEF m
<1>2. Range(a) = Range(s) \cup {n}
  <2>1. ASSUME NEW x \in Range(a) PROVE x \in Range(s) \cup {n}
    <3>1. PICK i \in DOMAIN a : x = a[i]
      BY <2>1 DEF Range
    <3>2. i = m + 1 \/ i \in 1..m
      BY <1>1, <3>1
    <3> QED BY <1>1, <3>1, <3>2 DEF Range
  <2>2. ASSUME NEW x \in Range(s) PROVE x \in Range(a)
    <3>1. PICK i \in DOMAIN s : x = s[i]
      BY <2>2 DEF Range
    <3> QED BY <1>1, <3>1 DEF Range
  <2>3. n \in Range(a)
    BY <1>1 DEF Range
  <2> QED BY <2>1, <2>2, <2>3
<1>3. ASSUME Rising(s), Before(Range(s), {n}), NEW i \in DOMAIN a, NEW j \in DOMAIN a, i < j
      PROVE  a[i] < a[j]
  <2>1. i \in 1..m /\ a[i] = s[i] /\ s[i] \in Range(s)
    BY <1>1, <1>3 DEF Range
  <2>2. CASE j = m + 1
    BY <1>1, <1>3, <2>1, <2>2 DEF Before
  <2>3. CASE j \in 1..m
    BY <1>1, <1>3, <2>1, <2>3 DEF Rising
  <2> QED BY <1>1, <2>2, <2>3
<1> QED BY <1>1, <1>2, <1>3 DEF Rising, m, Gains

LEMMA JoinOne ==
  ASSUME NEW s \in Seq(Nat), NEW t \in Seq(Nat), Len(t) = 1
  PROVE  \E n \in Nat : t = <<n>> /\ Range(t) = {n} /\ s \o t = Added(s, n)
<1>0. DOMAIN t = 1..Len(t) /\ \A i \in 1..Len(t) : t[i] \in Nat
  OBVIOUS
<1>1. PICK n : n = t[1]
  OBVIOUS
<1>2. n \in Nat /\ t = <<n>> /\ DOMAIN t = {1}
  <2>1. n \in Nat /\ DOMAIN t = 1..1
    BY <1>0, <1>1
  <2>2. t = <<n>>
    <3>1. <<n>> \in Seq(Nat) /\ Len(<<n>>) = 1 /\ <<n>>[1] = n
      BY <2>1
    <3>2. \A i \in 1..1 : i = 1
      OBVIOUS
    <3>3. \A i \in 1..Len(t) : t[i] = <<n>>[i]
      BY <1>1, <3>1, <3>2
    <3> QED BY <3>1, <3>3, SeqEqual
  <2> QED BY <2>1, <2>2
<1>3. Range(t) = {n}
  BY <1>1, <1>2 DEF Range
<1>4. s \o <<n>> = Append(s, n)
  BY AppendIsConcat
<1> QED BY <1>2, <1>3, <1>4 DEF Added

LEMMA TailOfRising ==
  ASSUME NEW s \in Seq(Nat), s # <<>>, NEW h, h = Head(s), NEW r, r = Tail(s)
  PROVE  Loses(s, h, r)
<1> DEFINE m == Len(r)
<1>1. /\ r \in Seq(Nat) /\ m \in Nat /\ Len(s) = m + 1 /\ DOMAIN r = 1..m /\ DOMAIN s = 1..(m + 1)
      /\ h = s[1] /\ h \in Nat /\ \A i \in 1..m : r[i] = s[i + 1]
  OBVIOUS
<1> HIDE DEF m
<1>2. Range(s) = {h} \cup Range(r)
  <2>1. ASSUME NEW x \in Range(s) PROVE x \in {h} \cup Range(r)
    <3>1. PICK i \in DOMAIN s : x = s[i]
      BY <2>1 DEF Range
    <3>2. CASE i = 1
      BY <1>1, <3>1, <3>2
    <3>3. CASE i # 1
      <4>1. i - 1 \in 1..m /\ s[i] = r[i - 1]
        BY <1>1, <3>3
      <4> QED BY <1>1, <3>1, <4>1 DEF Range
    <3> QED BY <3>2, <3>3
  <2>2. ASSUME NEW x \in Range(r) PROVE x \in Range(s)
    <3>1. PICK i \in DOMAIN r : x = r[i]
      BY <2>2 DEF Range
    <3>2. i + 1 \in DOMAIN s /\ s[i + 1] = x
      BY <1>1, <3>1
    <3> QED BY <3>2 DEF Range
  <2>3. h \in Range(s)
    BY <1>1 DEF Range
  <2> QED BY <2>1, <2>2, <2>3
<1>3. ASSUME Rising(s) PROVE Rising(r) /\ Before({h}, Range(r))
  <2>1. \A i \in 1..m : i + 1 \in DOMAIN s /\ 1 < i + 1 /\ r[i] = s[i + 1]
    BY <1>1
  <2>2. \A i \in 1..m : h < r[i]
    BY <1>1, <1>3, <2>1 DEF Rising
  <2>3. \A i, j \in 1..m : i < j => i + 1 < j + 1
    OBVIOUS
  <2>4. Rising(r)
    BY <1>1, <1>3, <2>1, <2>3 DEF Rising
  <2> QED BY <1>1, <2>2, <2>4 DEF Before, Range
<1> QED BY <1>1, <1>2, <1>3 DEF m, Loses

LEMMA AddToKind ==
  ASSUME NEW S, NEW s \in Seq(S), NEW x \in S, NEW a, a = Added(s, x), NEW k
  PROVE  GainsOf(s, x, a, k)
<1> DEFINE m == Len(s)
<1>1. /\ a \in Seq(S) /\ m \in Nat /\ DOMAIN s = 1..m /\ DOMAIN a = 1..(m + 1)
      /\ a[m + 1] = x /\ \A i \in 1..m : a[i] = s[i]
  BY DEF Added
<1> HIDE DEF m
<1>2. \A i \in DOMAIN a : i = m + 1 \/ i \in 1..m
  BY <1>1
<1>3. \A i \in 1..m : i \in DOMAIN a /\ i # m + 1
  BY <1>1
<1>4. m + 1 \in DOMAIN a
  BY <1>1
<1>5. \A n : n \in Of(a, k) <=> n \in Of(s, k) \/ (x[1] = k /\ n = x[2])
  <2>1. \A n : n \in Of(a, k) <=> \E i \in DOMAIN a : a[i][1] = k /\ n = a[i][2]
    BY DEF Of
  <2>2. \A n : n \in Of(s, k) <=> \E i \in DOMAIN s : s[i][1] = k /\ n = s[i][2]
    BY DEF Of
  <2> QED BY <1>1, <1>2, <1>3, <1>4, <2>1, <2>2
<1>6. ASSUME Rises(s, k), x[1] = k => Before(Of(s, k), {x[2]}),
             NEW i \in DOMAIN a, NEW j \in DOMAIN a, i < j, a[i][1] = k, a[j][1] = k
      PROVE  a[i][2] < a[j][2]
  <2>1. i \in 1..m /\ a[i] = s[i]
    BY <1>1, <1>6
  <2>2. CASE j = m + 1
    <3>1. s[i][2] \in Of(s, k)
      BY <1>1, <1>6, <2>1 DEF Of
    <3> QED BY <1>1, <1>6, <2>1, <2>2, <3>1 DEF Before
  <2>3. CASE j \in 1..m
    BY <1>1, <1>6, <2>1, <2>3 DEF Rises
  <2> QED BY <1>2, <2>2, <2>3
<1> QED BY <1>5, <1>6 DEF Rises, GainsOf

LEMMA TailOfKind ==
  ASSUME NEW S, NEW s \in Seq(S), s # <<>>, NEW h, h = Head(s), NEW r, r = Tail(s), NEW k
  PROVE  h \in S /\ r \in Seq(S) /\ LosesOf(s, h, r, k)
<1> DEFINE m == Len(r)
<1>1. /\ r \in Seq(S) /\ m \in Nat /\ DOMAIN r = 1..m /\ DOMAIN s = 1..(m + 1)
      /\ h = s[1] /\ h \in S /\ \A i \in 1..m : r[i] = s[i + 1]
  OBVIOUS
<1> HIDE DEF m
<1>2. \A i \in DOMAIN s : i = 1 \/ (i - 1 \in 1..m /\ s[i] = r[i - 1])
  BY <1>1
<1>3. \A i \in 1..m : i + 1 \in DOMAIN s /\ s[i + 1] = r[i] /\ 1 < i + 1
  BY <1>1
<1>4. 1 \in DOMAIN s
  BY <1>1
<1>5. \A n : n \in Of(s, k) <=> n \in Of(r, k) \/ (h[1] = k /\ n = h[2])
  <2>1. \A n : n \in Of(s, k) <=> \E i \in DOMAIN s : s[i][1] = k /\ n = s[i][2]
    BY DEF Of
  <2>2. \A n : n \in Of(r, k) <=> \E i \in DOMAIN r : r[i][1] = k /\ n = r[i][2]
    BY DEF Of
  <2>3. ASSUME NEW i \in DOMAIN s, s[i][1] = k PROVE s[i][2] \in Of(r, k) \/ (h[1] = k /\ s[i][2] = h[2])
    <3>1. i - 1 \in 1..m /\ r[i - 1] = s[i] => s[i][2] \in Of(r, k)
      BY <1>1, <2>2, <2>3
    <3> QED BY <1>1, <1>2, <2>3, <3>1
  <2>4. ASSUME NEW i \in DOMAIN r, r[i][1] = k PROVE r[i][2] \in Of(s, k)
    BY <1>1, <1>3, <2>1, <2>4
  <2>5. h[1] = k => h[2] \in Of(s, k)
    BY <1>1, <1>4, <2>1
  <2> QED BY <2>1, <2>2, <2>3, <2>4, <2>5
<1>6. ASSUME Rises(s, k) PROVE Rises(r, k) /\ (h[1] = k => Before({h[2]}, Of(r, k)))
  <2>1. \A i, j \in 1..m : i < j => i + 1 < j + 1
    OBVIOUS
  <2>2. Rises(r, k)
    BY <1>1, <1>3, <1>6, <2>1 DEF Rises
  <2>3. ASSUME h[1] = k, NEW n \in Of(r, k) PROVE h[2] < n
    <3>1. PICK i \in DOMAIN r : r[i][1] = k /\ n = r[i][2]
      BY <2>3 DEF Of
    <3> QED BY <1>1, <1>3, <1>4, <1>6, <2>3, <3>1 DEF Rises
  <2> QED BY <2>2, <2>3 DEF Before
<1> QED BY <1>1, <1>5, <1>6 DEF LosesOf
-----------------------------------------------------------------------------
(* The inductive invariant.                                                 *)

\* What the two tasks carry, by their places; a line in hand is the last read.
ItemInv ==
  /\ stdioPc = "select" => item = <<>>
  /\ stdioPc = "writing" => item \in {"response", "notification"} \X Nat
  /\ stdioPc = "relaying" => item \in {"message"} \X Nat
  /\ item # <<>> => (item[1] \in {"response", "message"} => item[2] = taken /\ taken \in 1..Len(lines))
  /\ wsPc \in {"delivering", "sending"} => Len(carry) = 1
  /\ wsPc \notin {"off", "delivering", "sending"} => carry = <<>>

AnswerInv ==
  /\ EveryRequestAnswered
  /\ \A n \in Written("response") : n <= taken

\* Notifications arrive in the order in which the relay numbers them.
Arriving ==
  /\ Rises(down, "notification") /\ Before(Range(received), Of(down, "notification"))
  /\ \A n \in Range(received) \cup Of(down, "notification") : n <= pushed
NoteInv == NotificationsKept /\ Arriving

\* The messages on their way to the relay, or there, are those of lines that
\* were read before the one in hand, and of answered calls.
Sending == IF wsPc = "sending" THEN Range(carry) ELSE {}
Relayed == Range(uplinked) \cup Sending \cup Range(toRelay)
RelayInv ==
  /\ Rising(uplinked) /\ Rising(toRelay)
  /\ Before(Range(uplinked), Sending) /\ Before(Range(uplinked) \cup Sending, Range(toRelay))
  /\ \A n \in Relayed : n \in 1..taken
  /\ Before(Relayed, InHand("response") \cup InHand("message"))
  /\ \A n \in Relayed \cup InHand("message") : lines[n] = "call" => n \in Written("response")

IInv == TypeOK /\ ItemInv /\ AnswerInv /\ NoteInv /\ RelayInv
-----------------------------------------------------------------------------
(* Types.                                                                   *)
LEMMA DoubledFacts == ASSUME NEW w \in Initial..MaxWait PROVE Doubled(w) \in Initial..MaxWait
<1> DEFINE S == {2 * w, MaxWait}
<1>1. Initial \in Nat /\ MaxWait \in Nat /\ w \in Nat /\ Initial <= w /\ w <= MaxWait
  BY WaitAssumption
<1>2. \E x \in S : \A y \in S : x <= y
  BY <1>1
<1>3. Min(S) \in S /\ \A y \in S : Min(S) <= y
  BY <1>2 DEF Min
<1> QED BY <1>1, <1>3 DEF Doubled

Frames == {<<"welcome">>, <<"error">>} \cup ({"notification"} \X Nat)

LEMMA TypeStep == ASSUME TypeOK, ItemInv, [Next]_vars PROVE TypeOK'
<1> USE DEF claudeVars, stdioVars, wsVars, linkVars
<1>0. /\ QueueSize \in Nat /\ PipeSize \in Nat /\ WireSize \in Nat /\ Initial \in Nat /\ MaxWait \in Nat
      /\ Initial <= MaxWait
  BY SizeAssumption, WaitAssumption
<1>1. ASSUME NEW k \in Kind, WriteLine(k) PROVE TypeOK'
  <2>1. lines' \in Seq(Kind) /\ Len(lines') = Len(lines) + 1
    BY <1>1 DEF WriteLine, TypeOK
  <2> QED BY <1>1, <2>1 DEF WriteLine, TypeOK
<1>2. CASE Close
  BY <1>2 DEF Close, TypeOK
<1>3. CASE ReadOutput
  BY <1>0, <1>3 DEF ReadOutput, TypeOK
<1>4. CASE TakeLine
  BY <1>4 DEF TakeLine, TypeOK
<1>5. CASE TakeNotification
  <2>0. toStdout \in Seq(Nat) /\ toStdout # <<>> /\ Len(toStdout) <= QueueSize
    BY <1>5 DEF TakeNotification, TypeOK
  <2>1. Head(toStdout) \in Nat /\ Tail(toStdout) \in Seq(Nat) /\ Len(Tail(toStdout)) <= QueueSize
    BY <1>0, <2>0
  <2> QED BY <1>5, <2>1 DEF TakeNotification, TypeOK
<1>6. CASE WriteOut
  <2>1. output' \in Seq({"response", "notification"} \X Nat) /\ unread' \in 0..PipeSize
    BY <1>0, <1>6 DEF WriteOut, TypeOK, ItemInv
  <2>2. item[2] \in Nat
    BY <1>6 DEF WriteOut, ItemInv
  <2> QED BY <1>6, <2>1, <2>2 DEF WriteOut, TypeOK
<1>7. CASE HandOver
  <2>1. toRelay' \in Seq(Nat) /\ Len(toRelay') <= QueueSize
    BY <1>0, <1>7 DEF HandOver, TypeOK, ItemInv
  <2> QED BY <1>7, <2>1 DEF HandOver, TypeOK
<1>8. CASE Exit
  BY <1>8 DEF Exit, TypeOK
<1>9. CASE Drain \/ Outgoing
  <2>0. toRelay \in Seq(Nat) /\ toRelay # <<>> /\ Len(toRelay) <= QueueSize
    BY <1>9 DEF Drain, Outgoing, TypeOK
  <2>1. Head(toRelay) \in Nat /\ Tail(toRelay) \in Seq(Nat) /\ Len(Tail(toRelay)) <= QueueSize
    BY <1>0, <2>0
  <2>2. <<Head(toRelay)>> \in Seq(Nat)
    BY <2>1
  <2> QED BY <1>9, <2>1, <2>2 DEF Drain, Outgoing, TypeOK
<1>10. CASE Connect \/ Refused \/ SendHello
  <2>1. <<>> \in Seq(Frames) /\ 0 \in 0..WireSize
    BY <1>0
  <2>2. CASE Connect
    BY <2>1, <2>2 DEF Connect, TypeOK, Frames
  <2>3. CASE Refused
    BY <2>3 DEF Refused, TypeOK
  <2>4. CASE SendHello
    BY <2>4 DEF SendHello, TypeOK
  <2> QED BY <1>10, <2>2, <2>3, <2>4
<1>11. CASE Incoming
  <2>1. Head(down) \in Frames /\ Tail(down) \in Seq(Frames)
    BY <1>11 DEF Incoming, TypeOK, Frames
  <2>2. Head(down)[1] = "notification" => Head(down)[2] \in Nat
    BY <2>1 DEF Frames
  <2>3. /\ received' \in Seq(Nat) /\ carry' \in Seq(Nat) /\ wait' \in Initial..MaxWait /\ fails' \in Nat
        /\ wsPc' \in {"session", "pausing", "delivering"}
    <3> DEFINE n == Head(down)[2]
    <3>1. /\ received \in Seq(Nat) /\ carry \in Seq(Nat) /\ wait \in Initial..MaxWait /\ fails \in Nat
          /\ wsPc = "session"
      BY <1>11 DEF Incoming, TypeOK
    <3>2. \/ wait' = Initial /\ fails' = 0 /\ UNCHANGED <<wsPc, carry, received>>
          \/ wsPc' = "pausing" /\ UNCHANGED <<carry, wait, fails, received>>
          \/ /\ wsPc' = "delivering" /\ n \in Nat /\ carry' = <<n>> /\ received' = Append(received, n)
             /\ UNCHANGED <<wait, fails>>
      BY <1>11, <2>2 DEF Incoming, Welcomed
    <3> HIDE DEF n
    <3>3. CASE wait' = Initial /\ fails' = 0 /\ UNCHANGED <<wsPc, carry, received>>
      BY <1>0, <3>1, <3>3
    <3>4. CASE wsPc' = "pausing" /\ UNCHANGED <<carry, wait, fails, received>>
      BY <3>1, <3>4
    <3>5. CASE /\ wsPc' = "delivering" /\ n \in Nat /\ carry' = <<n>> /\ received' = Append(received, n)
               /\ UNCHANGED <<wait, fails>>
      <4>1. PICK m \in Nat : carry' = <<m>> /\ received' = Append(received, m)
        BY <3>5
      <4> QED BY <3>1, <3>5, <4>1
    <3> QED BY <3>2, <3>3, <3>4, <3>5
  <2>4. down' \in Seq(Frames)
    BY <1>11, <2>1 DEF Incoming
  <2>5. UNCHANGED <<claude, lines, taken, output, stdioPc, item, unread, toRelay, toStdout, uplinked,
                    attempts, link, up, pushed>>
    BY <1>11 DEF Incoming
  <2>6. down' \in Seq({<<"welcome">>, <<"error">>} \cup ({"notification"} \X Nat))
    BY <2>4 DEF Frames
  <2>7. wsPc' \in {"off", "connecting", "pausing", "greeting", "session", "delivering", "sending"}
    BY <2>3
  <2> QED BY <2>3, <2>5, <2>6, <2>7 DEF TypeOK
<1>12. CASE Notify
  <2>0. /\ toStdout \in Seq(Nat) /\ carry \in Seq(Nat) /\ Len(carry) = 1 /\ Len(toStdout) < QueueSize
        /\ toStdout' = toStdout \o carry
    BY <1>12 DEF Notify, TypeOK, ItemInv
  <2>1. toStdout' \in Seq(Nat) /\ Len(toStdout') <= QueueSize
    <3>1. PICK n \in Nat : toStdout' = Added(toStdout, n)
      BY <2>0, JoinOne
    <3> QED BY <1>0, <2>0, <3>1 DEF Added
  <2> QED BY <1>12, <2>1 DEF Notify, TypeOK
<1>13. CASE Sent
  <2>1. uplinked' \in Seq(Nat) /\ up' \in 0..WireSize
    BY <1>0, <1>13 DEF Sent, TypeOK
  <2> QED BY <1>13, <2>1 DEF Sent, TypeOK
<1>14. CASE Lost
  BY <1>14 DEF Lost, TypeOK
<1>15. CASE Resume
  <2>1. wait' \in Initial..MaxWait
    BY <1>15, DoubledFacts DEF Resume, TypeOK
  <2> QED BY <1>15, <2>1 DEF Resume, TypeOK
<1>16. CASE Greet
  <2>1. down' \in Seq(Frames)
    <3>1. down \in Seq(Frames)
      BY DEF TypeOK, Frames
    <3>2. PICK f \in {<<"welcome">>, <<"error">>} : down' = Append(down, f)
      BY <1>16 DEF Greet
    <3>3. f \in Frames
      BY <3>2 DEF Frames
    <3> QED BY <3>1, <3>2, <3>3
  <2> QED BY <1>16, <2>1 DEF Greet, TypeOK, Frames
<1>17. CASE Push
  <2>1. down' \in Seq(Frames) /\ pushed' \in Nat
    BY <1>17 DEF Push, TypeOK, Frames
  <2> QED BY <1>17, <2>1 DEF Push, TypeOK, Frames
<1>18. CASE RelayReads
  BY <1>0, <1>18 DEF RelayReads, TypeOK
<1>19. CASE Break
  BY <1>19 DEF Break, TypeOK
<1>20. CASE UNCHANGED vars
  BY <1>20 DEF vars, TypeOK
<1> QED BY <1>1, <1>2, <1>3, <1>4, <1>5, <1>6, <1>7, <1>8, <1>9, <1>10, <1>11, <1>12, <1>13, <1>14,
           <1>15, <1>16, <1>17, <1>18, <1>19, <1>20 DEF Next, StdioTask, WsTask, Peers
-----------------------------------------------------------------------------
(* What the steps do with the lines, the output and the messages.            *)
stdioState == <<lines, taken, output, stdioPc, item>>
wsState == <<wsPc, carry>>

LEMMA WriteLineFacts ==
  ASSUME TypeOK, NEW k \in Kind, WriteLine(k)
  PROVE  /\ Len(lines') = Len(lines) + 1 /\ Len(lines) \in Nat
         /\ \A n \in 1..Len(lines) : lines'[n] = lines[n]
         /\ UNCHANGED <<taken, output, stdioPc, item, toRelay, toStdout, wsPc, carry, uplinked, received, down, pushed>>
<1>1. lines' = Append(lines, k) /\ lines \in Seq(Kind)
  BY DEF WriteLine, TypeOK
<1> QED BY <1>1 DEF WriteLine, stdioVars, wsVars, linkVars

LEMMA TakeLineFacts ==
  ASSUME TypeOK, ItemInv, TakeLine
  PROVE  /\ stdioPc = "select" /\ item = <<>> /\ taken' = taken + 1 /\ taken \in Nat
         /\ taken + 1 \in 1..Len(lines)
         /\ \/ /\ lines[taken + 1] \in AnsweredKinds
               /\ stdioPc' = "writing" /\ item' = <<"response", taken + 1>>
            \/ /\ lines[taken + 1] \in RelayedKinds \ AnsweredKinds
               /\ stdioPc' = "relaying" /\ item' = <<"message", taken + 1>>
            \/ lines[taken + 1] \notin AnsweredKinds \cup RelayedKinds /\ UNCHANGED <<stdioPc, item>>
         /\ UNCHANGED <<lines, output, toRelay, toStdout, wsPc, carry, uplinked, received, down, pushed>>
<1>1. taken \in 0..Len(lines) /\ Len(lines) \in Nat /\ taken < Len(lines) /\ stdioPc = "select"
  BY DEF TakeLine, TypeOK
<1>2. taken \in Nat /\ taken + 1 \in 1..Len(lines)
  BY <1>1
<1> QED BY <1>1, <1>2 DEF TakeLine, ItemInv, claudeVars, wsVars, linkVars

LEMMA TakeNotificationFacts ==
  ASSUME TypeOK, ItemInv, TakeNotification
  PROVE  \E n \in Nat :
           /\ toStdout # <<>> /\ n = Head(toStdout) /\ toStdout' = Tail(toStdout)
           /\ item = <<>> /\ stdioPc' = "writing" /\ item' = <<"notification", n>>
           /\ UNCHANGED <<lines, taken, output, toRelay, wsPc, carry, uplinked, received, down, pushed>>
<1>1. toStdout \in Seq(Nat) /\ toStdout # <<>>
  BY DEF TakeNotification, TypeOK
<1>2. Head(toStdout) \in Nat
  BY <1>1
<1> QED BY <1>1, <1>2 DEF TakeNotification, ItemInv, claudeVars, wsVars, linkVars

LEMMA WriteOutFacts ==
  ASSUME TypeOK, ItemInv, WriteOut
  PROVE  /\ item \in {"response", "notification"} \X Nat /\ output' = Added(output, item)
         /\ \/ /\ item[1] = "response" /\ lines[item[2]] \in RelayedKinds
               /\ stdioPc' = "relaying" /\ item' = <<"message", item[2]>>
            \/ /\ ~(item[1] = "response" /\ lines[item[2]] \in RelayedKinds)
               /\ stdioPc' = "select" /\ item' = <<>>
         /\ UNCHANGED <<lines, taken, toRelay, toStdout, wsPc, carry, uplinked, received, down, pushed>>
BY DEF WriteOut, Follows, ItemInv, Added, claudeVars, wsVars, linkVars

LEMMA HandOverFacts ==
  ASSUME TypeOK, ItemInv, HandOver
  PROVE  /\ item \in {"message"} \X Nat /\ toRelay' = Added(toRelay, item[2])
         /\ stdioPc' = "select" /\ item' = <<>>
         /\ UNCHANGED <<lines, taken, output, toStdout, wsPc, carry, uplinked, received, down, pushed>>
BY DEF HandOver, ItemInv, Added, claudeVars, wsVars, linkVars

LEMMA ItemStep == ASSUME TypeOK, ItemInv, [Next]_vars PROVE ItemInv'
<1>1. ASSUME UNCHANGED stdioState,
             \/ UNCHANGED wsState
             \/ wsPc' \in {"delivering", "sending"} /\ Len(carry') = 1
             \/ wsPc' \notin {"delivering", "sending"} /\ carry' = <<>>
             \/ wsPc' = "off"
      PROVE  ItemInv'
  BY <1>1 DEF ItemInv, stdioState, wsState
<1>2. ASSUME NEW k \in Kind, WriteLine(k) PROVE ItemInv'
  <2>1. /\ Len(lines') = Len(lines) + 1 /\ Len(lines) \in Nat
        /\ UNCHANGED <<taken, stdioPc, item, wsPc, carry>>
    BY <1>2, WriteLineFacts
  <2>2. taken \in 1..Len(lines) => taken \in 1..Len(lines')
    BY <2>1
  <2> QED BY <2>1, <2>2 DEF ItemInv
<1>3. CASE TakeLine
  <2>1. /\ stdioPc = "select" /\ item = <<>> /\ taken' = taken + 1 /\ taken \in Nat
        /\ taken' \in 1..Len(lines') /\ UNCHANGED <<wsPc, carry>>
        /\ \/ stdioPc' = "writing" /\ item' = <<"response", taken'>>
           \/ stdioPc' = "relaying" /\ item' = <<"message", taken'>>
           \/ UNCHANGED <<stdioPc, item>>
    BY <1>3, TakeLineFacts
  <2>2. taken' \in Nat
    BY <2>1
  <2> QED BY <2>1, <2>2 DEF ItemInv
<1>4. CASE TakeNotification
  BY <1>4, TakeNotificationFacts DEF ItemInv
<1>5. CASE WriteOut
  <2>1. item \in {"response", "notification"} \X Nat /\ UNCHANGED <<lines, taken, wsPc, carry>>
    BY <1>5, WriteOutFacts
  <2>2. CASE item[1] = "response" /\ stdioPc' = "relaying" /\ item' = <<"message", item[2]>>
    BY <2>1, <2>2 DEF ItemInv
  <2>3. CASE stdioPc' = "select" /\ item' = <<>>
    BY <2>1, <2>3 DEF ItemInv
  <2> QED BY <1>5, <2>2, <2>3, WriteOutFacts
<1>6. CASE HandOver
  BY <1>6, HandOverFacts DEF ItemInv
<1>7. CASE Exit
  BY <1>7 DEF Exit, ItemInv, claudeVars
<1>8. CASE Close \/ ReadOutput \/ Drain \/ Greet \/ Push \/ RelayReads \/ Break \/ UNCHANGED vars
  BY <1>1, <1>8 DEF Close, ReadOutput, Drain, Greet, Push, RelayReads, Break, vars,
     claudeVars, stdioVars, wsVars, stdioState, wsState
<1>9. CASE Connect \/ Refused \/ SendHello \/ Resume
  <2>1. wsPc \notin {"off", "delivering", "sending"} /\ wsPc' \notin {"delivering", "sending"} /\ carry' = carry
    BY <1>9 DEF Connect, Refused, SendHello, Resume
  <2>2. carry' = <<>>
    BY <2>1 DEF ItemInv
  <2>3. UNCHANGED stdioState
    BY <1>9 DEF Connect, Refused, SendHello, Resume, stdioState, claudeVars, stdioVars
  <2> QED BY <1>1, <2>1, <2>2, <2>3
<1>10. CASE Notify \/ Sent \/ Lost
  <2>1. wsPc' \notin {"delivering", "sending"} /\ carry' = <<>>
    BY <1>10 DEF Notify, Sent, Lost
  <2>2. UNCHANGED stdioState
    BY <1>10 DEF Notify, Sent, Lost, stdioState, claudeVars, stdioVars
  <2> QED BY <1>1, <2>1, <2>2
<1>11. CASE Incoming
  <2>1. /\ wsPc = "session" /\ UNCHANGED stdioState
        /\ \/ wsPc' \in {"session", "pausing"} /\ carry' = carry
           \/ wsPc' = "delivering" /\ carry' = <<Head(down)[2]>>
    BY <1>11 DEF Incoming, stdioState, claudeVars, stdioVars
  <2>2. carry = <<>>
    BY <2>1 DEF ItemInv
  <2> QED BY <1>1, <2>1, <2>2
<1>12. CASE Outgoing
  <2>1. wsPc' = "sending" /\ carry' = <<Head(toRelay)>> /\ UNCHANGED stdioState
    BY <1>12 DEF Outgoing, stdioState, claudeVars, stdioVars
  <2> QED BY <1>1, <2>1
<1> QED BY <1>2, <1>3, <1>4, <1>5, <1>6, <1>7, <1>8, <1>9, <1>10, <1>11, <1>12 DEF Next, StdioTask, WsTask, Peers
-----------------------------------------------------------------------------
(* The answers.                                                             *)
LEMMA Pairs == \A a, b : <<a, b>> # <<>> /\ <<a, b>>[1] = a /\ <<a, b>>[2] = b
OBVIOUS

LEMMA AnswerStep == ASSUME TypeOK, ItemInv, AnswerInv, [Next]_vars PROVE AnswerInv'
<1> DEFINE W == Written("response")
           H == InHand("response")
           Asks(n) == lines[n] \in {"request", "call"}
<1>0. /\ taken \in Nat /\ Len(lines) \in Nat /\ taken <= Len(lines)
      /\ \A n \in W : n <= taken
      /\ W \cup H = {n \in 1..taken : Asks(n)} /\ InOrder("response")
  BY DEF AnswerInv, EveryRequestAnswered, TypeOK
<1>1. ASSUME UNCHANGED <<lines, taken, output, item>> PROVE AnswerInv'
  BY <1>1 DEF AnswerInv, EveryRequestAnswered, InOrder, Written, InHand
<1>2. ASSUME UNCHANGED output, InHand("response")' = InHand("response"), taken' = taken,
             \A n \in 1..taken : lines'[n] = lines[n]
      PROVE  AnswerInv'
  <2>1. Written("response")' = W /\ InOrder("response")'
    BY <1>0, <1>2 DEF InOrder, Written
  <2>2. {n \in 1..taken' : lines'[n] \in {"request", "call"}} = {n \in 1..taken : Asks(n)}
    BY <1>2
  <2> QED BY <1>0, <1>2, <2>1, <2>2 DEF AnswerInv, EveryRequestAnswered
<1>3. ASSUME NEW k \in Kind, WriteLine(k) PROVE AnswerInv'
  <2>1. /\ \A n \in 1..Len(lines) : lines'[n] = lines[n]
        /\ UNCHANGED <<taken, output, item>>
    BY <1>3, WriteLineFacts
  <2>2. \A n \in 1..taken : n \in 1..Len(lines)
    BY <1>0
  <2> QED BY <1>2, <2>1, <2>2 DEF InHand
<1>4. CASE TakeLine
  <2>1. /\ item = <<>> /\ taken' = taken + 1 /\ UNCHANGED <<lines, output>>
        /\ \/ lines[taken + 1] \in AnsweredKinds /\ item' = <<"response", taken + 1>>
           \/ lines[taken + 1] \notin AnsweredKinds /\ item' = <<"message", taken + 1>>
           \/ lines[taken + 1] \notin AnsweredKinds /\ item' = item
    BY <1>4, TakeLineFacts
  <2>2. H = {} /\ W' = W
    BY <2>1 DEF InHand, Written
  <2>3. {n \in 1..taken' : Asks(n)'} = {n \in 1..taken : Asks(n)} \cup (IF Asks(taken + 1) THEN {taken + 1} ELSE {})
    <3>1. \A n : n \in 1..taken' <=> n \in 1..taken \/ n = taken + 1
      BY <1>0, <2>1
    <3> QED BY <2>1, <3>1
  <2>4. H' = IF Asks(taken + 1) THEN {taken + 1} ELSE {}
    <3>1. CASE lines[taken + 1] \in AnsweredKinds /\ item' = <<"response", taken + 1>>
      BY <3>1, Pairs DEF InHand, AnsweredKinds
    <3>2. CASE lines[taken + 1] \notin AnsweredKinds /\ item' = <<"message", taken + 1>>
      BY <3>2, Pairs DEF InHand, AnsweredKinds
    <3>3. CASE lines[taken + 1] \notin AnsweredKinds /\ item' = item
      BY <2>1, <3>3 DEF InHand, AnsweredKinds
    <3> QED BY <2>1, <3>1, <3>2, <3>3
  <2>5. \A n \in W : n < taken + 1 /\ n <= taken'
    <3>1. \A n \in W : n \in 1..taken
      BY <1>0
    <3> QED BY <1>0, <2>1, <3>1
  <2>6. InOrder("response")'
    <3>1. Before(W', H')
      BY <2>2, <2>4, <2>5 DEF Before
    <3> QED BY <1>0, <2>1, <3>1 DEF InOrder
  <2>7. (W \cup H)' = {n \in 1..taken' : Asks(n)'}
    BY <1>0, <2>2, <2>3, <2>4
  <2> QED BY <2>2, <2>5, <2>6, <2>7 DEF AnswerInv, EveryRequestAnswered
<1>5. CASE TakeNotification
  <2>1. item = <<>> /\ UNCHANGED <<lines, taken, output>> /\ \E n \in Nat : item' = <<"notification", n>>
    BY <1>5, TakeNotificationFacts
  <2>2. InHand("response")' = InHand("response")
    BY <2>1 DEF InHand
  <2> QED BY <1>2, <2>1, <2>2
<1>6. CASE WriteOut
  <2>1. /\ item \in {"response", "notification"} \X Nat /\ output' = Added(output, item)
        /\ UNCHANGED <<lines, taken>>
        /\ \/ item[1] = "response" /\ item' = <<"message", item[2]>>
           \/ item' = <<>>
    BY <1>6, WriteOutFacts
  <2>2. item # <<>> /\ H' = {} /\ item[2] \in Nat /\ output \in Seq({"response", "notification"} \X Nat)
    <3>1. item # <<>> /\ item[2] \in Nat
      BY <2>1
    <3>2. H' = {}
      BY <2>1, Pairs DEF InHand
    <3> QED BY <3>1, <3>2 DEF TypeOK
  <2>3. PICK x, a, S : x = item /\ a = output' /\ S = {"response", "notification"} \X Nat
    OBVIOUS
  <2>4. GainsOf(output, x, a, "response")
    <3>1. x \in S /\ output \in Seq(S) /\ a = Added(output, x)
      BY <2>1, <2>2, <2>3
    <3> QED BY <3>1, AddToKind
  <2>5. W = Of(output, "response") /\ W' = Of(output', "response")
    BY DEF Written, Of
  <2>6. Rises(output, "response") /\ Before(W, H)
    BY <1>0 DEF InOrder, Rises
  <2>7. CASE x[1] = "response"
    <3>1. H = {x[2]} /\ x[2] = taken
      BY <2>2, <2>3, <2>7 DEF InHand, ItemInv
    <3>2. W' = W \cup H /\ Rises(output', "response")
      BY <2>3, <2>4, <2>5, <2>6, <2>7, <3>1 DEF GainsOf
    <3>3. InOrder("response")'
      BY <2>2, <3>2 DEF InOrder, Rises, Before
    <3> QED BY <1>0, <2>1, <2>2, <3>1, <3>2, <3>3 DEF AnswerInv, EveryRequestAnswered
  <2>8. CASE x[1] # "response"
    <3>1. H = {}
      BY <2>3, <2>8 DEF InHand
    <3>2. W' = W /\ Rises(output', "response")
      BY <2>3, <2>4, <2>5, <2>6, <2>8 DEF GainsOf
    <3>3. InOrder("response")'
      BY <2>2, <3>2 DEF InOrder, Rises, Before
    <3> QED BY <1>0, <2>1, <2>2, <3>1, <3>2, <3>3 DEF AnswerInv, EveryRequestAnswered
  <2> QED BY <2>7, <2>8
<1>7. CASE HandOver
  <2>1. item \in {"message"} \X Nat /\ item' = <<>> /\ UNCHANGED <<lines, taken, output>>
    BY <1>7, HandOverFacts
  <2>2. InHand("response")' = InHand("response")
    BY <2>1 DEF InHand
  <2> QED BY <1>2, <2>1, <2>2
<1>8. CASE \/ Exit \/ Close \/ ReadOutput \/ Drain \/ Greet \/ Push \/ RelayReads \/ Break \/ Connect \/ Refused
           \/ SendHello \/ Resume \/ Notify \/ Sent \/ Lost \/ Incoming \/ Outgoing \/ UNCHANGED vars
  <2>1. UNCHANGED <<lines, taken, output, item>>
    BY <1>8 DEF Exit, Close, ReadOutput, Drain, Greet, Push, RelayReads, Break, Connect, Refused, SendHello,
       Resume, Notify, Sent, Lost, Incoming, Outgoing, vars, claudeVars, stdioVars
  <2> QED BY <1>1, <2>1
<1> QED BY <1>3, <1>4, <1>5, <1>6, <1>7, <1>8 DEF Next, StdioTask, WsTask, Peers
-----------------------------------------------------------------------------
(* The notifications.                                                       *)
LEMMA IncomingFacts ==
  ASSUME TypeOK, ItemInv, Incoming
  PROVE  /\ wsPc = "session" /\ down \in Seq(Frames) /\ down # <<>> /\ down' = Tail(down)
         /\ \/ /\ Head(down)[1] # "notification" /\ wsPc' \in {"session", "pausing"}
               /\ UNCHANGED received
            \/ /\ Head(down)[1] = "notification" /\ wsPc' = "delivering"
               /\ Head(down)[2] \in Nat /\ carry' = <<Head(down)[2]>>
               /\ received' = Added(received, Head(down)[2])
         /\ UNCHANGED <<output, item, toStdout, pushed>>
<1>1. down \in Seq(Frames) /\ down # <<>> /\ wsPc = "session"
  BY DEF Incoming, TypeOK, Frames
<1>2. PICK f : f = Head(down)
  OBVIOUS
<1>3. f \in Frames
  BY <1>1, <1>2
<1>4. f[1] = "notification" => f[2] \in Nat
  BY <1>3 DEF Frames
<1>5. \/ f = <<"welcome">> /\ UNCHANGED <<wsPc, received>>
      \/ f = <<"error">> /\ wsPc' = "pausing" /\ UNCHANGED received
      \/ f[1] = "notification" /\ wsPc' = "delivering" /\ carry' = <<f[2]>> /\ received' = Append(received, f[2])
  BY <1>2 DEF Incoming
<1>6. down' = Tail(down) /\ UNCHANGED <<output, item, toStdout, pushed>>
  BY DEF Incoming, stdioVars
<1> QED BY <1>1, <1>2, <1>4, <1>5, <1>6 DEF Added

LEMMA KeptStep == ASSUME TypeOK, ItemInv, NoteInv, [Next]_vars PROVE NotificationsKept'
<1> DEFINE W == Written("notification")
           H == InHand("notification")
           Q == Range(toStdout)
           D == Delivering
           R == Range(received)
<1>0. /\ received \in Seq(Nat) /\ toStdout \in Seq(Nat) /\ carry \in Seq(Nat)
      /\ output \in Seq({"response", "notification"} \X Nat)
  BY DEF TypeOK
<1>1. wsPc # "off" =>
        /\ Rising(received) /\ Rises(output, "notification") /\ Before(W, H) /\ Rising(toStdout)
        /\ Before(W \cup H, Q) /\ Before(W \cup H \cup Q, D) /\ W \cup H \cup Q \cup D = R
  BY DEF NoteInv, NotificationsKept, InOrder, Rises
<1>2. W = Of(output, "notification") /\ W' = Of(output', "notification")
  BY DEF Written, Of
\* What has to be shown of the next state.
<1>3. ASSUME wsPc' # "off" =>
               /\ Rising(received') /\ Rises(output', "notification") /\ Before(W', H') /\ Rising(toStdout')
               /\ Before(W' \cup H', Q') /\ Before(W' \cup H' \cup Q', D') /\ W' \cup H' \cup Q' \cup D' = R'
      PROVE  NotificationsKept'
  BY <1>3 DEF NotificationsKept, InOrder, Rises, Rising, Before
<1>4. ASSUME UNCHANGED <<output, toStdout, received>>, H' = H, D' = D, wsPc' # "off" => wsPc # "off"
      PROVE  NotificationsKept'
  <2>1. W' = W /\ Q' = Q /\ R' = R
    BY <1>4 DEF Written
  <2> QED BY <1>1, <1>3, <1>4, <2>1
<1>5. ASSUME wsPc = "session" PROVE D = {}
  BY <1>5 DEF Delivering
<1>6. ASSUME NEW kk \in Kind, WriteLine(kk) PROVE NotificationsKept'
  <2>1. UNCHANGED <<output, item, toStdout, wsPc, carry, received>>
    BY <1>6, WriteLineFacts
  <2> QED BY <1>4, <2>1 DEF InHand, Delivering
<1>7. CASE TakeLine
  <2>1. /\ item = <<>> /\ UNCHANGED <<output, toStdout, wsPc, carry, received>>
        /\ item' = item \/ \E q \in {"response", "message"} : \E n : item' = <<q, n>>
    BY <1>7, TakeLineFacts
  <2>2. H' = H
    BY <2>1, Pairs DEF InHand
  <2> QED BY <1>4, <2>1, <2>2 DEF Delivering
<1>8. CASE HandOver
  <2>1. item \in {"message"} \X Nat /\ item' = <<>> /\ UNCHANGED <<output, toStdout, wsPc, carry, received>>
    BY <1>8, HandOverFacts
  <2>2. H' = H
    BY <2>1 DEF InHand
  <2> QED BY <1>4, <2>1, <2>2 DEF Delivering
<1>9. CASE TakeNotification
  <2>1. PICK n \in Nat :
          /\ toStdout # <<>> /\ n = Head(toStdout) /\ toStdout' = Tail(toStdout)
          /\ item = <<>> /\ item' = <<"notification", n>>
          /\ UNCHANGED <<output, wsPc, carry, received>>
    BY <1>9, TakeNotificationFacts
  <2>2. PICK q : q = toStdout'
    OBVIOUS
  <2>3. Loses(toStdout, n, q)
    BY <1>0, <2>1, <2>2, TailOfRising
  <2>4. W' = W /\ H = {} /\ H' = {n} /\ Q = {n} \cup Q' /\ D' = D /\ R' = R
    <3>1. W' = W /\ D' = D /\ R' = R
      BY <2>1 DEF Written, Delivering
    <3>2. H = {} /\ H' = {n}
      BY <2>1, Pairs DEF InHand
    <3>3. Q = {n} \cup Q'
      BY <2>2, <2>3 DEF Loses
    <3> QED BY <3>1, <3>2, <3>3
  <2>5. Rising(toStdout) => Rising(toStdout') /\ Before({n}, Q')
    BY <2>2, <2>3 DEF Loses
  <2> HIDE DEF W, H, Q, D, R
  <2>6. wsPc' # "off" =>
          /\ Rising(received') /\ Rises(output', "notification") /\ Before(W', H') /\ Rising(toStdout')
          /\ Before(W' \cup H', Q') /\ Before(W' \cup H' \cup Q', D') /\ W' \cup H' \cup Q' \cup D' = R'
    BY <1>1, <2>1, <2>4, <2>5 DEF Before
  <2> QED BY <1>3, <2>6
<1>10. CASE WriteOut
  <2>1. /\ item \in {"response", "notification"} \X Nat /\ output' = Added(output, item)
        /\ UNCHANGED <<toStdout, wsPc, carry, received>>
        /\ item' = <<>> \/ item' = <<"message", item[2]>>
    BY <1>10, WriteOutFacts
  <2>2. PICK x, a, S : x = item /\ a = output' /\ S = {"response", "notification"} \X Nat
    OBVIOUS
  <2>3. GainsOf(output, x, a, "notification")
    <3>1. x \in S /\ output \in Seq(S) /\ a = Added(output, x)
      BY <1>0, <2>1, <2>2
    <3> QED BY <3>1, AddToKind
  <2>4. H' = {} /\ Q' = Q /\ D' = D /\ R' = R
    BY <2>1, Pairs DEF InHand, Delivering
  <2>5. W' \cup H' = W \cup H /\ (Rises(output, "notification") /\ Before(W, H) => Rises(output', "notification"))
    <3>1. CASE x[1] = "notification"
      <4>1. H = {x[2]}
        BY <2>1, <2>2, <3>1 DEF InHand
      <4> QED BY <1>2, <2>2, <2>3, <2>4, <3>1, <4>1 DEF GainsOf
    <3>2. CASE x[1] # "notification"
      <4>1. H = {}
        BY <2>2, <3>2 DEF InHand
      <4> QED BY <1>2, <2>2, <2>3, <2>4, <3>2, <4>1 DEF GainsOf
    <3> QED BY <3>1, <3>2
  <2> HIDE DEF W, H, Q, D, R
  <2>6. wsPc' # "off" =>
          /\ Rising(received') /\ Rises(output', "notification") /\ Before(W', H') /\ Rising(toStdout')
          /\ Before(W' \cup H', Q') /\ Before(W' \cup H' \cup Q', D') /\ W' \cup H' \cup Q' \cup D' = R'
    BY <1>1, <2>1, <2>4, <2>5 DEF Before
  <2> QED BY <1>3, <2>6
<1>11. CASE Incoming
  <2>1. PICK h : h = Head(down)
    OBVIOUS
  <2>2. /\ wsPc = "session" /\ down \in Seq(Frames) /\ down # <<>>
        /\ \/ h[1] # "notification" /\ wsPc' \in {"session", "pausing"} /\ UNCHANGED received
           \/ /\ h[1] = "notification" /\ wsPc' = "delivering" /\ h[2] \in Nat
              /\ carry' = <<h[2]>> /\ received' = Added(received, h[2])
        /\ UNCHANGED <<output, item, toStdout>>
    BY <1>11, <2>1, IncomingFacts
  <2>3. W' = W /\ H' = H /\ Q' = Q /\ D = {}
    BY <1>5, <2>2 DEF Written, InHand
  <2>4. CASE h[1] # "notification" /\ wsPc' \in {"session", "pausing"} /\ UNCHANGED received
    <3>1. D' = {}
      BY <2>4 DEF Delivering
    <3> QED BY <1>4, <2>2, <2>3, <2>4, <3>1
  <2>5. CASE /\ h[1] = "notification" /\ wsPc' = "delivering" /\ h[2] \in Nat
             /\ carry' = <<h[2]>> /\ received' = Added(received, h[2])
    <3>1. PICK n, r : n = h[2] /\ r = received'
      OBVIOUS
    <3>2. Gains(received, n, r)
      BY <1>0, <2>5, <3>1, AddToRising
    <3>3. D' = {n}
      BY <2>5, <3>1 DEF Delivering, Range
    <3>4. n \in Of(down, "notification")
      <4>1. 1 \in DOMAIN down /\ h = down[1]
        BY <2>1, <2>2
      <4> QED BY <2>5, <3>1, <4>1 DEF Of
    <3>5. Before(R, {n})
      BY <3>4 DEF NoteInv, Arriving, Before
    <3>6. R' = R \cup {n} /\ (Rising(received) => Rising(received'))
      BY <3>1, <3>2, <3>5 DEF Gains
    <3> HIDE DEF W, H, Q, D, R
    <3>7. wsPc' # "off" =>
            /\ Rising(received') /\ Rises(output', "notification") /\ Before(W', H') /\ Rising(toStdout')
            /\ Before(W' \cup H', Q') /\ Before(W' \cup H' \cup Q', D') /\ W' \cup H' \cup Q' \cup D' = R'
      BY <1>1, <2>2, <2>3, <3>3, <3>5, <3>6
    <3> QED BY <1>3, <3>7
  <2> QED BY <2>2, <2>4, <2>5
<1>12. CASE Notify
  <2>1. /\ wsPc = "delivering" /\ wsPc' = "session" /\ Len(carry) = 1 /\ toStdout' = toStdout \o carry
        /\ UNCHANGED <<output, item, received>>
    BY <1>12 DEF Notify, ItemInv, stdioVars
  <2>2. PICK n \in Nat : Range(carry) = {n} /\ toStdout' = Added(toStdout, n)
    BY <1>0, <2>1, JoinOne
  <2>3. PICK q : q = toStdout'
    OBVIOUS
  <2>4. Gains(toStdout, n, q)
    BY <1>0, <2>2, <2>3, AddToRising
  <2>5. W' = W /\ H' = H /\ D = {n} /\ D' = {} /\ R' = R
    BY <2>1, <2>2 DEF Written, InHand, Delivering
  <2>6. Q' = Q \cup {n} /\ (Rising(toStdout) /\ Before(Q, {n}) => Rising(toStdout'))
    BY <2>3, <2>4 DEF Gains
  <2> HIDE DEF W, H, Q, D, R
  <2>7. wsPc' # "off" =>
          /\ Rising(received') /\ Rises(output', "notification") /\ Before(W', H') /\ Rising(toStdout')
          /\ Before(W' \cup H', Q') /\ Before(W' \cup H' \cup Q', D') /\ W' \cup H' \cup Q' \cup D' = R'
    BY <1>1, <2>1, <2>5, <2>6 DEF Before
  <2> QED BY <1>3, <2>7
<1>13. CASE Exit
  BY <1>3, <1>13 DEF Exit
<1>14. CASE Close \/ ReadOutput \/ Drain \/ Greet \/ Push \/ RelayReads \/ Break \/ UNCHANGED vars
  <2>1. UNCHANGED <<output, item, toStdout, wsPc, carry, received>>
    BY <1>14 DEF Close, ReadOutput, Drain, Greet, Push, RelayReads, Break, vars, stdioVars, wsVars
  <2> QED BY <1>4, <2>1 DEF InHand, Delivering
<1>15. CASE Connect \/ Refused \/ SendHello \/ Resume \/ Sent \/ Lost \/ Outgoing
  <2>1. /\ UNCHANGED <<output, item, toStdout, received>>
        /\ wsPc \notin {"off", "delivering"} /\ wsPc' # "delivering"
    BY <1>15 DEF Connect, Refused, SendHello, Resume, Sent, Lost, Outgoing, stdioVars
  <2> QED BY <1>4, <2>1 DEF InHand, Delivering
<1> QED BY <1>6, <1>7, <1>8, <1>9, <1>10, <1>11, <1>12, <1>13, <1>14, <1>15 DEF Next, StdioTask, WsTask, Peers

LEMMA ArrivingStep == ASSUME TypeOK, ItemInv, Arriving, [Next]_vars PROVE Arriving'
<1> DEFINE A == Of(down, "notification")
           R == Range(received)
<1>0. /\ received \in Seq(Nat) /\ down \in Seq(Frames) /\ pushed \in Nat
      /\ \A n \in R : n \in Nat
  BY DEF TypeOK, Frames, Range
<1>1. \A n \in A : n \in Nat
  <2>1. \A i \in DOMAIN down : down[i] \in Frames
    BY <1>0
  <2>2. \A f \in Frames : f[1] = "notification" => f[2] \in Nat
    BY DEF Frames
  <2> QED BY <2>1, <2>2 DEF Of
<1>2. Rises(down, "notification") /\ Before(R, A) /\ \A n \in R \cup A : n <= pushed
  BY DEF Arriving
<1>3. CASE UNCHANGED <<down, received, pushed>>
  BY <1>2, <1>3 DEF Arriving
<1>4. CASE Incoming
  <2>1. PICK h, r : h = Head(down) /\ r = down'
    OBVIOUS
  <2>2. /\ down # <<>> /\ r = Tail(down) /\ pushed' = pushed
        /\ \/ h[1] # "notification" /\ UNCHANGED received
           \/ h[1] = "notification" /\ h[2] \in Nat /\ received' = Added(received, h[2])
    BY <1>4, <2>1, IncomingFacts
  <2>3. LosesOf(down, h, r, "notification")
    BY <1>0, <2>1, <2>2, TailOfKind
  <2>4. CASE h[1] # "notification" /\ UNCHANGED received
    BY <1>2, <2>1, <2>2, <2>3, <2>4 DEF Arriving, LosesOf
  <2>5. CASE h[1] = "notification" /\ h[2] \in Nat /\ received' = Added(received, h[2])
    <3>1. PICK n, t : n = h[2] /\ t = received'
      OBVIOUS
    <3>2. Gains(received, n, t)
      BY <1>0, <2>5, <3>1, AddToRising
    <3>3. /\ A = {n} \cup A' /\ R' = R \cup {n} /\ Rises(down', "notification")
          /\ Before({n}, A')
      BY <1>2, <2>1, <2>3, <2>5, <3>1, <3>2 DEF LosesOf, Gains
    <3> HIDE DEF A, R
    <3>4. Before(R', A') /\ \A m \in R' \cup A' : m <= pushed'
      BY <1>2, <2>2, <3>3 DEF Before
    <3> QED BY <3>3, <3>4 DEF Arriving, A, R
  <2> QED BY <2>2, <2>4, <2>5
<1>5. CASE Greet \/ Push
  <2>1. received' = received /\ pushed' \in Nat /\ pushed <= pushed'
    BY <1>0, <1>5 DEF Greet, Push, wsVars
  <2>2. PICK f \in Frames, d \in {down'} :
          /\ d = Added(down, f)
          /\ f[1] = "notification" => f[2] = pushed + 1 /\ pushed' = pushed + 1
    <3>1. CASE Greet
      <4>1. PICK f \in {<<"welcome">>, <<"error">>} : down' = Append(down, f)
        BY <3>1 DEF Greet
      <4>2. f \in Frames /\ f[1] # "notification"
        BY <4>1 DEF Frames
      <4> QED BY <4>1, <4>2 DEF Added
    <3>2. CASE Push
      <4>1. PICK f : f = <<"notification", pushed + 1>>
        OBVIOUS
      <4>2. f \in Frames /\ f[2] = pushed + 1 /\ down' = Append(down, f) /\ pushed' = pushed + 1
        BY <1>0, <3>2, <4>1 DEF Frames, Push
      <4> QED BY <4>2 DEF Added
    <3> QED BY <1>5, <3>1, <3>2
  <2>3. GainsOf(down, f, d, "notification")
    BY <1>0, <2>2, AddToKind
  <2>4. CASE f[1] # "notification"
    <3>1. A' = A /\ Rises(down', "notification")
      BY <1>2, <2>2, <2>3, <2>4 DEF GainsOf
    <3>2. \A n \in R \cup A : n <= pushed'
      BY <1>0, <1>1, <1>2, <2>1
    <3> QED BY <1>2, <2>1, <3>1, <3>2 DEF Arriving
  <2>5. CASE f[1] = "notification"
    <3>1. PICK n \in Nat : n = f[2] /\ n = pushed + 1 /\ n = pushed'
      BY <1>0, <2>2, <2>5
    <3>2. \A m \in R \cup A : m < n /\ m <= pushed'
      BY <1>0, <1>1, <1>2, <3>1
    <3>3. A' = A \cup {n} /\ Rises(down', "notification")
      <4>1. Before(A, {n})
        BY <3>2 DEF Before
      <4> QED BY <1>2, <2>2, <2>3, <2>5, <3>1, <4>1 DEF GainsOf
    <3>4. Before(R, A') /\ \A m \in R \cup A' : m <= pushed'
      BY <1>2, <3>1, <3>2, <3>3 DEF Before
    <3> QED BY <2>1, <3>3, <3>4 DEF Arriving
  <2> QED BY <2>4, <2>5
<1>6. CASE Connect
  <2>1. down' = <<>> /\ UNCHANGED <<received, pushed>>
    BY <1>6 DEF Connect
  <2>2. A' = {} /\ Rises(down', "notification")
    BY <2>1 DEF Of, Rises
  <2> QED BY <1>2, <2>1, <2>2 DEF Arriving, Before
<1>7. ASSUME NEW k \in Kind, WriteLine(k) PROVE UNCHANGED <<down, received, pushed>>
  BY <1>7, WriteLineFacts
<1>8. CASE \/ TakeLine \/ TakeNotification \/ WriteOut \/ HandOver \/ Exit \/ Close \/ ReadOutput \/ Drain
           \/ RelayReads \/ Break \/ Refused \/ SendHello \/ Resume \/ Notify \/ Sent \/ Lost \/ Outgoing
           \/ UNCHANGED vars
  <2>1. UNCHANGED <<down, received, pushed>>
    BY <1>8 DEF TakeLine, TakeNotification, WriteOut, HandOver, Exit, Close, ReadOutput, Drain, RelayReads, Break,
       Refused, SendHello, Resume, Notify, Sent, Lost, Outgoing, vars, wsVars, linkVars
  <2> QED BY <1>3, <2>1
<1> QED BY <1>3, <1>4, <1>5, <1>6, <1>7, <1>8 DEF Next, StdioTask, WsTask, Peers

LEMMA NoteStep == ASSUME TypeOK, ItemInv, NoteInv, [Next]_vars PROVE NoteInv'
BY KeptStep, ArrivingStep DEF NoteInv
-----------------------------------------------------------------------------
(* The messages.                                                            *)
LEMMA RelayStep == ASSUME TypeOK, ItemInv, RelayInv, [Next]_vars PROVE RelayInv'
<1> DEFINE U == Range(uplinked)
           S == Sending
           T == Range(toRelay)
           H == InHand("response")
           M == InHand("message")
           W == Written("response")
           Call(n) == lines[n] = "call"
<1>0. /\ uplinked \in Seq(Nat) /\ toRelay \in Seq(Nat) /\ carry \in Seq(Nat)
      /\ output \in Seq({"response", "notification"} \X Nat)
      /\ taken \in Nat /\ Len(lines) \in Nat /\ taken <= Len(lines)
  BY DEF TypeOK
<1>1. /\ Rising(uplinked) /\ Rising(toRelay) /\ Before(U, S) /\ Before(U \cup S, T)
      /\ \A n \in U \cup S \cup T : n \in 1..taken
      /\ Before(U \cup S \cup T, H \cup M)
      /\ \A n \in U \cup S \cup T \cup M : Call(n) => n \in W
  BY DEF RelayInv, Relayed
<1>2. ASSUME /\ Rising(uplinked') /\ Rising(toRelay') /\ Before(U', S') /\ Before(U' \cup S', T')
             /\ \A n \in U' \cup S' \cup T' : n \in 1..taken'
             /\ Before(U' \cup S' \cup T', H' \cup M')
             /\ \A n \in U' \cup S' \cup T' \cup M' : Call(n)' => n \in W'
      PROVE  RelayInv'
  BY <1>2 DEF RelayInv, Relayed, Rising, Before
<1>3. \A n \in H \cup M : n = taken /\ n \in 1..taken
  <2>1. \A n \in H \cup M : item # <<>> /\ item[1] \in {"response", "message"} /\ n = item[2]
    BY DEF InHand
  <2> QED BY <1>0, <2>1 DEF ItemInv
\* Messages are thrown away, or nothing happens to them.
<1>4. ASSUME UNCHANGED <<lines, taken, output, item, uplinked>>, S' \subseteq S, T' \subseteq T, Rising(toRelay')
      PROVE  RelayInv'
  <2>1. U' = U /\ H' = H /\ M' = M /\ W' = W
    BY <1>4 DEF InHand, Written
  <2> HIDE DEF U, S, T, H, M, W
  <2> QED BY <1>1, <1>2, <1>4, <2>1 DEF Before
<1>5. ASSUME NEW k \in Kind, WriteLine(k) PROVE RelayInv'
  <2>1. /\ \A n \in 1..Len(lines) : lines'[n] = lines[n]
        /\ UNCHANGED <<taken, output, item, uplinked, toRelay, wsPc, carry>>
    BY <1>5, WriteLineFacts
  <2>2. \A n \in 1..taken : lines'[n] = lines[n]
    BY <1>0, <2>1
  <2>3. U' = U /\ S' = S /\ T' = T /\ H' = H /\ M' = M /\ W' = W
    BY <2>1 DEF Sending, InHand, Written
  <2> HIDE DEF U, S, T, H, M, W
  <2> QED BY <1>1, <1>2, <1>3, <2>1, <2>2, <2>3
<1>6. CASE TakeLine
  <2> DEFINE n == taken + 1
  <2>1. /\ item = <<>> /\ taken' = n /\ UNCHANGED <<lines, output, uplinked, toRelay, wsPc, carry>>
        /\ \/ item' = <<"response", n>>
           \/ lines[n] \in RelayedKinds \ AnsweredKinds /\ item' = <<"message", n>>
           \/ item' = item
    BY <1>6, TakeLineFacts
  <2>2. U' = U /\ S' = S /\ T' = T /\ W' = W
    BY <2>1 DEF Sending, Written
  <2>3. /\ H' \cup M' \subseteq {n}
        /\ \A m \in M' : lines[m] # "call"
    <3>1. CASE item' = <<"response", n>>
      BY <3>1, Pairs DEF InHand
    <3>2. CASE lines[n] \in RelayedKinds \ AnsweredKinds /\ item' = <<"message", n>>
      BY <3>2, Pairs DEF InHand, RelayedKinds, AnsweredKinds
    <3>3. CASE item' = item
      BY <2>1, <3>3 DEF InHand
    <3> QED BY <2>1, <3>1, <3>2, <3>3
  <2>4. \A m \in 1..taken : m < n /\ m \in 1..taken'
    BY <1>0, <2>1
  <2> HIDE DEF U, S, T, H, M, W, n
  <2>5. Before(U' \cup S' \cup T', H' \cup M')
    BY <1>1, <2>2, <2>3, <2>4 DEF Before
  <2> QED BY <1>1, <1>2, <2>1, <2>2, <2>3, <2>4, <2>5
<1>7. CASE TakeNotification
  <2>1. /\ item = <<>> /\ (\E n \in Nat : item' = <<"notification", n>>)
        /\ UNCHANGED <<lines, taken, output, uplinked, toRelay, wsPc, carry>>
    BY <1>7, TakeNotificationFacts
  <2>2. U' = U /\ S' = S /\ T' = T /\ H' = H /\ M' = M /\ W' = W
    BY <2>1, Pairs DEF Sending, InHand, Written
  <2> HIDE DEF U, S, T, H, M, W
  <2> QED BY <1>1, <1>2, <2>1, <2>2
<1>8. CASE WriteOut
  <2>1. /\ item \in {"response", "notification"} \X Nat /\ output' = Added(output, item)
        /\ UNCHANGED <<lines, taken, uplinked, toRelay, wsPc, carry>>
        /\ \/ item[1] = "response" /\ item' = <<"message", item[2]>>
           \/ item' = <<>>
    BY <1>8, WriteOutFacts
  <2>2. PICK x, a, Z : x = item /\ a = output' /\ Z = {"response", "notification"} \X Nat
    OBVIOUS
  <2>3. GainsOf(output, x, a, "response")
    <3>1. x \in Z /\ output \in Seq(Z) /\ a = Added(output, x)
      BY <1>0, <2>1, <2>2
    <3> QED BY <3>1, AddToKind
  <2>4. W' = IF x[1] = "response" THEN W \cup {x[2]} ELSE W
    <3>1. W = Of(output, "response") /\ W' = Of(output', "response")
      BY DEF Written, Of
    <3> QED BY <2>2, <2>3, <3>1 DEF GainsOf
  <2>5. U' = U /\ S' = S /\ T' = T /\ H' = {}
    BY <2>1, Pairs DEF Sending, InHand
  <2>6. M' \subseteq H /\ \A n \in M' : n \in W'
    <3>1. CASE item[1] = "response" /\ item' = <<"message", item[2]>>
      <4>1. M' = {item[2]} /\ H = {item[2]}
        BY <2>1, <3>1, Pairs DEF InHand
      <4> QED BY <2>2, <2>4, <3>1, <4>1
    <3>2. CASE item' = <<>>
      BY <3>2 DEF InHand
    <3> QED BY <2>1, <3>1, <3>2
  <2> HIDE DEF U, S, T, H, M, W
  <2>7. Before(U' \cup S' \cup T', H' \cup M')
    BY <1>1, <2>5, <2>6 DEF Before
  <2> QED BY <1>1, <1>2, <2>1, <2>4, <2>5, <2>6, <2>7
<1>9. CASE HandOver
  <2>1. /\ item \in {"message"} \X Nat /\ toRelay' = Added(toRelay, item[2]) /\ item' = <<>>
        /\ UNCHANGED <<lines, taken, output, uplinked, wsPc, carry>>
    BY <1>9, HandOverFacts
  <2>2. PICK n, t : n = item[2] /\ t = toRelay'
    OBVIOUS
  <2>3. Gains(toRelay, n, t)
    BY <1>0, <2>1, <2>2, AddToRising
  <2>4. U' = U /\ S' = S /\ W' = W /\ M = {n} /\ H' = {} /\ M' = {}
    BY <2>1, <2>2 DEF Sending, InHand, Written
  <2>5. T' = T \cup {n} /\ (Rising(toRelay) /\ Before(T, {n}) => Rising(toRelay'))
    BY <2>2, <2>3 DEF Gains
  <2>6. n \in 1..taken'
    BY <1>3, <2>1, <2>4
  <2> HIDE DEF U, S, T, H, M, W
  <2>7. Before(U \cup S, {n}) /\ Before(T, {n})
    BY <1>1, <2>4 DEF Before
  <2>8. Before(U' \cup S', T') /\ Before(U' \cup S' \cup T', H' \cup M') /\ Rising(toRelay')
    BY <1>1, <2>4, <2>5, <2>7 DEF Before
  <2> QED BY <1>1, <1>2, <2>1, <2>4, <2>5, <2>6, <2>8
<1>10. CASE Drain \/ Outgoing
  <2>1. /\ toRelay # <<>> /\ toRelay' = Tail(toRelay) /\ UNCHANGED <<lines, taken, output, item, uplinked>>
        /\ \/ UNCHANGED <<wsPc, carry>>
           \/ wsPc = "session" /\ wsPc' = "sending" /\ carry' = <<Head(toRelay)>>
    BY <1>10 DEF Drain, Outgoing, claudeVars, stdioVars, wsVars
  <2>2. PICK h, r : h = Head(toRelay) /\ r = toRelay'
    OBVIOUS
  <2>3. Loses(toRelay, h, r)
    BY <1>0, <2>1, <2>2, TailOfRising
  <2>4. T = {h} \cup T' /\ Rising(toRelay') /\ Before({h}, T')
    BY <1>1, <2>2, <2>3 DEF Loses
  <2>5. CASE UNCHANGED <<wsPc, carry>>
    BY <1>4, <2>1, <2>4, <2>5 DEF Sending
  <2>6. CASE wsPc = "session" /\ wsPc' = "sending" /\ carry' = <<h>>
    <3>1. S = {} /\ S' = {h}
      BY <2>6 DEF Sending, Range
    <3>2. U' = U /\ H' = H /\ M' = M /\ W' = W
      BY <2>1 DEF InHand, Written
    <3> HIDE DEF U, S, T, H, M, W
    <3>3. Before(U', S') /\ Before(U' \cup S', T') /\ Before(U' \cup S' \cup T', H' \cup M')
      BY <1>1, <2>4, <3>1, <3>2 DEF Before
    <3> QED BY <1>1, <1>2, <2>1, <2>4, <3>1, <3>2, <3>3
  <2> QED BY <2>1, <2>2, <2>5, <2>6
<1>11. CASE Sent
  <2>1. /\ wsPc = "sending" /\ wsPc' = "session" /\ uplinked' = uplinked \o carry /\ Len(carry) = 1
        /\ UNCHANGED <<lines, taken, output, item, toRelay>>
    BY <1>11 DEF Sent, ItemInv, claudeVars, stdioVars
  <2>2. PICK n \in Nat : Range(carry) = {n} /\ uplinked' = Added(uplinked, n)
    BY <1>0, <2>1, JoinOne
  <2>3. PICK u : u = uplinked'
    OBVIOUS
  <2>4. Gains(uplinked, n, u)
    BY <1>0, <2>2, <2>3, AddToRising
  <2>5. S = {n} /\ S' = {} /\ T' = T /\ H' = H /\ M' = M /\ W' = W
    BY <2>1, <2>2 DEF Sending, InHand, Written
  <2>6. U' = U \cup {n} /\ (Rising(uplinked) /\ Before(U, {n}) => Rising(uplinked'))
    BY <2>3, <2>4 DEF Gains
  <2> HIDE DEF U, S, T, H, M, W
  <2>7. /\ Before(U', S') /\ Before(U' \cup S', T') /\ Before(U' \cup S' \cup T', H' \cup M')
        /\ Rising(uplinked')
    BY <1>1, <2>5, <2>6 DEF Before
  <2> QED BY <1>1, <1>2, <2>1, <2>5, <2>6, <2>7
<1>12. CASE \/ Exit \/ Close \/ ReadOutput \/ Greet \/ Push \/ RelayReads \/ Break \/ Connect \/ Refused
            \/ SendHello \/ Resume \/ Notify \/ Lost \/ Incoming \/ UNCHANGED vars
  <2>1. /\ UNCHANGED <<lines, taken, output, item, uplinked, toRelay>>
        /\ UNCHANGED <<wsPc, carry>> \/ wsPc' # "sending"
    BY <1>12 DEF Exit, Close, ReadOutput, Greet, Push, RelayReads, Break, Connect, Refused, SendHello,
       Resume, Notify, Lost, Incoming, vars, claudeVars, stdioVars, wsVars
  <2>2. S' \subseteq S
    BY <2>1 DEF Sending
  <2> QED BY <1>1, <1>4, <2>1, <2>2
<1> QED BY <1>5, <1>6, <1>7, <1>8, <1>9, <1>10, <1>11, <1>12 DEF Next, StdioTask, WsTask, Peers
-----------------------------------------------------------------------------
LEMMA InitInv == ASSUME Init PROVE IInv
<1>1. /\ Initial \in Nat /\ Initial \in Initial..MaxWait /\ PipeSize \in Nat /\ WireSize \in Nat /\ QueueSize \in Nat
  BY SizeAssumption, WaitAssumption
<1>2. /\ lines = <<>> /\ taken = 0 /\ output = <<>> /\ item = <<>> /\ stdioPc = "select"
      /\ toRelay = <<>> /\ toStdout = <<>> /\ carry = <<>> /\ down = <<>> /\ uplinked = <<>> /\ received = <<>>
      /\ wsPc \in {"connecting", "off"} /\ pushed = 0
  BY DEF Init
<1>3. \A S : <<>> \in Seq(S)
  OBVIOUS
<1>4. TypeOK
  BY <1>1, <1>2, <1>3 DEF Init, TypeOK
<1>5. ItemInv
  BY <1>2 DEF ItemInv
<1>6. /\ \A k : Written(k) = {} /\ InHand(k) = {} /\ Of(down, k) = {} /\ Rises(down, k) /\ InOrder(k)
      /\ Range(uplinked) = {} /\ Range(toRelay) = {} /\ Range(toStdout) = {} /\ Range(received) = {}
      /\ Sending = {} /\ Delivering = {} /\ Rising(uplinked) /\ Rising(toRelay) /\ Rising(toStdout) /\ Rising(received)
  BY <1>2 DEF Written, InHand, Of, Rises, InOrder, Range, Sending, Delivering, Rising, Before
<1>7. AnswerInv
  BY <1>2, <1>6 DEF AnswerInv, EveryRequestAnswered
<1>8. NoteInv
  BY <1>6 DEF NoteInv, Arriving, NotificationsKept, Before
<1>9. RelayInv
  BY <1>6 DEF RelayInv, Relayed, Before
<1> QED BY <1>4, <1>5, <1>7, <1>8, <1>9 DEF IInv

\* The invariant: what is in hand, in the channels and on the wires is numbered
\* in the order in which it will be written (stdio.rs:10-51, ws.rs:84-190).
THEOREM Inductive == Spec => []IInv
<1>1. IInv /\ [Next]_vars => IInv'
  BY TypeStep, ItemStep, AnswerStep, NoteStep, RelayStep DEF IInv
<1> QED BY <1>1, InitInv, PTL DEF Spec

\* Types: neither channel holds more than its capacity, and the pause stays
\* between the first and the longest (main.rs:22-25, ws.rs:93-120, 187-189).
THEOREM TypeCorrect == Spec => []TypeOK
<1>1. IInv => TypeOK
  BY DEF IInv
<1> QED BY <1>1, Inductive, PTL

\* Claude Code gets one answer for each request, in order (stdio.rs:25-42).
THEOREM RequestsAreAnswered == Spec => []EveryRequestAnswered
<1>1. IInv => EveryRequestAnswered
  BY DEF IInv, AnswerInv
<1> QED BY <1>1, Inductive, PTL

\* No notification is lost, repeated or overtaken between the socket and stdout,
\* however often the connection is lost (ws.rs:145-156, stdio.rs:43-48).
THEOREM NotificationsAreKept == Spec => []NotificationsKept
<1>1. IInv => NotificationsKept
  BY DEF IInv, NoteInv
<1> QED BY <1>1, Inductive, PTL

\* Messages reach the relay in the order of their lines and once at most, and
\* that of a call after its answer (stdio.rs:36-39, ws.rs:172-183).
THEOREM MessagesStayInOrder == Spec => []MessagesInOrder
<1>1. RelayInv => MessagesInOrder
  BY DEF RelayInv, Relayed, MessagesInOrder
<1>2. IInv => MessagesInOrder
  BY <1>1 DEF IInv
<1> QED BY <1>2, Inductive, PTL
-----------------------------------------------------------------------------
\* What an exponent is: the provers know no more of it than its symbol.
Powers == 2^0 = 1 /\ \A n \in Nat : 2^n \in Nat /\ 2^(n + 1) = 2 * 2^n

LEMMA LeastOfTwo == ASSUME NEW a \in Nat, NEW b \in Nat PROVE Min({a, b}) = IF a <= b THEN a ELSE b
<1> DEFINE m == IF a <= b THEN a ELSE b
<1>1. m \in {a, b} /\ \A y \in {a, b} : m <= y
  OBVIOUS
<1>2. \A x \in {a, b} : (\A y \in {a, b} : x <= y) => x = m
  OBVIOUS
<1> HIDE DEF m
<1>3. Min({a, b}) = m
  BY <1>1, <1>2 DEF Min
<1> QED BY <1>3 DEF m

\* The pause doubles with every failure since the last welcome until it is the
\* longest, and is the first again after one (ws.rs:93-120, 187-189), given only
\* what an exponent is.
THEOREM PausesDouble == ASSUME Powers PROVE Spec => []BackoffLaw
<1> USE WaitAssumption
<1>1. \A n \in Nat : 2^n \in Nat /\ Initial * 2^n \in Nat /\ Initial * 2^(n + 1) = 2 * (Initial * 2^n)
  <2> SUFFICES ASSUME NEW n \in Nat
               PROVE  2^n \in Nat /\ Initial * 2^n \in Nat /\ Initial * 2^(n + 1) = 2 * (Initial * 2^n)
    OBVIOUS
  <2>1. PICK p \in Nat : p = 2^n
    BY DEF Powers
  <2>2. 2^(n + 1) = 2 * p
    BY <2>1 DEF Powers
  <2>3. \A i \in Nat : i * p \in Nat /\ i * (2 * p) = 2 * (i * p)
    OBVIOUS
  <2> QED BY <2>1, <2>2, <2>3
<1>2. BackoffLaw /\ fails = 0 <=> fails = 0 /\ wait = Initial
  <2>1. Initial * 2^0 = Initial
    BY DEF Powers
  <2> QED BY <2>1, LeastOfTwo DEF BackoffLaw
<1>3. Init => BackoffLaw
  BY <1>2 DEF Init
<1>4. TypeOK /\ BackoffLaw /\ [Next]_vars => BackoffLaw'
  <2> SUFFICES ASSUME TypeOK, BackoffLaw, [Next]_vars PROVE BackoffLaw'
    OBVIOUS
  <2>1. CASE UNCHANGED <<wait, fails>>
    BY <2>1 DEF BackoffLaw
  <2>2. CASE Resume
    <3> DEFINE p == Initial * 2^fails
    <3>1. fails \in Nat /\ wait \in Nat /\ p \in Nat /\ Initial * 2^(fails + 1) = 2 * p
      BY <1>1 DEF TypeOK
    <3> HIDE DEF p
    <3>2. wait = IF p <= MaxWait THEN p ELSE MaxWait
      BY <3>1, LeastOfTwo DEF BackoffLaw, p
    <3>3. 2 * wait \in Nat /\ 2 * p \in Nat
      BY <3>1
    <3>4. wait' = (IF 2 * wait <= MaxWait THEN 2 * wait ELSE MaxWait) /\ fails' = fails + 1
      BY <2>2, <3>3, LeastOfTwo DEF Resume, Doubled
    <3>5. Min({2 * p, MaxWait}) = IF 2 * p <= MaxWait THEN 2 * p ELSE MaxWait
      BY <3>3, LeastOfTwo
    <3>6. wait' = Min({2 * p, MaxWait})
      BY <3>1, <3>2, <3>4, <3>5
    <3> QED BY <3>1, <3>4, <3>6 DEF BackoffLaw
  <2>3. CASE wait' = Initial /\ fails' = 0
    <3>1. Initial * 2^0 = Initial
      BY DEF Powers
    <3>2. Min({Initial, MaxWait}) = Initial
      BY LeastOfTwo
    <3> QED BY <2>3, <3>1, <3>2 DEF BackoffLaw
  <2>4. CASE Incoming
    BY <2>1, <2>3, <2>4 DEF Incoming, Welcomed
  <2>5. CASE \/ StdioTask \/ Connect \/ Refused \/ SendHello \/ Notify \/ Sent \/ Lost
             \/ Drain \/ Outgoing \/ Peers \/ (\E k \in Kind : WriteLine(k)) \/ Close \/ Push \/ Break
             \/ UNCHANGED vars
    <3>1. UNCHANGED <<wait, fails>>
      BY <2>5 DEF StdioTask, TakeLine, TakeNotification, WriteOut, HandOver, Exit, Connect, Refused, SendHello,
         Notify, Sent, Lost, Drain, Outgoing, Peers, ReadOutput, Greet, RelayReads, WriteLine, Close, Push, Break,
         vars, wsVars, claudeVars, stdioVars, linkVars
    <3> QED BY <2>1, <3>1
  <2> QED BY <2>2, <2>4, <2>5 DEF Next, WsTask
<1> QED BY <1>3, <1>4, TypeCorrect, PTL DEF Spec
=============================================================================
