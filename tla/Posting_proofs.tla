---------------------------- MODULE Posting_proofs ----------------------------
(***************************************************************************)
(* Proofs about Posting for any number of connections, any texts and any   *)
(* length of the pieces.                                                   *)
(***************************************************************************)
EXTENDS Posting, SequenceTheorems, TLAPS

\* The pieces join up to where the cut has come; a text in the cutting has a
\* rest, which begins where the last piece ends.
JoinUp(t, s) ==
  \A i \in DOMAIN s : /\ WellCut(t, s[i])
                      /\ s[i].from = IF i = 1 THEN 0 ELSE s[i - 1].to
Joined(f) == JoinUp(text[f], pieces[f])
EndOf(s) == IF s = <<>> THEN 0 ELSE s[Len(s)].to
CutOf(f) ==
  /\ Joined(f)
  /\ IsCut(f) => pieces[f] # <<>> /\ EndOf(pieces[f]) = Len(text[f])
  /\ ~IsCut(f) => start[f[1]] = EndOf(pieces[f]) /\ start[f[1]] < Len(text[f]) /\ next[f[1]] = 1
CutInv == \A f \in DOMAIN text : CutOf(f)

\* How many pieces of the text in hand the thread shows.
Working(c) == pc[c] \in {"cutting", "posting", "posted"}
Reached(c) == IF pc[c] = "posted" THEN next[c] ELSE next[c] - 1
ReachedInv ==
  \A c \in Conn : Working(c) =>
    /\ \A n \in 1..Reached(c) : Shown(<<InHand(c), n>>)
    /\ \A i \in DOMAIN thread : thread[i][1] = InHand(c) => thread[i][2] <= Reached(c)

\* A call that was given up is the last of its text, and may come if it is
\* still under way.
LateInv ==
  /\ \A p \in late : p[2] \in DOMAIN pieces[p[1]]
  /\ \A p \in late : p[1] = InHand(p[1][1]) => ~Working(p[1][1])
  /\ \A p \in late, i \in DOMAIN thread : thread[i][1] = p[1] => thread[i][2] <= p[2]
  /\ \A p \in late, q \in flying : q[1] = p[1] => q[2] <= p[2]
  /\ \A p \in flying : ~Shown(p) /\ \A n \in 1..(p[2] - 1) : Shown(<<p[1], n>>)

\* A request in the table is that of a prompt; its prompt is shown, being
\* posted, or about to be forgotten.
AskInv ==
  \A f \in pending :
    /\ kind[f] = "prompt"
    /\ f # InHand(f[1]) \/ pc[f[1]] = "idle" => \A n \in DOMAIN pieces[f] : Shown(<<f, n>>)

IInv == /\ TypeOK /\ CutInv /\ ReachedInv /\ LateInv /\ AskInv
        /\ ThreadShowsPrefix /\ OnlyLateIsOvertaken
-----------------------------------------------------------------------------
(* What the actions do, point by point.                                     *)

\* A frame that is taken up is a new one, and nothing of it is cut yet.
TakesUp(c, k, t) ==
  LET f == <<c, frame[c] + 1>>
  IN  /\ pc[c] = "idle" /\ f \in Frame /\ f \notin DOMAIN text
      /\ t \in Seq(Char) /\ t # <<>>
      /\ frame' = [frame EXCEPT ![c] = frame[c] + 1] /\ pc' = [pc EXCEPT ![c] = "cutting"]
      /\ DOMAIN text' = DOMAIN text \cup {f} /\ DOMAIN kind' = DOMAIN kind \cup {f}
      /\ DOMAIN pieces' = DOMAIN pieces \cup {f}
      /\ text'[f] = t /\ kind'[f] = k /\ pieces'[f] = <<>>
      /\ \A x \in DOMAIN text : text'[x] = text[x] /\ kind'[x] = kind[x] /\ pieces'[x] = pieces[x]
      /\ start' = [start EXCEPT ![c] = 0] /\ next' = [next EXCEPT ![c] = 1]
      /\ pending' = IF k = "prompt" THEN pending \cup {f} ELSE pending
      /\ UNCHANGED slackVars
Drops(c) ==
  /\ pc[c] = "idle" /\ frame' = [frame EXCEPT ![c] = frame[c] + 1]
  /\ UNCHANGED <<pc, text, kind, pieces, start, next, pending, slackVars>>

LEMMA ReceiveFacts ==
  ASSUME TypeOK, NEW c \in Conn, NEW k, NEW t, Receive(c, k, t)
  PROVE  Drops(c) \/ TakesUp(c, k, t)
<1> DEFINE f == <<c, frame[c] + 1>>
<1>1. /\ pc[c] = "idle" /\ frame[c] \in Nat /\ f \in Frame /\ f[1] = c /\ f[2] = frame[c] + 1
      /\ f[2] \in DOMAIN Text[c] /\ t \in Text[c][f[2]]
  BY DEF Receive, TypeOK, Frame
<1>2. Text[c] \in Seq(SUBSET Seq(Char))
  BY TextAssumption
<1>3. t \in Seq(Char)
  BY <1>1, <1>2
<1>4. f \notin DOMAIN text
  <2>1. \A x \in DOMAIN text : x[2] \in 1..frame[x[1]]
    BY DEF TypeOK
  <2> QED BY <1>1, <2>1
<1>5. CASE t # <<>> /\ Goes(c, "cutting")
            /\ text' = Put(text, f, t) /\ kind' = Put(kind, f, k) /\ pieces' = Put(pieces, f, <<>>)
            /\ start' = [start EXCEPT ![c] = 0] /\ next' = [next EXCEPT ![c] = 1]
            /\ pending' = IF k = "prompt" THEN pending \cup {f} ELSE pending
  <2>1. /\ frame' = [frame EXCEPT ![c] = frame[c] + 1] /\ UNCHANGED slackVars
        /\ pc' = [pc EXCEPT ![c] = "cutting"]
    BY <1>5 DEF Receive, Goes
  <2>2. DOMAIN kind = DOMAIN text /\ DOMAIN pieces = DOMAIN text
    BY DEF TypeOK
  <2> HIDE DEF f
  <2>3. /\ DOMAIN text' = DOMAIN text \cup {f} /\ text'[f] = t
        /\ \A x \in DOMAIN text : text'[x] = text[x]
    BY <1>4, <1>5 DEF Put
  <2>4. /\ DOMAIN kind' = DOMAIN kind \cup {f} /\ kind'[f] = k
        /\ \A x \in DOMAIN text : kind'[x] = kind[x]
    BY <1>4, <1>5, <2>2 DEF Put
  <2>5. /\ DOMAIN pieces' = DOMAIN pieces \cup {f} /\ pieces'[f] = <<>>
        /\ \A x \in DOMAIN text : pieces'[x] = pieces[x]
    BY <1>4, <1>5, <2>2 DEF Put
  <2> QED BY <1>1, <1>3, <1>4, <1>5, <2>1, <2>3, <2>4, <2>5 DEF TakesUp, f
<1>6. CASE UNCHANGED <<pc, text, kind, pieces, start, next, pending>>
  BY <1>1, <1>6 DEF Receive, Drops
<1> QED BY <1>5, <1>6 DEF Receive

\* A piece is added to the text in hand.
Adds(c, to) ==
  LET f == InHand(c)
      p == [from |-> start[c], to |-> to]
  IN  /\ pc[c] = "cutting" /\ f \in DOMAIN text /\ f[1] = c /\ f \in Frame
      /\ p \in Piece /\ to \in start[c] + 1..start[c] + MaxChars /\ to <= Len(text[f])
      /\ DOMAIN pieces' = DOMAIN pieces /\ pieces'[f] = Append(pieces[f], p)
      /\ \A x \in DOMAIN pieces : x # f => pieces'[x] = pieces[x]
      /\ start' = [start EXCEPT ![c] = to]
      /\ UNCHANGED <<frame, text, kind, next, pending, slackVars>>

LEMMA InHandFacts ==
  ASSUME TypeOK, NEW c \in Conn, pc[c] \in Active
  PROVE  /\ InHand(c) \in DOMAIN text /\ InHand(c) \in Frame
         /\ InHand(c)[1] = c /\ InHand(c)[2] = frame[c] /\ frame[c] \in Nat
         /\ text[InHand(c)] \in Seq(Char) /\ Len(text[InHand(c)]) \in Nat
         /\ pieces[InHand(c)] \in Seq(Piece) /\ kind[InHand(c)] \in {"reply", "prompt"}
         /\ start[c] \in Nat /\ next[c] \in Nat \ {0}
<1>1. InHand(c) \in DOMAIN text /\ DOMAIN text \subseteq Frame /\ frame[c] \in Nat
      /\ start[c] \in Nat /\ next[c] \in Nat \ {0}
  BY DEF TypeOK
<1>2. InHand(c)[1] = c /\ InHand(c)[2] = frame[c]
  BY DEF InHand
<1>3. /\ text[InHand(c)] \in Seq(Char) /\ pieces[InHand(c)] \in Seq(Piece)
      /\ kind[InHand(c)] \in {"reply", "prompt"}
  BY <1>1 DEF TypeOK
<1> QED BY <1>1, <1>2, <1>3

LEMMA PushFacts ==
  ASSUME TypeOK, NEW c \in Conn, pc[c] = "cutting", NEW to \in Nat,
         to \in (start[c] + 1)..(start[c] + MaxChars), to <= Len(text[InHand(c)]),
         Push(c, to), next' = next
  PROVE  Adds(c, to)
<1> DEFINE f == InHand(c)
<1>1. /\ f \in DOMAIN text /\ f[1] = c /\ f \in Frame /\ start[c] \in Nat
      /\ pieces[f] \in Seq(Piece) /\ DOMAIN pieces = DOMAIN text
  BY InHandFacts DEF Active, TypeOK
<1>2. pieces' = [pieces EXCEPT ![f] = Append(pieces[f], [from |-> start[c], to |-> to])]
  BY DEF Push
<1>3. [from |-> start[c], to |-> to] \in Piece
  BY <1>1 DEF Piece
<1> HIDE DEF f
<1>4. /\ DOMAIN pieces' = DOMAIN pieces
      /\ pieces'[f] = Append(pieces[f], [from |-> start[c], to |-> to])
      /\ \A x \in DOMAIN pieces : x # f => pieces'[x] = pieces[x]
  BY <1>1, <1>2
<1> QED BY <1>1, <1>3, <1>4 DEF Adds, Push, f

LEMMA CutFacts ==
  ASSUME TypeOK, CutInv, NEW c \in Conn, Cut(c) \/ Rest(c)
  PROVE  \E to \in Nat :
           /\ Adds(c, to) /\ next[c] = 1
           /\ \/ /\ UNCHANGED pc /\ to < Len(text[InHand(c)]) /\ Splits(c, to)
                 /\ start[c] + MaxChars < Len(text[InHand(c)])
              \/ pc' = [pc EXCEPT ![c] = "posting"] /\ to = Len(text[InHand(c)])
<1> DEFINE f == InHand(c)
<1>1. pc[c] = "cutting"
  BY DEF Cut, Rest
<1>2. /\ f \in DOMAIN text /\ f[1] = c /\ start[c] \in Nat /\ Len(text[f]) \in Nat /\ MaxChars \in Nat
  BY <1>1, InHandFacts, SizeAssumption DEF Active
<1>3. start[c] < Len(text[f]) /\ next[c] = 1
  BY <1>1, <1>2 DEF CutInv, CutOf, IsCut
<1>4. CASE Cut(c)
  <2>1. PICK to \in Window(c) : Splits(c, to) /\ Push(c, to)
    BY <1>4 DEF Cut
  <2>2. Len(text[f]) - start[c] > MaxChars /\ UNCHANGED <<pc, next>>
    BY <1>4 DEF Cut, Remaining
  <2>3. to \in Nat /\ to \in (start[c] + 1)..(start[c] + MaxChars)
    BY <1>2, <2>1 DEF Window
  <2>4. to < Len(text[f]) /\ start[c] + MaxChars < Len(text[f])
    BY <1>2, <2>2, <2>3
  <2>5. Adds(c, to)
    BY <1>1, <1>2, <2>1, <2>2, <2>3, <2>4, PushFacts
  <2> QED BY <1>3, <2>1, <2>2, <2>3, <2>4, <2>5
<1>5. CASE Rest(c)
  <2> DEFINE to == Len(text[f])
  <2>1. Push(c, to) /\ pc' = [pc EXCEPT ![c] = "posting"] /\ to - start[c] <= MaxChars /\ next' = next
    BY <1>5 DEF Rest, Remaining, Goes
  <2>2. to \in Nat /\ to \in (start[c] + 1)..(start[c] + MaxChars)
    BY <1>2, <1>3, <2>1
  <2>3. Adds(c, to)
    BY <1>1, <1>2, <2>1, <2>2, PushFacts
  <2> QED BY <1>3, <2>1, <2>2, <2>3
<1> QED BY <1>4, <1>5

\* The thread is one call longer.
Grown(p) ==
  /\ DOMAIN thread' = 1..(Len(thread) + 1) /\ DOMAIN thread = 1..Len(thread) /\ Len(thread) \in Nat
  /\ \A i \in DOMAIN thread : thread'[i] = thread[i]
  /\ thread'[Len(thread) + 1] = p
  /\ \A q : Shown(q)' <=> Shown(q) \/ q = p

LEMMA ThreadGrows ==
  ASSUME TypeOK, NEW p \in Call, thread' = Append(thread, p)
  PROVE  Grown(p)
<1>1. thread \in Seq(Call)
  BY DEF TypeOK
<1> DEFINE n == Len(thread)
<1>2. /\ DOMAIN thread' = 1..(n + 1) /\ DOMAIN thread = 1..n /\ n \in Nat
      /\ \A i \in DOMAIN thread : thread'[i] = thread[i]
      /\ thread'[n + 1] = p
  BY <1>1
<1> HIDE DEF n
<1>3. ASSUME NEW q PROVE Shown(q)' <=> Shown(q) \/ q = p
  <2>1. Shown(q)' => Shown(q) \/ q = p
    BY <1>2 DEF Shown
  <2>2. Shown(q) => Shown(q)'
    BY <1>2 DEF Shown
  <2>3. q = p => Shown(q)'
    BY <1>2 DEF Shown
  <2> QED BY <2>1, <2>2, <2>3
<1> QED BY <1>2, <1>3 DEF Grown, n
-----------------------------------------------------------------------------
(* Types.                                                                   *)
LEMMA TypeStep == ASSUME TypeOK, CutInv, [Next]_vars PROVE TypeOK'
<1>0. /\ pc \in [Conn -> {"idle"} \cup Active] /\ frame \in [Conn -> Nat]
      /\ start \in [Conn -> Nat] /\ next \in [Conn -> Nat \ {0}]
      /\ DOMAIN text \subseteq Frame /\ DOMAIN kind = DOMAIN text /\ DOMAIN pieces = DOMAIN text
  BY DEF TypeOK
<1>1. ASSUME NEW c \in Conn, Drops(c) PROVE TypeOK'
  <2>1. /\ UNCHANGED <<pc, text, kind, pieces, start, next, pending, thread, flying, late>>
        /\ frame' = [frame EXCEPT ![c] = frame[c] + 1] /\ pc[c] = "idle"
    BY <1>1 DEF Drops, slackVars
  <2>2. frame' \in [Conn -> Nat] /\ \A x \in Conn : frame'[x] >= frame[x]
    BY <1>0, <2>1
  <2>3. \A f \in DOMAIN text : f[2] \in 1..frame'[f[1]]
    <3> SUFFICES ASSUME NEW f \in DOMAIN text PROVE f[2] \in 1..frame'[f[1]]
      OBVIOUS
    <3>1. f[1] \in Conn /\ f[2] \in 1..frame[f[1]]
      BY <1>0 DEF TypeOK, Frame
    <3> QED BY <1>0, <2>2, <3>1
  <2>4. \A x \in Conn : pc[x] \in Active => InHand(x)' = InHand(x)
    BY <1>0, <2>1 DEF InHand, Active
  <2>5. Call' = Call
    BY <2>1 DEF Call
  <2>6. \A x \in Conn : pc'[x] \in Active => InHand(x)' \in DOMAIN text'
    BY <2>1, <2>4 DEF TypeOK
  <2>7. \A x \in Conn : pc'[x] \in {"posting", "posted"} => next'[x] \in DOMAIN pieces'[InHand(x)']
    BY <2>1, <2>4 DEF TypeOK, Active
  <2>8. \A f \in DOMAIN text' :
          /\ f[2] \in 1..frame'[f[1]] /\ text'[f] \in Seq(Char) /\ text'[f] # <<>>
          /\ kind'[f] \in {"reply", "prompt"} /\ pieces'[f] \in Seq(Piece)
    BY <2>1, <2>3 DEF TypeOK
  <2> QED BY <2>1, <2>2, <2>5, <2>6, <2>7, <2>8 DEF TypeOK
<1>2. ASSUME NEW c \in Conn, NEW k \in {"reply", "prompt"}, NEW t, TakesUp(c, k, t) PROVE TypeOK'
  <2> DEFINE f == <<c, frame[c] + 1>>
  <2>1. /\ f \in Frame /\ f[1] = c /\ f[2] = frame[c] + 1 /\ frame[c] \in Nat
        /\ pc[c] = "idle" /\ t \in Seq(Char) /\ t # <<>>
        /\ frame' = [frame EXCEPT ![c] = frame[c] + 1] /\ pc' = [pc EXCEPT ![c] = "cutting"]
        /\ DOMAIN text' = DOMAIN text \cup {f} /\ DOMAIN kind' = DOMAIN text' /\ DOMAIN pieces' = DOMAIN text'
        /\ text'[f] = t /\ kind'[f] = k /\ pieces'[f] = <<>>
        /\ \A x \in DOMAIN text : text'[x] = text[x] /\ kind'[x] = kind[x] /\ pieces'[x] = pieces[x]
        /\ start' = [start EXCEPT ![c] = 0] /\ next' = [next EXCEPT ![c] = 1]
        /\ pending' \subseteq pending \cup {f}
        /\ UNCHANGED <<thread, flying, late>>
    BY <1>0, <1>2 DEF TakesUp, slackVars
  <2>2. /\ frame' \in [Conn -> Nat] /\ (\A x \in Conn : frame'[x] >= frame[x]) /\ frame'[c] = frame[c] + 1
        /\ pc' \in [Conn -> {"idle"} \cup Active]
        /\ start' \in [Conn -> Nat] /\ next' \in [Conn -> Nat \ {0}]
    BY <1>0, <2>1 DEF Active
  <2>3. InHand(c)' = f
    BY <2>2 DEF InHand
  <2>4. \A x \in Conn : x # c => InHand(x)' = InHand(x) /\ pc'[x] = pc[x] /\ next'[x] = next[x]
    BY <1>0, <2>1 DEF InHand
  <2> HIDE DEF f
  <2>5. \A x \in DOMAIN text' :
          /\ x[2] \in 1..frame'[x[1]] /\ text'[x] \in Seq(Char) /\ text'[x] # <<>>
          /\ kind'[x] \in {"reply", "prompt"} /\ pieces'[x] \in Seq(Piece)
    <3> SUFFICES ASSUME NEW x \in DOMAIN text'
                 PROVE  /\ x[2] \in 1..frame'[x[1]] /\ text'[x] \in Seq(Char) /\ text'[x] # <<>>
                        /\ kind'[x] \in {"reply", "prompt"} /\ pieces'[x] \in Seq(Piece)
      OBVIOUS
    <3>1. CASE x = f
      BY <2>1, <2>2, <3>1, EmptySeq
    <3>2. CASE x \in DOMAIN text
      <4>1. /\ x[1] \in Conn /\ x[2] \in 1..frame[x[1]] /\ text[x] \in Seq(Char) /\ text[x] # <<>>
            /\ kind[x] \in {"reply", "prompt"} /\ pieces[x] \in Seq(Piece)
        BY <1>0, <3>2 DEF TypeOK, Frame
      <4>2. x[2] \in 1..frame'[x[1]]
        BY <1>0, <2>2, <4>1
      <4> QED BY <2>1, <3>2, <4>1, <4>2
    <3> QED BY <2>1, <3>1, <3>2
  <2>6. /\ pending' \subseteq DOMAIN text' /\ flying' \subseteq late' /\ DOMAIN text' \subseteq Frame
        /\ DOMAIN kind' = DOMAIN text' /\ DOMAIN pieces' = DOMAIN text'
    BY <1>0, <2>1 DEF TypeOK
  <2>7. Call \subseteq Call'
    BY <2>1 DEF Call
  <2>8. thread' \in Seq(Call') /\ late' \subseteq Call'
    <3>1. thread \in Seq(Call) /\ late \subseteq Call
      BY DEF TypeOK
    <3> QED BY <2>1, <2>7, <3>1
  <2>9. \A x \in Conn : pc'[x] \in Active => InHand(x)' \in DOMAIN text'
    BY <2>1, <2>3, <2>4 DEF TypeOK
  <2>10. \A x \in Conn : pc'[x] \in {"posting", "posted"} => next'[x] \in DOMAIN pieces'[InHand(x)']
    <3> SUFFICES ASSUME NEW x \in Conn, pc'[x] \in {"posting", "posted"}
                 PROVE  next'[x] \in DOMAIN pieces'[InHand(x)']
      OBVIOUS
    <3>1. x # c
      BY <1>0, <2>1
    <3>2. InHand(x) \in DOMAIN text /\ next[x] \in DOMAIN pieces[InHand(x)]
      BY <2>4, <3>1 DEF TypeOK, Active
    <3> QED BY <2>1, <2>4, <3>1, <3>2
  <2> QED BY <2>2, <2>5, <2>6, <2>8, <2>9, <2>10 DEF TypeOK
<1>3. ASSUME NEW c \in Conn, NEW to \in Nat, Adds(c, to),
             \/ UNCHANGED pc
             \/ pc' = [pc EXCEPT ![c] = "posting"] /\ next[c] = 1
      PROVE  TypeOK'
  <2> DEFINE f == InHand(c)
  <2>1. /\ f \in DOMAIN text /\ f[1] = c /\ pc[c] = "cutting"
        /\ pieces[f] \in Seq(Piece) /\ [from |-> start[c], to |-> to] \in Piece
        /\ DOMAIN pieces' = DOMAIN text /\ pieces'[f] = Append(pieces[f], [from |-> start[c], to |-> to])
        /\ \A x \in DOMAIN text : x # f => pieces'[x] = pieces[x]
        /\ start' = [start EXCEPT ![c] = to]
        /\ UNCHANGED <<frame, text, kind, next, pending, thread, flying, late>>
    BY <1>0, <1>3 DEF Adds, slackVars, TypeOK
  <2>2. \A x \in Conn : InHand(x)' = InHand(x)
    BY <2>1 DEF InHand
  <2> HIDE DEF f
  <2>3. pieces'[f] \in Seq(Piece) /\ DOMAIN pieces'[f] = 1..(Len(pieces[f]) + 1) /\ Len(pieces[f]) \in Nat
    BY <2>1
  <2>4. \A x \in DOMAIN text : pieces'[x] \in Seq(Piece)
    BY <2>1, <2>3 DEF TypeOK
  <2>5. pc' \in [Conn -> {"idle"} \cup Active] /\ start' \in [Conn -> Nat]
        /\ \A x \in Conn : pc'[x] \in Active => pc[x] \in Active
    BY <1>0, <1>3, <2>1 DEF Active
  <2>6. Call' = Call
    BY <2>1 DEF Call
  <2>7. \A x \in Conn : pc'[x] \in Active => InHand(x)' \in DOMAIN text'
    BY <2>1, <2>2, <2>5 DEF TypeOK
  <2>8. \A x \in Conn : pc'[x] \in {"posting", "posted"} => next'[x] \in DOMAIN pieces'[InHand(x)']
    <3> SUFFICES ASSUME NEW x \in Conn, pc'[x] \in {"posting", "posted"}
                 PROVE  next[x] \in DOMAIN pieces'[InHand(x)]
      BY <2>1, <2>2
    <3>1. CASE x = c
      <4>1. next[c] = 1
        BY <1>0, <1>3, <2>1, <3>1
      <4> QED BY <2>3, <3>1, <4>1 DEF f
    <3>2. CASE x # c
      <4>1. pc[x] \in {"posting", "posted"} /\ InHand(x) # f
        BY <1>0, <1>3, <3>2 DEF InHand, f
      <4>2. InHand(x) \in DOMAIN text /\ next[x] \in DOMAIN pieces[InHand(x)]
        BY <4>1 DEF TypeOK, Active
      <4> QED BY <2>1, <4>1, <4>2
    <3> QED BY <3>1, <3>2
  <2>9. \A x \in DOMAIN text' :
          /\ x[2] \in 1..frame'[x[1]] /\ text'[x] \in Seq(Char) /\ text'[x] # <<>>
          /\ kind'[x] \in {"reply", "prompt"} /\ pieces'[x] \in Seq(Piece)
    BY <2>1, <2>4 DEF TypeOK
  <2> QED BY <2>1, <2>5, <2>6, <2>7, <2>8, <2>9 DEF TypeOK
\* The texts stay as they are.
<1>4. ASSUME UNCHANGED <<frame, text, kind, pieces, start>>,
             pc' \in [Conn -> {"idle"} \cup Active], next' \in [Conn -> Nat \ {0}],
             pending' \subseteq pending, thread' \in Seq(Call), flying' \subseteq late', late' \subseteq Call,
             \A x \in Conn : pc'[x] \in Active => pc[x] \in Active,
             \A x \in Conn : pc'[x] \in {"posting", "posted"} => next'[x] \in DOMAIN pieces[InHand(x)]
      PROVE  TypeOK'
  <2>1. Call' = Call
    BY <1>4 DEF Call
  <2>2. \A x \in Conn : InHand(x)' = InHand(x)
    BY <1>4 DEF InHand
  <2>3. \A x \in Conn : pc'[x] \in Active => InHand(x)' \in DOMAIN text'
    BY <1>4, <2>2 DEF TypeOK
  <2>4. \A x \in Conn : pc'[x] \in {"posting", "posted"} => next'[x] \in DOMAIN pieces'[InHand(x)']
    BY <1>4, <2>2
  <2>5. \A x \in DOMAIN text' :
          /\ x[2] \in 1..frame'[x[1]] /\ text'[x] \in Seq(Char) /\ text'[x] # <<>>
          /\ kind'[x] \in {"reply", "prompt"} /\ pieces'[x] \in Seq(Piece)
    BY <1>4 DEF TypeOK
  <2>6. /\ frame' \in [Conn -> Nat] /\ start' \in [Conn -> Nat] /\ pending' \subseteq DOMAIN text'
        /\ DOMAIN text' \subseteq Frame /\ DOMAIN kind' = DOMAIN text' /\ DOMAIN pieces' = DOMAIN text'
    BY <1>0, <1>4 DEF TypeOK
  <2> QED BY <1>4, <2>1, <2>3, <2>4, <2>5, <2>6 DEF TypeOK
<1>5. /\ pending \subseteq pending /\ thread \in Seq(Call) /\ flying \subseteq late /\ late \subseteq Call
      /\ \A x \in Conn : pc[x] \in {"posting", "posted"} => next[x] \in DOMAIN pieces[InHand(x)]
  BY DEF TypeOK
<1>6. ASSUME NEW c \in Conn, pc[c] \in {"posting", "posted"} PROVE Post(c) \in Call
  BY <1>6, InHandFacts DEF Post, Call, Active
<1>7. ASSUME NEW c \in Conn, Posted(c) PROVE TypeOK'
  <2>1. /\ UNCHANGED <<frame, text, kind, pieces, start, next, pending, flying, late>>
        /\ pc[c] = "posting" /\ pc' = [pc EXCEPT ![c] = "posted"] /\ thread' = Append(thread, Post(c))
    BY <1>7 DEF Posted, Goes, frameVars
  <2>2. thread' \in Seq(Call)
    BY <1>5, <1>6, <2>1
  <2>3. pc' \in [Conn -> {"idle"} \cup Active]
        /\ \A x \in Conn : /\ pc'[x] \in Active => pc[x] \in Active
                           /\ pc'[x] \in {"posting", "posted"} => pc[x] \in {"posting", "posted"}
    BY <1>0, <2>1 DEF Active
  <2> QED BY <1>0, <1>4, <1>5, <2>1, <2>2, <2>3
<1>8. ASSUME NEW c \in Conn, Answered(c) PROVE TypeOK'
  <2>1. /\ UNCHANGED <<frame, text, kind, pieces, start, pending, thread, flying, late>>
        /\ pc[c] = "posted"
    BY <1>8 DEF Answered, frameVars, slackVars
  <2>2. CASE More(c) /\ next' = [next EXCEPT ![c] = @ + 1] /\ Goes(c, "posting")
    <3>1. /\ pc' \in [Conn -> {"idle"} \cup Active] /\ next' \in [Conn -> Nat \ {0}]
          /\ pc'[c] = "posting" /\ next'[c] = next[c] + 1
          /\ \A x \in Conn : x # c => pc'[x] = pc[x] /\ next'[x] = next[x]
      BY <1>0, <2>2 DEF Active, Goes
    <3>2. next'[c] \in DOMAIN pieces[InHand(c)]
      <4>1. next[c] < Len(pieces[InHand(c)]) /\ pieces[InHand(c)] \in Seq(Piece) /\ next[c] \in Nat
        BY <2>1, <2>2, InHandFacts DEF More, Active
      <4> QED BY <3>1, <4>1
    <3>3. \A x \in Conn : /\ pc'[x] \in Active => pc[x] \in Active
                          /\ pc'[x] \in {"posting", "posted"} => next'[x] \in DOMAIN pieces[InHand(x)]
      BY <1>5, <2>1, <3>1, <3>2 DEF Active
    <3> QED BY <1>4, <1>5, <2>1, <3>1, <3>3
  <2>3. CASE Goes(c, "idle") /\ next' = next
    <3>1. pc' \in [Conn -> {"idle"} \cup Active]
          /\ \A x \in Conn : /\ pc'[x] \in Active => pc[x] \in Active
                             /\ pc'[x] \in {"posting", "posted"} => pc[x] \in {"posting", "posted"}
      BY <1>0, <2>1, <2>3 DEF Active, Goes
    <3> QED BY <1>0, <1>4, <1>5, <2>1, <2>3, <3>1
  <2> QED BY <1>8, <2>2, <2>3 DEF Answered
<1>9. ASSUME NEW c \in Conn, Fails(c) PROVE TypeOK'
  <2>1. /\ UNCHANGED <<frame, text, kind, pieces, start, next, pending, thread>>
        /\ pc[c] \in {"posting", "posted"}
        /\ \E p \in {"forgetting", "idle"} : pc' = [pc EXCEPT ![c] = p]
        /\ \/ UNCHANGED <<flying, late>>
           \/ flying' = flying \cup {Post(c)} /\ late' = late \cup {Post(c)}
    BY <1>9 DEF Fails, Goes, AfterFailure, frameVars
  <2>2. /\ pc' \in [Conn -> {"idle"} \cup Active]
        /\ \A x \in Conn : /\ pc'[x] \in Active => pc[x] \in Active
                           /\ pc'[x] \in {"posting", "posted"} => pc[x] \in {"posting", "posted"}
    BY <1>0, <2>1 DEF Active
  <2>3. flying' \subseteq late' /\ late' \subseteq Call
    BY <1>5, <1>6, <2>1
  <2> QED BY <1>0, <1>4, <1>5, <2>1, <2>2, <2>3
<1>10. ASSUME NEW c \in Conn, Forget(c) PROVE TypeOK'
  <2>1. /\ UNCHANGED <<frame, text, kind, pieces, start, next, thread, flying, late>>
        /\ pending' \subseteq pending /\ pc' = [pc EXCEPT ![c] = "idle"]
    BY <1>10 DEF Forget, Goes, frameVars, slackVars
  <2>2. /\ pc' \in [Conn -> {"idle"} \cup Active]
        /\ \A x \in Conn : /\ pc'[x] \in Active => pc[x] \in Active
                           /\ pc'[x] \in {"posting", "posted"} => pc[x] \in {"posting", "posted"}
    BY <1>0, <2>1 DEF Active
  <2> QED BY <1>0, <1>4, <1>5, <2>1, <2>2
<1>11. ASSUME NEW p \in flying, Late(p) PROVE TypeOK'
  <2>1. /\ UNCHANGED <<pc, frame, text, kind, pieces, start, next, pending, late>>
        /\ thread' = Append(thread, p) /\ flying' \subseteq flying /\ p \in Call
    BY <1>5, <1>11 DEF Late, frameVars
  <2>2. thread' \in Seq(Call) /\ flying' \subseteq late'
    BY <1>5, <2>1
  <2> QED BY <1>0, <1>4, <1>5, <2>1, <2>2
<1>12. CASE UNCHANGED vars
  <2>1. UNCHANGED <<pc, frame, text, kind, pieces, start, next, pending, thread, flying, late>>
    BY <1>12 DEF vars, frameVars, slackVars
  <2> QED BY <1>0, <1>4, <1>5, <2>1
<1>13. ASSUME NEW c \in Conn, Cut(c) \/ Rest(c) PROVE TypeOK'
  BY <1>3, <1>13, CutFacts
<1>14. ASSUME NEW c \in Conn, NEW k \in {"reply", "prompt"}, NEW t, Receive(c, k, t) PROVE TypeOK'
  BY <1>1, <1>2, <1>14, ReceiveFacts
<1> QED BY <1>7, <1>8, <1>9, <1>10, <1>11, <1>12, <1>13, <1>14 DEF Next, Serve
-----------------------------------------------------------------------------
(* The pieces.                                                              *)

\* A piece that is added is well cut, and joins up to the ones before it.
LEMMA PieceIsWellCut ==
  ASSUME TypeOK, NEW c \in Conn, NEW to \in Nat, Adds(c, to),
         \/ /\ to < Len(text[InHand(c)]) /\ Splits(c, to)
            /\ start[c] + MaxChars < Len(text[InHand(c)])
         \/ to = Len(text[InHand(c)])
  PROVE  WellCut(text[InHand(c)], [from |-> start[c], to |-> to])
<1> DEFINE t == text[InHand(c)]
           s == start[c]
<1>1. s \in Nat /\ Len(t) \in Nat /\ MaxChars \in Nat
  BY InHandFacts, SizeAssumption DEF Adds, Active
<1>2. to \in (s + 1)..(s + MaxChars) /\ to <= Len(t)
  BY DEF Adds
<1>3. CASE to < Len(t) /\ Splits(c, to) /\ s + MaxChars < Len(t)
  <2>1. \/ t[to] = NewLine /\ \A j \in Window(c) : j > to => t[j] # NewLine
        \/ to = s + MaxChars /\ \A j \in Window(c) : t[j] # NewLine
    BY <1>3 DEF Splits
  <2> HIDE DEF t, s
  <2>2. Window(c) = (s + 1)..(s + MaxChars)
    BY DEF Window, s
  <2>3. \A j \in (to + 1)..(s + MaxChars) : j \in Window(c) /\ j > to
    BY <1>1, <1>2, <2>2
  <2>4. \A j \in (to + 1)..(s + MaxChars) : t[j] # NewLine
    BY <2>1, <2>3
  <2>5. t[to] # NewLine => \A j \in (s + 1)..to : t[j] # NewLine
    BY <1>1, <1>2, <2>1, <2>2
  <2> QED BY <1>1, <1>2, <1>3, <2>1, <2>4, <2>5 DEF WellCut, t, s
<1>4. CASE to = Len(t)
  BY <1>1, <1>2, <1>4 DEF WellCut
<1> QED BY <1>3, <1>4

Added(s, p) == Append(s, p)
LEMMA JoinsOneMore ==
  ASSUME NEW t, NEW s \in Seq(Piece), NEW p \in Piece, NEW a, a = Added(s, p),
         WellCut(t, p), p.from = EndOf(s), JoinUp(t, s)
  PROVE  JoinUp(t, a) /\ a # <<>> /\ EndOf(a) = p.to
<1> DEFINE n == Len(s)
<1>0. \A i \in DOMAIN s : /\ WellCut(t, s[i])
                          /\ s[i].from = IF i = 1 THEN 0 ELSE s[i - 1].to
  BY DEF JoinUp
<1>1. /\ n \in Nat /\ DOMAIN s = 1..n /\ DOMAIN a = 1..(n + 1) /\ Len(a) = n + 1
      /\ a[n + 1] = p /\ (\A i \in 1..n : a[i] = s[i]) /\ a # <<>>
  BY DEF Added
<1>2. EndOf(s) = IF n = 0 THEN 0 ELSE s[n].to
  BY DEF EndOf
<1>3. EndOf(a) = p.to
  BY <1>1 DEF EndOf
<1> HIDE DEF n
<1>4. ASSUME NEW i \in DOMAIN a
      PROVE  WellCut(t, a[i]) /\ a[i].from = IF i = 1 THEN 0 ELSE a[i - 1].to
  <2>1. CASE i = n + 1
    <3>1. n # 0 => a[n] = s[n]
      BY <1>1
    <3> QED BY <1>1, <1>2, <2>1, <3>1
  <2>2. CASE i \in 1..n
    <3>1. i # 1 => i - 1 \in 1..n
      BY <1>1, <2>2
    <3>2. a[i] = s[i] /\ (i # 1 => a[i - 1] = s[i - 1])
      BY <1>1, <2>2, <3>1
    <3> QED BY <1>0, <1>1, <2>2, <3>2
  <2> QED BY <1>1, <1>4, <2>1, <2>2
<1> QED BY <1>1, <1>3, <1>4 DEF JoinUp

LEMMA CutStep == ASSUME TypeOK, CutInv, [Next]_vars PROVE CutInv'
<1>0. /\ pc = [x \in Conn |-> pc[x]] /\ frame = [x \in Conn |-> frame[x]]
      /\ start = [x \in Conn |-> start[x]] /\ next = [x \in Conn |-> next[x]]
      /\ DOMAIN pieces = DOMAIN text /\ DOMAIN text \subseteq Frame
      /\ \A f \in DOMAIN text : f[1] \in Conn /\ CutOf(f)
  BY DEF TypeOK, CutInv, Frame
\* A text whose pieces stay as they are.
<1>1. ASSUME NEW f, CutOf(f), text'[f] = text[f], pieces'[f] = pieces[f],
             IsCut(f)' <=> IsCut(f),
             ~IsCut(f) => start'[f[1]] = start[f[1]] /\ next'[f[1]] = next[f[1]]
      PROVE  CutOf(f)'
  <2>1. Joined(f)'
    BY <1>1 DEF CutOf, Joined
  <2> QED BY <1>1, <2>1 DEF CutOf
<1>2. ASSUME UNCHANGED <<text, pieces, frame, start>>,
             \A x \in Conn : \/ pc'[x] = pc[x] /\ next'[x] = next[x]
                             \/ pc[x] # "cutting" /\ pc'[x] # "cutting"
      PROVE  CutInv'
  <2>1. \A f \in DOMAIN text : IsCut(f)' <=> IsCut(f)
    BY <1>0, <1>2 DEF IsCut, InHand
  <2>2. \A f \in DOMAIN text : ~IsCut(f) => next'[f[1]] = next[f[1]]
    BY <1>0, <1>2 DEF IsCut
  <2>3. \A f \in DOMAIN text : CutOf(f)'
    BY <1>0, <1>1, <1>2, <2>1, <2>2
  <2> QED BY <1>2, <2>3 DEF CutInv
<1>3. ASSUME NEW c \in Conn, Drops(c) PROVE CutInv'
  <2>1. /\ pc[c] = "idle" /\ frame' = [frame EXCEPT ![c] = frame[c] + 1]
        /\ UNCHANGED <<pc, text, pieces, start, next>>
    BY <1>3 DEF Drops
  <2>2. \A f \in DOMAIN text : IsCut(f)' <=> IsCut(f)
    BY <1>0, <2>1 DEF IsCut, InHand
  <2>3. \A f \in DOMAIN text : CutOf(f)'
    BY <1>0, <1>1, <2>1, <2>2
  <2> QED BY <2>1, <2>3 DEF CutInv
<1>4. ASSUME NEW c \in Conn, NEW k, NEW t, TakesUp(c, k, t) PROVE CutInv'
  <2>0. PICK f : f = <<c, frame[c] + 1>>
    OBVIOUS
  <2>1. /\ f[1] = c /\ pc[c] = "idle" /\ t \in Seq(Char) /\ t # <<>> /\ f \notin DOMAIN text
        /\ frame' = [frame EXCEPT ![c] = frame[c] + 1] /\ pc' = [pc EXCEPT ![c] = "cutting"]
        /\ DOMAIN text' = DOMAIN text \cup {f} /\ text'[f] = t /\ pieces'[f] = <<>>
        /\ \A x \in DOMAIN text : text'[x] = text[x] /\ pieces'[x] = pieces[x]
        /\ start' = [start EXCEPT ![c] = 0] /\ next' = [next EXCEPT ![c] = 1]
    BY <1>4, <2>0 DEF TakesUp
  <2>2. InHand(c)' = f
    BY <1>0, <2>0, <2>1 DEF InHand
  <2>3. CutOf(f)'
    <3>1. ~IsCut(f)' /\ start'[c] = 0 /\ next'[c] = 1
      BY <1>0, <2>1, <2>2 DEF IsCut
    <3>2. Len(t) \in Nat /\ 0 < Len(t)
      BY <2>1
    <3> QED BY <2>1, <3>1, <3>2 DEF CutOf, Joined, JoinUp, EndOf
  <2>4. ASSUME NEW x \in DOMAIN text PROVE CutOf(x)'
    <3>1. x # f
      BY <2>1
    <3>2. CASE x[1] = c
      <4>1. IsCut(x) /\ IsCut(x)'
        BY <1>0, <2>1, <2>2, <3>1, <3>2 DEF IsCut
      <4> QED BY <1>0, <1>1, <2>1, <4>1
    <3>3. CASE x[1] # c
      <4>1. /\ pc'[x[1]] = pc[x[1]] /\ frame'[x[1]] = frame[x[1]]
            /\ start'[x[1]] = start[x[1]] /\ next'[x[1]] = next[x[1]]
        BY <1>0, <2>1, <3>3
      <4>2. IsCut(x)' <=> IsCut(x)
        BY <4>1 DEF IsCut, InHand
      <4> QED BY <1>0, <1>1, <2>1, <4>1, <4>2
    <3> QED BY <3>2, <3>3
  <2> QED BY <2>1, <2>3, <2>4 DEF CutInv
<1>5. ASSUME NEW c \in Conn, Cut(c) \/ Rest(c) PROVE CutInv'
  <2>0. PICK f : f = InHand(c)
    OBVIOUS
  <2>1. PICK to \in Nat :
          /\ Adds(c, to) /\ next[c] = 1
          /\ \/ /\ UNCHANGED pc /\ to < Len(text[f]) /\ Splits(c, to)
                /\ start[c] + MaxChars < Len(text[f])
             \/ pc' = [pc EXCEPT ![c] = "posting"] /\ to = Len(text[f])
    BY <1>5, <2>0, CutFacts
  <2> DEFINE p == [from |-> start[c], to |-> to]
  <2>2. /\ pc[c] = "cutting" /\ f \in DOMAIN text /\ f[1] = c /\ p \in Piece
        /\ DOMAIN pieces' = DOMAIN pieces /\ pieces'[f] = Append(pieces[f], p)
        /\ \A x \in DOMAIN pieces : x # f => pieces'[x] = pieces[x]
        /\ start' = [start EXCEPT ![c] = to]
        /\ UNCHANGED <<frame, text, next>>
    BY <2>0, <2>1 DEF Adds
  <2>3. WellCut(text[f], p)
    BY <2>0, <2>1, PieceIsWellCut
  <2>4. ~IsCut(f) /\ CutOf(f) /\ pieces[f] \in Seq(Piece)
    BY <1>0, <2>0, <2>2 DEF IsCut, TypeOK
  <2>5. Joined(f) /\ start[c] = EndOf(pieces[f])
    BY <2>2, <2>4 DEF CutOf
  <2>6. JoinUp(text[f], pieces'[f]) /\ pieces'[f] # <<>> /\ EndOf(pieces'[f]) = to
    <3>1. p.from = EndOf(pieces[f]) /\ p.to = to
      BY <2>5
    <3>2. JoinUp(text[f], pieces[f])
      BY <2>5 DEF Joined
    <3>3. pieces'[f] = Added(pieces[f], p) /\ p \in Piece /\ pieces[f] \in Seq(Piece)
      BY <2>2, <2>4 DEF Added
    <3>4. PICK t, s, a : t = text[f] /\ s = pieces[f] /\ a = pieces'[f]
      OBVIOUS
    <3> HIDE DEF p
    <3>5. JoinUp(t, a) /\ a # <<>> /\ EndOf(a) = p.to
      BY <2>3, <3>1, <3>2, <3>3, <3>4, JoinsOneMore
    <3> QED BY <3>1, <3>4, <3>5
  <2>7. Joined(f)'
    BY <2>2, <2>6 DEF Joined
  <2>8. InHand(c)' = f
    BY <2>0, <2>2 DEF InHand
  <2>9. IsCut(f)' <=> pc'[c] # "cutting"
    BY <2>2, <2>8 DEF IsCut
  <2>10. CutOf(f)'
    <3>1. CASE UNCHANGED pc /\ to < Len(text[f])
      BY <1>0, <2>1, <2>2, <2>6, <2>7, <2>9, <3>1 DEF CutOf
    <3>2. CASE pc' = [pc EXCEPT ![c] = "posting"] /\ to = Len(text[f])
      BY <1>0, <2>2, <2>6, <2>7, <2>9, <3>2 DEF CutOf
    <3> QED BY <2>1, <3>1, <3>2
  <2>11. ASSUME NEW x \in DOMAIN text, x # f PROVE CutOf(x)'
    <3>1. IsCut(x)' <=> IsCut(x)
      BY <1>0, <2>0, <2>1, <2>2, <2>11 DEF IsCut, InHand
    <3>2. ~IsCut(x) => x[1] # c
      BY <2>0, <2>11 DEF IsCut
    <3>3. ~IsCut(x) => start'[x[1]] = start[x[1]] /\ next'[x[1]] = next[x[1]]
      BY <1>0, <2>2, <3>2
    <3>4. text'[x] = text[x] /\ pieces'[x] = pieces[x]
      BY <1>0, <2>2, <2>11
    <3> QED BY <1>0, <1>1, <3>1, <3>3, <3>4
  <2> QED BY <2>2, <2>10, <2>11 DEF CutInv
<1>6. ASSUME NEW c \in Conn, Posted(c) \/ Answered(c) \/ Fails(c) \/ Forget(c) PROVE CutInv'
  <2>1. /\ UNCHANGED <<text, pieces, frame, start>>
        /\ pc[c] # "cutting" /\ pc'[c] # "cutting"
        /\ \A x \in Conn : x # c => pc'[x] = pc[x] /\ next'[x] = next[x]
    BY <1>0, <1>6 DEF Posted, Answered, Fails, Forget, Goes, AfterFailure, frameVars
  <2> QED BY <1>2, <2>1
<1>7. ASSUME NEW p \in flying, Late(p) PROVE CutInv'
  BY <1>2, <1>7 DEF Late, frameVars
<1>8. CASE UNCHANGED vars
  BY <1>2, <1>8 DEF vars, frameVars
<1>9. ASSUME NEW c \in Conn, NEW k \in {"reply", "prompt"}, NEW t, Receive(c, k, t) PROVE CutInv'
  BY <1>3, <1>4, <1>9, ReceiveFacts
<1> QED BY <1>5, <1>6, <1>7, <1>8, <1>9 DEF Next, Serve
-----------------------------------------------------------------------------
(* The calls.                                                               *)

\* A call that Slack may carry out now: the next one of its text, and either
\* given up or of a text no younger one of its connection is shown before.
MayCome(p) ==
  /\ p \in Call /\ p[2] \in DOMAIN pieces[p[1]]
  /\ ~Shown(p) /\ \A n \in 1..(p[2] - 1) : Shown(<<p[1], n>>)
  /\ \A i \in DOMAIN thread : thread[i][1] = p[1] => thread[i][2] < p[2]
  /\ \A q \in late : q[1] = p[1] => p[2] <= q[2]
  /\ p \in late \/ \A i \in DOMAIN thread : thread[i][1][1] = p[1][1] => thread[i][1][2] <= p[1][2]

LEMMA PostMayCome ==
  ASSUME TypeOK, ReachedInv, LateInv, NEW c \in Conn, pc[c] = "posting"
  PROVE  MayCome(Post(c)) /\ \A q \in late : q[1] # InHand(c)
<1> DEFINE f == InHand(c)
           n == next[c]
<1>1. /\ f \in DOMAIN text /\ f[1] = c /\ f[2] = frame[c] /\ n \in Nat \ {0}
      /\ Post(c)[1] = f /\ Post(c)[2] = n /\ Post(c) = <<f, n>> /\ Post(c) \in Call
      /\ n \in DOMAIN pieces[f] /\ thread \in Seq(Call)
  BY InHandFacts DEF Post, Active, TypeOK, Call
<1>2. /\ \A m \in 1..(n - 1) : Shown(<<f, m>>)
      /\ \A i \in DOMAIN thread : thread[i][1] = f => thread[i][2] <= n - 1
  BY DEF ReachedInv, Reached, Working
<1>3. \A q \in late : q[1] # f
  BY <1>1 DEF LateInv, Working
<1>4. \A i \in DOMAIN thread : thread[i] \in Call /\ thread[i][1] \in DOMAIN text /\ thread[i][2] \in Nat
  BY <1>1 DEF Call
<1>5. \A i \in DOMAIN thread : thread[i][1] = f => thread[i][2] < n
  BY <1>1, <1>2, <1>4
<1>6. ~Shown(<<f, n>>)
  BY <1>1, <1>5 DEF Shown
<1>7. \A i \in DOMAIN thread : thread[i][1][1] = c => thread[i][1][2] <= frame[c]
  <2> SUFFICES ASSUME NEW i \in DOMAIN thread, thread[i][1][1] = c PROVE thread[i][1][2] <= frame[c]
    OBVIOUS
  <2>1. thread[i][1][2] \in 1..frame[thread[i][1][1]] /\ frame[c] \in Nat
    BY <1>4 DEF TypeOK
  <2> QED BY <2>1
<1> HIDE DEF f, n
<1> QED BY <1>1, <1>2, <1>3, <1>5, <1>6, <1>7 DEF MayCome, f

LEMMA LateMayCome ==
  ASSUME TypeOK, LateInv, NEW p \in flying
  PROVE  MayCome(p)
<1>1. /\ p \in late /\ p \in Call /\ p[2] \in DOMAIN pieces[p[1]] /\ thread \in Seq(Call)
      /\ p[2] \in Nat \ {0} /\ p = <<p[1], p[2]>>
  BY DEF TypeOK, LateInv, Call
<1>2. /\ ~Shown(p) /\ \A n \in 1..(p[2] - 1) : Shown(<<p[1], n>>)
      /\ \A i \in DOMAIN thread : thread[i][1] = p[1] => thread[i][2] <= p[2]
      /\ \A q \in late : q[1] = p[1] => p[2] <= q[2]
  BY <1>1 DEF LateInv
<1>3. ASSUME NEW i \in DOMAIN thread, thread[i][1] = p[1] PROVE thread[i][2] < p[2]
  <2>1. thread[i] \in Call /\ thread[i][2] \in Nat /\ thread[i] = <<thread[i][1], thread[i][2]>>
    BY <1>1 DEF Call
  <2>2. thread[i] # p
    BY <1>2 DEF Shown
  <2>3. thread[i][2] # p[2]
    BY <1>1, <1>3, <2>1, <2>2
  <2> QED BY <1>1, <1>2, <1>3, <2>1, <2>3
<1> QED BY <1>1, <1>2, <1>3 DEF MayCome

\* What is cut is not taken back.
PiecesGrow ==
  /\ DOMAIN text \subseteq DOMAIN text'
  /\ \A f \in DOMAIN text : DOMAIN pieces[f] \subseteq DOMAIN pieces'[f]

\* The connection's step with the thread is one of these.
NoCall == thread' = thread /\ PiecesGrow
ACall(p) == MayCome(p) /\ Grown(p) /\ UNCHANGED <<text, kind, pieces, late, frame, start, next, pending>>

LEMMA AddsFacts ==
  ASSUME TypeOK, NEW c \in Conn, NEW to \in Nat, Adds(c, to)
  PROVE  /\ PiecesGrow /\ \A x \in DOMAIN text : x # InHand(c) => pieces'[x] = pieces[x]
<1> DEFINE f == InHand(c)
           p == [from |-> start[c], to |-> to]
<1>1. /\ f \in DOMAIN text /\ pieces[f] \in Seq(Piece) /\ p \in Piece
      /\ pieces'[f] = Append(pieces[f], p) /\ text' = text /\ DOMAIN pieces = DOMAIN text
      /\ \A x \in DOMAIN pieces : x # f => pieces'[x] = pieces[x]
  BY DEF Adds, TypeOK
<1> HIDE DEF f, p
<1>2. DOMAIN pieces[f] \subseteq DOMAIN pieces'[f]
  BY <1>1
<1> QED BY <1>1, <1>2 DEF PiecesGrow, f
\* What each step does with the places of the connections and with the calls.
PostedFacts(c) ==
  /\ pc[c] = "posting" /\ pc' = [pc EXCEPT ![c] = "posted"] /\ ACall(Post(c)) /\ UNCHANGED flying
AnsweredFacts(c) ==
  /\ pc[c] = "posted" /\ UNCHANGED <<text, kind, pieces, late, flying, thread, frame, start, pending>>
  /\ \/ pc' = [pc EXCEPT ![c] = "posting"] /\ next' = [next EXCEPT ![c] = next[c] + 1]
     \/ pc' = [pc EXCEPT ![c] = "idle"] /\ next' = next /\ ~More(c)
FailsFacts(c) ==
  /\ pc[c] \in {"posting", "posted"} /\ pc' = [pc EXCEPT ![c] = AfterFailure(c)]
  /\ UNCHANGED <<text, kind, pieces, thread, frame, start, next, pending>>
  /\ \/ UNCHANGED <<flying, late>>
     \/ pc[c] = "posting" /\ flying' = flying \cup {Post(c)} /\ late' = late \cup {Post(c)}
ForgetFacts(c) ==
  /\ pc[c] = "forgetting" /\ pc' = [pc EXCEPT ![c] = "idle"] /\ pending' = pending \ {InHand(c)}
  /\ UNCHANGED <<text, kind, pieces, late, flying, thread, frame, start, next>>
LateFacts(p) == ACall(p) /\ UNCHANGED pc /\ p \in flying /\ flying' = flying \ {p}
CutFact(c) ==
  \E to \in Nat : /\ Adds(c, to) /\ next[c] = 1
                  /\ UNCHANGED pc \/ pc' = [pc EXCEPT ![c] = "posting"]

LEMMA StepFacts ==
  ASSUME TypeOK, CutInv, ReachedInv, LateInv, [Next]_vars
  PROVE  \/ \E c \in Conn :
              \/ Drops(c) \/ \E k, t : TakesUp(c, k, t)
              \/ CutFact(c) \/ PostedFacts(c) \/ AnsweredFacts(c) \/ FailsFacts(c) \/ ForgetFacts(c)
         \/ \E p \in flying : LateFacts(p)
         \/ UNCHANGED vars
<1>1. ASSUME NEW c \in Conn, NEW k, NEW t, Receive(c, k, t) PROVE Drops(c) \/ TakesUp(c, k, t)
  BY <1>1, ReceiveFacts
<1>2. ASSUME NEW c \in Conn, Cut(c) \/ Rest(c) PROVE CutFact(c)
  <2>1. PICK to \in Nat :
           /\ Adds(c, to) /\ next[c] = 1
           /\ \/ /\ UNCHANGED pc /\ to < Len(text[InHand(c)]) /\ Splits(c, to)
                 /\ start[c] + MaxChars < Len(text[InHand(c)])
              \/ pc' = [pc EXCEPT ![c] = "posting"] /\ to = Len(text[InHand(c)])
    BY <1>2, CutFacts
  <2> QED BY <2>1 DEF CutFact
<1>3. ASSUME NEW c \in Conn, Posted(c) PROVE PostedFacts(c)
  <2>1. /\ pc[c] = "posting" /\ pc' = [pc EXCEPT ![c] = "posted"] /\ thread' = Append(thread, Post(c))
        /\ UNCHANGED <<text, kind, pieces, late, frame, start, next, pending, flying>>
    BY <1>3 DEF Posted, Goes, frameVars
  <2>2. MayCome(Post(c))
    BY <2>1, PostMayCome
  <2>3. PICK p : p = Post(c)
    OBVIOUS
  <2>4. Grown(p)
    BY <2>1, <2>2, <2>3, ThreadGrows DEF MayCome
  <2> QED BY <2>1, <2>2, <2>3, <2>4 DEF PostedFacts, ACall
<1>4. ASSUME NEW c \in Conn, Answered(c) PROVE AnsweredFacts(c)
  BY <1>4 DEF Answered, AnsweredFacts, Goes, frameVars, slackVars
<1>5. ASSUME NEW c \in Conn, Fails(c) PROVE FailsFacts(c)
  BY <1>5 DEF Fails, FailsFacts, Goes, frameVars
<1>6. ASSUME NEW c \in Conn, Forget(c) PROVE ForgetFacts(c)
  BY <1>6 DEF Forget, ForgetFacts, Goes, frameVars, slackVars
<1>7. ASSUME NEW p \in flying, Late(p) PROVE LateFacts(p)
  <2>1. /\ thread' = Append(thread, p) /\ flying' = flying \ {p}
        /\ UNCHANGED <<pc, text, kind, pieces, late, frame, start, next, pending>>
    BY <1>7 DEF Late, frameVars
  <2>2. MayCome(p)
    BY LateMayCome
  <2>3. Grown(p)
    BY <2>1, <2>2, ThreadGrows DEF MayCome
  <2> QED BY <2>1, <2>2, <2>3 DEF LateFacts, ACall
<1> QED BY <1>1, <1>2, <1>3, <1>4, <1>5, <1>6, <1>7 DEF Next, Serve

\* A step either leaves the thread alone, or makes a call that may come.
LEMMA ThreadOrCall ==
  ASSUME TypeOK, CutInv, ReachedInv, LateInv, [Next]_vars
  PROVE  \/ NoCall /\ late \subseteq late'
         \/ \E p : ACall(p)
<1>1. /\ DOMAIN kind = DOMAIN text /\ DOMAIN pieces = DOMAIN text
      /\ \A c \in Conn, to \in Nat : Adds(c, to) => PiecesGrow
  BY AddsFacts DEF TypeOK
<1>2. ASSUME NEW c \in Conn, Drops(c) PROVE NoCall /\ late \subseteq late'
  BY <1>2 DEF Drops, NoCall, PiecesGrow, slackVars
<1>3. ASSUME NEW c \in Conn, NEW k, NEW t, TakesUp(c, k, t) PROVE NoCall /\ late \subseteq late'
  <2> DEFINE f == <<c, frame[c] + 1>>
  <2>1. /\ DOMAIN text' = DOMAIN text \cup {f} /\ \A x \in DOMAIN text : pieces'[x] = pieces[x]
        /\ UNCHANGED <<thread, late>>
    BY <1>3 DEF TakesUp, slackVars
  <2> QED BY <2>1 DEF NoCall, PiecesGrow
<1>4. ASSUME NEW c \in Conn, CutFact(c) PROVE NoCall /\ late \subseteq late'
  <2>1. PICK to \in Nat : Adds(c, to)
    BY <1>4 DEF CutFact
  <2> QED BY <1>1, <2>1 DEF Adds, NoCall, slackVars
<1>5. ASSUME NEW c \in Conn, AnsweredFacts(c) \/ FailsFacts(c) \/ ForgetFacts(c)
      PROVE  NoCall /\ late \subseteq late'
  BY <1>5 DEF AnsweredFacts, FailsFacts, ForgetFacts, NoCall, PiecesGrow
<1>6. CASE UNCHANGED vars
  BY <1>6 DEF vars, frameVars, slackVars, NoCall, PiecesGrow
<1> QED BY <1>2, <1>3, <1>4, <1>5, <1>6, StepFacts DEF PostedFacts, LateFacts

LEMMA PrefixStep ==
  ASSUME TypeOK, CutInv, ReachedInv, LateInv, ThreadShowsPrefix, [Next]_vars
  PROVE  ThreadShowsPrefix'
<1>1. thread \in Seq(Call) /\ \A i \in DOMAIN thread : thread[i] \in Call /\ thread[i][1] \in DOMAIN text
  BY DEF TypeOK, Call
<1>2. CASE NoCall
  BY <1>1, <1>2 DEF NoCall, PiecesGrow, ThreadShowsPrefix
<1>3. ASSUME NEW p, ACall(p) PROVE ThreadShowsPrefix'
  <2> DEFINE n == Len(thread)
  <2>1. /\ DOMAIN thread' = 1..(n + 1) /\ DOMAIN thread = 1..n /\ n \in Nat
        /\ \A i \in DOMAIN thread : thread'[i] = thread[i]
        /\ thread'[n + 1] = p /\ pieces' = pieces
    BY <1>3 DEF ACall, Grown
  <2>2. /\ p \in Call /\ p[2] \in DOMAIN pieces[p[1]] /\ p[2] \in Nat \ {0}
        /\ \A i \in DOMAIN thread : thread[i] # p
        /\ p[2] > 1 => \E j \in 1..n : thread[j] = <<p[1], p[2] - 1>>
    <3>1. MayCome(p) /\ p \in Call
      BY <1>3 DEF ACall, MayCome
    <3>2. p[2] \in Nat \ {0}
      BY <3>1 DEF Call
    <3>3. p[2] > 1 => p[2] - 1 \in 1..(p[2] - 1)
      BY <3>2
    <3>4. p[2] > 1 => Shown(<<p[1], p[2] - 1>>)
      BY <3>1, <3>3 DEF MayCome
    <3> QED BY <2>1, <3>1, <3>2, <3>4 DEF MayCome, Shown
  <2> HIDE DEF n
  <2>3. ASSUME NEW i \in DOMAIN thread'
        PROVE  /\ thread'[i][2] \in DOMAIN pieces'[thread'[i][1]]
               /\ thread'[i][2] > 1 => \E j \in 1..(i - 1) : thread'[j] = <<thread'[i][1], thread'[i][2] - 1>>
               /\ \A j \in DOMAIN thread' : thread'[i] = thread'[j] => i = j
    <3>1. CASE i = n + 1
      <4>1. \A j \in 1..n : thread'[j] = thread[j] /\ j \in 1..(i - 1)
        BY <2>1, <3>1
      <4>2. \A j \in DOMAIN thread' : j = i \/ j \in 1..n
        BY <2>1, <3>1
      <4> QED BY <2>1, <2>2, <3>1, <4>1, <4>2
    <3>2. CASE i \in 1..n
      <4>1. /\ thread[i][2] \in DOMAIN pieces[thread[i][1]]
            /\ thread[i][2] > 1 => \E j \in 1..(i - 1) : thread[j] = <<thread[i][1], thread[i][2] - 1>>
            /\ \A j \in DOMAIN thread : thread[i] = thread[j] => i = j
        BY <2>1, <3>2 DEF ThreadShowsPrefix
      <4>2. \A j \in 1..(i - 1) : j \in DOMAIN thread /\ thread'[j] = thread[j]
        BY <2>1, <3>2
      <4>3. \A j \in DOMAIN thread' : j = n + 1 \/ j \in 1..n
        BY <2>1
      <4>4. thread'[i] = thread[i] /\ thread'[i] # thread'[n + 1]
        BY <2>1, <2>2, <3>2
      <4> QED BY <2>1, <3>2, <4>1, <4>2, <4>3, <4>4
    <3> QED BY <2>1, <3>1, <3>2
  <2> QED BY <2>3 DEF ThreadShowsPrefix
<1> QED BY <1>2, <1>3, ThreadOrCall

LEMMA OvertakenStep ==
  ASSUME TypeOK, CutInv, ReachedInv, LateInv, OnlyLateIsOvertaken, [Next]_vars
  PROVE  OnlyLateIsOvertaken'
<1> DEFINE Ahead(p, q) == p[1][1] = q[1][1] /\ p[1][2] > q[1][2]
           LastOf(t, q) == \A k \in DOMAIN t : t[k][1] = q[1] => t[k][2] <= q[2]
<1>1. \A i, j \in DOMAIN thread :
        i < j /\ Ahead(thread[i], thread[j]) => thread[j] \in late /\ LastOf(thread, thread[j])
  BY DEF OnlyLateIsOvertaken
<1>2. SUFFICES \A i, j \in DOMAIN thread' :
        i < j /\ Ahead(thread'[i], thread'[j]) => thread'[j] \in late' /\ LastOf(thread', thread'[j])
  BY DEF OnlyLateIsOvertaken
<1>3. CASE thread' = thread /\ late \subseteq late'
  BY <1>1, <1>3
<1>4. ASSUME NEW p, ACall(p)
      PROVE  \A i, j \in DOMAIN thread' :
        i < j /\ Ahead(thread'[i], thread'[j]) => thread'[j] \in late' /\ LastOf(thread', thread'[j])
  <2> DEFINE n == Len(thread)
  <2>1. /\ DOMAIN thread' = 1..(n + 1) /\ DOMAIN thread = 1..n /\ n \in Nat
        /\ \A i \in DOMAIN thread : thread'[i] = thread[i]
        /\ thread'[n + 1] = p /\ late' = late
    BY <1>4 DEF ACall, Grown
  <2>2. /\ p \in Call /\ p[2] \in Nat /\ \A q \in late : q[1] = p[1] => p[2] <= q[2]
        /\ p \in late \/ \A i \in DOMAIN thread : thread[i][1][1] = p[1][1] => thread[i][1][2] <= p[1][2]
    BY <1>4 DEF ACall, MayCome, Call
  <2>3. \A i \in DOMAIN thread : thread[i][1] = p[1] => thread[i][2] < p[2]
    BY <1>4 DEF ACall, MayCome
  <2>4. /\ \A i \in DOMAIN thread : thread[i][1][2] \in Nat /\ thread[i][2] \in Nat
        /\ p[1][2] \in Nat
    <3>1. DOMAIN text \subseteq Frame /\ thread \in Seq(Call)
      BY DEF TypeOK
    <3>2. \A q \in Call : q[1][2] \in Nat /\ q[2] \in Nat
      BY <3>1 DEF Call, Frame
    <3> QED BY <2>2, <3>1, <3>2
  <2> HIDE DEF n
  <2>5. ASSUME NEW i \in DOMAIN thread', NEW j \in DOMAIN thread', i < j, Ahead(thread'[i], thread'[j])
        PROVE  thread'[j] \in late' /\ LastOf(thread', thread'[j])
    <3>1. i \in 1..n /\ thread'[i] = thread[i]
      BY <2>1, <2>5
    <3>2. CASE j = n + 1
      <4>1. thread'[j] = p /\ Ahead(thread[i], p)
        BY <2>1, <2>5, <3>1, <3>2
      <4>2. p \in late
        BY <2>1, <2>2, <2>4, <3>1, <4>1
      <4>3. \A k \in DOMAIN thread' : thread'[k][1] = p[1] => thread'[k][2] <= p[2]
        <5> SUFFICES ASSUME NEW k \in DOMAIN thread', thread'[k][1] = p[1] PROVE thread'[k][2] <= p[2]
          OBVIOUS
        <5>1. CASE k = n + 1
          BY <2>1, <2>2, <5>1
        <5>2. CASE k \in 1..n
          BY <2>1, <2>2, <2>3, <2>4, <5>2
        <5> QED BY <2>1, <5>1, <5>2
      <4> QED BY <2>1, <4>1, <4>2, <4>3
    <3>3. CASE j \in 1..n
      <4>1. thread'[j] = thread[j] /\ thread[j] \in late /\ LastOf(thread, thread[j])
        BY <1>1, <2>1, <2>5, <3>1, <3>3
      <4>2. \A k \in DOMAIN thread' : thread'[k][1] = thread[j][1] => thread'[k][2] <= thread[j][2]
        <5> SUFFICES ASSUME NEW k \in DOMAIN thread', thread'[k][1] = thread[j][1]
                     PROVE  thread'[k][2] <= thread[j][2]
          OBVIOUS
        <5>1. CASE k = n + 1
          BY <2>1, <2>2, <4>1, <5>1
        <5>2. CASE k \in 1..n
          BY <2>1, <4>1, <5>2
        <5> QED BY <2>1, <5>1, <5>2
      <4> QED BY <2>1, <4>1, <4>2
    <3> QED BY <2>1, <3>2, <3>3
  <2> QED BY <2>5
<1> QED BY <1>3, <1>4, ThreadOrCall DEF NoCall

\* A connection whose place is not touched.
ReachedOf(c) ==
  Working(c) =>
    /\ \A n \in 1..Reached(c) : Shown(<<InHand(c), n>>)
    /\ \A i \in DOMAIN thread : thread[i][1] = InHand(c) => thread[i][2] <= Reached(c)

LEMMA ReachedStep ==
  ASSUME TypeOK, CutInv, ReachedInv, LateInv, [Next]_vars PROVE ReachedInv'
<1>0. /\ pc = [x \in Conn |-> pc[x]] /\ frame = [x \in Conn |-> frame[x]]
      /\ next = [x \in Conn |-> next[x]] /\ (\A x \in Conn : next[x] \in Nat \ {0})
      /\ (\A x \in Conn : ReachedOf(x)) /\ thread \in Seq(Call)
  BY DEF TypeOK, ReachedInv, ReachedOf
<1>1. \A x \in Conn : InHand(x)[1] = x
  BY DEF InHand
<1>2. ASSUME NEW x \in Conn, InHand(x)' = InHand(x), Working(x)' => Working(x) /\ Reached(x)' = Reached(x),
             thread' = thread \/ \E p : Grown(p) /\ (Working(x) => p[1] # InHand(x))
      PROVE  ReachedOf(x)'
  <2>1. CASE thread' = thread
    BY <1>0, <1>2, <2>1 DEF ReachedOf, Shown
  <2>2. ASSUME NEW p, Grown(p), Working(x) => p[1] # InHand(x) PROVE ReachedOf(x)'
    <3> SUFFICES ASSUME Working(x)'
                 PROVE  /\ \A n \in 1..Reached(x)' : Shown(<<InHand(x), n>>)'
                        /\ \A i \in DOMAIN thread' : thread'[i][1] = InHand(x)' => thread'[i][2] <= Reached(x)'
      BY DEF ReachedOf
    <3>1. /\ \A n \in 1..Reached(x) : Shown(<<InHand(x), n>>)
          /\ \A i \in DOMAIN thread : thread[i][1] = InHand(x) => thread[i][2] <= Reached(x)
      BY <1>0, <1>2 DEF ReachedOf
    <3>2. \A q : Shown(q) => Shown(q)'
      BY <2>2 DEF Grown
    <3>3. \A i \in DOMAIN thread' : (i \in DOMAIN thread /\ thread'[i] = thread[i]) \/ thread'[i] = p
      BY <2>2 DEF Grown
    <3>4. \A n \in 1..Reached(x)' : Shown(<<InHand(x), n>>)'
      BY <1>2, <3>1, <3>2
    <3>5. \A i \in DOMAIN thread' : thread'[i][1] = InHand(x) => thread'[i][2] <= Reached(x)'
      BY <1>2, <2>2, <3>1, <3>3
    <3> QED BY <1>2, <3>4, <3>5
  <2> QED BY <1>2, <2>1, <2>2
<1>3. ASSUME NEW c \in Conn, Drops(c) PROVE ReachedInv'
  <2>1. /\ pc[c] = "idle" /\ frame' = [frame EXCEPT ![c] = frame[c] + 1]
        /\ UNCHANGED <<pc, next, thread>>
    BY <1>3 DEF Drops, slackVars
  <2>2. \A x \in Conn : Working(x)' => x # c
    BY <2>1 DEF Working
  <2>3. \A x \in Conn : Working(x)' => InHand(x)' = InHand(x) /\ Working(x) /\ Reached(x)' = Reached(x)
    BY <1>0, <2>1, <2>2 DEF Working, Reached, InHand
  <2>4. \A x \in Conn : ReachedOf(x)'
    BY <1>2, <2>1, <2>3 DEF ReachedOf
  <2> QED BY <2>4 DEF ReachedInv, ReachedOf
<1>4. ASSUME NEW c \in Conn, NEW k, NEW t, TakesUp(c, k, t) PROVE ReachedInv'
  <2>0. PICK f : f = <<c, frame[c] + 1>>
    OBVIOUS
  <2>1. /\ f \notin DOMAIN text /\ frame' = [frame EXCEPT ![c] = frame[c] + 1]
        /\ pc' = [pc EXCEPT ![c] = "cutting"] /\ next' = [next EXCEPT ![c] = 1] /\ thread' = thread
    BY <1>4, <2>0 DEF TakesUp, slackVars
  <2>2. InHand(c)' = f
    BY <1>0, <2>0, <2>1 DEF InHand
  <2>3. \A i \in DOMAIN thread : thread[i][1] # f
    BY <1>0, <2>1 DEF Call
  <2>4. Reached(c)' = 0
    BY <1>0, <2>1 DEF Reached
  <2>5. ReachedOf(c)'
    BY <2>1, <2>2, <2>3, <2>4 DEF ReachedOf
  <2>6. \A x \in Conn : x # c => InHand(x)' = InHand(x) /\ pc'[x] = pc[x] /\ next'[x] = next[x]
    BY <1>0, <2>1 DEF InHand
  <2>7. \A x \in Conn : x # c => ReachedOf(x)'
    BY <1>2, <2>1, <2>6 DEF Working, Reached
  <2> QED BY <2>5, <2>7 DEF ReachedInv, ReachedOf
<1>5. ASSUME NEW c \in Conn, CutFact(c) PROVE ReachedInv'
  <2>1. /\ pc[c] = "cutting" /\ next[c] = 1 /\ UNCHANGED <<frame, next, thread>>
        /\ pc' = pc \/ pc' = [pc EXCEPT ![c] = "posting"]
    BY <1>5 DEF CutFact, Adds, slackVars
  <2>2. \A x \in Conn : InHand(x)' = InHand(x) /\ (Working(x)' => Working(x)) /\ Reached(x)' = Reached(x)
    BY <1>0, <2>1 DEF InHand, Working, Reached
  <2> QED BY <1>2, <2>1, <2>2 DEF ReachedInv, ReachedOf
<1>6. ASSUME NEW c \in Conn, PostedFacts(c) PROVE ReachedInv'
  <2>0. PICK p : p = Post(c)
    OBVIOUS
  <2>1. /\ pc[c] = "posting" /\ pc' = [pc EXCEPT ![c] = "posted"] /\ UNCHANGED <<frame, next>>
        /\ Grown(p) /\ p = <<InHand(c), next[c]>>
    BY <1>6, <2>0 DEF PostedFacts, ACall, Post
  <2>2. \A x \in Conn : InHand(x)' = InHand(x)
    BY <2>1 DEF InHand
  <2>3. \A x \in Conn : x # c => p[1] # InHand(x) /\ pc'[x] = pc[x] /\ Working(x)' = Working(x) /\ Reached(x)' = Reached(x)
    BY <1>0, <1>1, <2>1 DEF Working, Reached
  <2>4. \A x \in Conn : x # c => ReachedOf(x)'
    BY <1>2, <2>1, <2>2, <2>3
  <2>5. Working(c) /\ Reached(c) = next[c] - 1 /\ Reached(c)' = next[c]
    BY <1>0, <2>1 DEF Working, Reached
  <2>6. \A n \in 1..next[c] : Shown(<<InHand(c), n>>)'
    <3> SUFFICES ASSUME NEW n \in 1..next[c] PROVE Shown(<<InHand(c), n>>)'
      OBVIOUS
    <3>1. n = next[c] \/ n \in 1..(next[c] - 1)
      BY <1>0
    <3>2. n = next[c] \/ Shown(<<InHand(c), n>>)
      BY <1>0, <2>5, <3>1 DEF ReachedOf
    <3>3. PICK q : q = <<InHand(c), n>>
      OBVIOUS
    <3>4. Shown(q)'
      BY <2>1, <3>2, <3>3 DEF Grown
    <3> QED BY <2>2, <3>3, <3>4
  <2>7. \A i \in DOMAIN thread' : thread'[i][1] = InHand(c) => thread'[i][2] <= next[c]
    <3>1. \A i \in DOMAIN thread : thread[i][1] = InHand(c) => thread[i][2] <= next[c] - 1
      BY <1>0, <2>5 DEF ReachedOf
    <3>2. \A i \in DOMAIN thread : thread[i][2] \in Nat
      BY <1>0 DEF Call
    <3>3. \A i \in DOMAIN thread : thread[i][1] = InHand(c) => thread[i][2] <= next[c]
      BY <1>0, <3>1, <3>2
    <3>4. \A i \in DOMAIN thread' : (i \in DOMAIN thread /\ thread'[i] = thread[i]) \/ thread'[i] = p
      BY <2>1 DEF Grown
    <3>5. p[2] <= next[c]
      BY <1>0, <2>1
    <3> QED BY <3>3, <3>4, <3>5
  <2>8. ReachedOf(c)'
    BY <2>2, <2>5, <2>6, <2>7 DEF ReachedOf
  <2> QED BY <2>4, <2>8 DEF ReachedInv, ReachedOf
<1>7. ASSUME NEW c \in Conn, AnsweredFacts(c) PROVE ReachedInv'
  <2>1. \A x \in Conn : InHand(x)' = InHand(x)
    BY <1>7 DEF AnsweredFacts, InHand
  <2>2. \A x \in Conn : Working(x)' => Working(x) /\ Reached(x)' = Reached(x)
    BY <1>0, <1>7 DEF AnsweredFacts, Working, Reached
  <2> QED BY <1>2, <1>7, <2>1, <2>2 DEF AnsweredFacts, ReachedInv, ReachedOf
<1>8. ASSUME NEW c \in Conn, FailsFacts(c) \/ ForgetFacts(c) PROVE ReachedInv'
  <2>1. /\ UNCHANGED <<frame, next, thread>>
        /\ pc' = [pc EXCEPT ![c] = "idle"] \/ pc' = [pc EXCEPT ![c] = "forgetting"]
    BY <1>8 DEF FailsFacts, ForgetFacts, AfterFailure
  <2>2. \A x \in Conn : InHand(x)' = InHand(x)
    BY <2>1 DEF InHand
  <2>3. \A x \in Conn : Working(x)' => Working(x) /\ Reached(x)' = Reached(x)
    BY <1>0, <2>1 DEF Working, Reached
  <2> QED BY <1>2, <2>1, <2>2, <2>3 DEF ReachedInv, ReachedOf
<1>9. ASSUME NEW p \in flying, LateFacts(p) PROVE ReachedInv'
  <2>1. /\ UNCHANGED <<pc, frame, next>> /\ Grown(p) /\ p \in late
    BY <1>9 DEF LateFacts, ACall, TypeOK
  <2>2. \A x \in Conn : InHand(x)' = InHand(x) /\ Working(x)' = Working(x) /\ Reached(x)' = Reached(x)
    BY <2>1 DEF InHand, Working, Reached
  <2>3. \A x \in Conn : Working(x) => p[1] # InHand(x)
    BY <1>1, <2>1 DEF LateInv
  <2> QED BY <1>2, <2>1, <2>2, <2>3 DEF ReachedInv, ReachedOf
<1>10. CASE UNCHANGED vars
  <2>1. UNCHANGED <<pc, frame, next, thread>>
    BY <1>10 DEF vars, slackVars
  <2> QED BY <2>1 DEF ReachedInv, Working, Reached, InHand, Shown
<1> QED BY <1>3, <1>4, <1>5, <1>6, <1>7, <1>8, <1>9, <1>10, StepFacts

LEMMA LateStep ==
  ASSUME TypeOK, CutInv, ReachedInv, LateInv, [Next]_vars PROVE LateInv'
<1>0. /\ pc = [x \in Conn |-> pc[x]] /\ frame = [x \in Conn |-> frame[x]]
      /\ thread \in Seq(Call) /\ flying \subseteq late /\ late \subseteq Call
      /\ DOMAIN text \subseteq Frame
  BY DEF TypeOK
<1>1. /\ \A p \in late : p[2] \in DOMAIN pieces[p[1]]
      /\ \A p \in late : p[1] = InHand(p[1][1]) => ~Working(p[1][1])
      /\ \A p \in late, i \in DOMAIN thread : thread[i][1] = p[1] => thread[i][2] <= p[2]
      /\ \A p \in late, q \in flying : q[1] = p[1] => q[2] <= p[2]
      /\ \A p \in flying : ~Shown(p) /\ \A n \in 1..(p[2] - 1) : Shown(<<p[1], n>>)
  BY DEF LateInv
<1>2. \A p \in late : p[1] \in DOMAIN text /\ p[1][1] \in Conn /\ p[2] \in Nat \ {0}
  BY <1>0 DEF Call, Frame
\* A step that gives up no call and makes none.
<1>3. ASSUME UNCHANGED <<late, flying, thread>>, PiecesGrow,
             \A x \in Conn : Working(x)' =>
               \/ InHand(x)' \notin DOMAIN text
               \/ Working(x) /\ InHand(x)' = InHand(x)
      PROVE  LateInv'
  <2>1. \A p \in late' : p[2] \in DOMAIN pieces'[p[1]]
    BY <1>1, <1>2, <1>3 DEF PiecesGrow
  <2>2. \A p \in late' : p[1] = InHand(p[1][1])' => ~Working(p[1][1])'
    BY <1>1, <1>2, <1>3
  <2>3. \A q : Shown(q)' <=> Shown(q)
    BY <1>3 DEF Shown
  <2>4. \A p \in flying' : ~Shown(p)' /\ \A n \in 1..(p[2] - 1) : Shown(<<p[1], n>>)'
    BY <1>1, <1>3, <2>3
  <2> QED BY <1>1, <1>3, <2>1, <2>2, <2>4 DEF LateInv
\* A call that is made.
<1>4. ASSUME NEW p, ACall(p), flying' = flying \ {p},
             \A x \in Conn : Working(x)' => Working(x)
      PROVE  LateInv'
  <2>1. /\ MayCome(p) /\ UNCHANGED <<text, pieces, late, frame>>
        /\ \A i \in DOMAIN thread' : (i \in DOMAIN thread /\ thread'[i] = thread[i]) \/ thread'[i] = p
        /\ \A q : Shown(q)' <=> Shown(q) \/ q = p
    BY <1>4 DEF ACall, Grown
  <2>2. \A x \in Conn : InHand(x)' = InHand(x)
    BY <2>1 DEF InHand
  <2>3. \A q \in late' : q[2] \in DOMAIN pieces'[q[1]]
    BY <1>1, <2>1
  <2>4. \A q \in late' : q[1] = InHand(q[1][1])' => ~Working(q[1][1])'
    BY <1>1, <1>2, <1>4, <2>1, <2>2
  <2>5. \A q \in late', i \in DOMAIN thread' : thread'[i][1] = q[1] => thread'[i][2] <= q[2]
    BY <1>1, <2>1 DEF MayCome
  <2>6. \A q \in late', r \in flying' : r[1] = q[1] => r[2] <= q[2]
    BY <1>1, <1>4, <2>1
  <2>7. \A q \in flying' : ~Shown(q)' /\ \A n \in 1..(q[2] - 1) : Shown(<<q[1], n>>)'
    BY <1>1, <1>4, <2>1
  <2> QED BY <2>3, <2>4, <2>5, <2>6, <2>7 DEF LateInv
<1>5. ASSUME NEW c \in Conn, Drops(c) PROVE LateInv'
  <2>1. /\ pc[c] = "idle" /\ frame' = [frame EXCEPT ![c] = frame[c] + 1]
        /\ UNCHANGED <<pc, text, pieces, late, flying, thread>>
    BY <1>5 DEF Drops, slackVars
  <2>2. \A x \in Conn : Working(x)' => Working(x) /\ InHand(x)' = InHand(x)
    BY <1>0, <2>1 DEF Working, InHand
  <2> QED BY <1>3, <2>1, <2>2 DEF PiecesGrow
<1>6. ASSUME NEW c \in Conn, NEW k, NEW t, TakesUp(c, k, t) PROVE LateInv'
  <2>0. PICK f : f = <<c, frame[c] + 1>>
    OBVIOUS
  <2>1. /\ f \notin DOMAIN text /\ frame' = [frame EXCEPT ![c] = frame[c] + 1]
        /\ pc' = [pc EXCEPT ![c] = "cutting"] /\ UNCHANGED <<late, flying, thread>>
        /\ DOMAIN text' = DOMAIN text \cup {f} /\ \A x \in DOMAIN text : pieces'[x] = pieces[x]
    BY <1>6, <2>0 DEF TakesUp, slackVars
  <2>2. InHand(c)' = f
    BY <1>0, <2>0, <2>1 DEF InHand
  <2>3. \A x \in Conn : x # c => InHand(x)' = InHand(x) /\ (Working(x)' => Working(x))
    BY <1>0, <2>1 DEF InHand, Working
  <2> QED BY <1>3, <2>1, <2>2, <2>3 DEF PiecesGrow
<1>7. ASSUME NEW c \in Conn, CutFact(c) PROVE LateInv'
  <2>1. /\ pc[c] = "cutting" /\ UNCHANGED <<frame, thread, late, flying>> /\ PiecesGrow
        /\ pc' = pc \/ pc' = [pc EXCEPT ![c] = "posting"]
    BY <1>7, AddsFacts DEF CutFact, Adds, slackVars
  <2>2. \A x \in Conn : InHand(x)' = InHand(x) /\ (Working(x)' => Working(x))
    BY <1>0, <2>1 DEF InHand, Working
  <2> QED BY <1>3, <2>1, <2>2
<1>8. ASSUME NEW c \in Conn, PostedFacts(c) PROVE LateInv'
  <2>0. PICK p : p = Post(c)
    OBVIOUS
  <2>1. pc[c] = "posting" /\ pc' = [pc EXCEPT ![c] = "posted"] /\ ACall(p) /\ flying' = flying
    BY <1>8, <2>0 DEF PostedFacts
  <2>2. p \notin flying
    BY <1>0, <2>0, <2>1, PostMayCome DEF Post
  <2>3. flying' = flying \ {p}
    BY <2>1, <2>2
  <2>4. \A x \in Conn : Working(x)' => Working(x)
    BY <1>0, <2>1 DEF Working
  <2> QED BY <1>4, <2>1, <2>3, <2>4
<1>9. ASSUME NEW c \in Conn, AnsweredFacts(c) \/ ForgetFacts(c) PROVE LateInv'
  <2>1. UNCHANGED <<text, pieces, frame, thread, late, flying>>
    BY <1>9 DEF AnsweredFacts, ForgetFacts
  <2>2. \A x \in Conn : Working(x)' => Working(x)
    BY <1>0, <1>9 DEF AnsweredFacts, ForgetFacts, Working
  <2>3. \A x \in Conn : InHand(x)' = InHand(x)
    BY <2>1 DEF InHand
  <2> QED BY <1>3, <2>1, <2>2, <2>3 DEF PiecesGrow
<1>10. ASSUME NEW c \in Conn, FailsFacts(c) PROVE LateInv'
  <2>1. /\ pc[c] \in {"posting", "posted"} /\ UNCHANGED <<text, pieces, frame, thread>>
        /\ pc' = [pc EXCEPT ![c] = "idle"] \/ pc' = [pc EXCEPT ![c] = "forgetting"]
    BY <1>10 DEF FailsFacts, AfterFailure
  <2>2. \A x \in Conn : InHand(x)' = InHand(x) /\ (Working(x)' => Working(x) /\ x # c)
    BY <1>0, <2>1 DEF InHand, Working
  <2>3. CASE UNCHANGED <<flying, late>>
    BY <1>3, <2>1, <2>2, <2>3 DEF PiecesGrow
  <2>4. CASE pc[c] = "posting" /\ flying' = flying \cup {Post(c)} /\ late' = late \cup {Post(c)}
    <3>0. PICK f, p : f = InHand(c) /\ p = Post(c)
      OBVIOUS
    <3>1. MayCome(p) /\ \A q \in late : q[1] # f
      BY <2>4, <3>0, PostMayCome
    <3>2. /\ p[1] = f /\ f[1] = c /\ p[2] \in DOMAIN pieces[f] /\ p[2] \in Nat /\ p \in Call
          /\ late' = late \cup {p} /\ flying' = flying \cup {p}
      BY <2>4, <3>0, <3>1 DEF Post, InHand, MayCome, Call
    <3>3. \A q \in late' : q[2] \in DOMAIN pieces'[q[1]]
      BY <1>1, <2>1, <3>2
    <3>4. \A q \in late' : q[1] = InHand(q[1][1])' => ~Working(q[1][1])'
      BY <1>1, <1>2, <2>2, <3>2
    <3>5. \A q \in late', i \in DOMAIN thread' : thread'[i][1] = q[1] => thread'[i][2] <= q[2]
      <4>1. \A i \in DOMAIN thread : thread[i][2] \in Nat
        BY <1>0 DEF Call
      <4>2. \A i \in DOMAIN thread : thread[i][1] = p[1] => thread[i][2] <= p[2]
        BY <3>1, <3>2, <4>1 DEF MayCome
      <4> QED BY <1>1, <2>1, <3>2, <4>2
    <3>6. \A q \in late', r \in flying' : r[1] = q[1] => r[2] <= q[2]
      BY <1>0, <1>1, <3>1, <3>2
    <3>7. \A q : Shown(q)' <=> Shown(q)
      BY <2>1 DEF Shown
    <3>8. \A q \in flying' : ~Shown(q)' /\ \A n \in 1..(q[2] - 1) : Shown(<<q[1], n>>)'
      BY <1>1, <3>1, <3>2, <3>7 DEF MayCome
    <3> QED BY <3>3, <3>4, <3>5, <3>6, <3>8 DEF LateInv
  <2> QED BY <1>10, <2>3, <2>4 DEF FailsFacts
<1>11. ASSUME NEW p \in flying, LateFacts(p) PROVE LateInv'
  BY <1>4, <1>11 DEF LateFacts, Working
<1>12. CASE UNCHANGED vars
  <2>1. UNCHANGED <<pc, text, pieces, frame, thread, late, flying>>
    BY <1>12 DEF vars, frameVars, slackVars
  <2> QED BY <1>3, <2>1 DEF PiecesGrow, Working, InHand
<1> QED BY <1>5, <1>6, <1>7, <1>8, <1>9, <1>10, <1>11, <1>12, StepFacts

AskOf(f) ==
  /\ kind[f] = "prompt"
  /\ f # InHand(f[1]) \/ pc[f[1]] = "idle" => \A n \in DOMAIN pieces[f] : Shown(<<f, n>>)

LEMMA AskStep ==
  ASSUME TypeOK, CutInv, ReachedInv, LateInv, AskInv, [Next]_vars PROVE AskInv'
<1>0. /\ pc = [x \in Conn |-> pc[x]] /\ frame = [x \in Conn |-> frame[x]]
      /\ DOMAIN text \subseteq Frame /\ pending \subseteq DOMAIN text
      /\ DOMAIN kind = DOMAIN text /\ DOMAIN pieces = DOMAIN text
  BY DEF TypeOK
<1>1. \A f \in pending : AskOf(f) /\ f \in DOMAIN text /\ f[1] \in Conn
  BY <1>0 DEF AskInv, AskOf, Frame
<1>2. \A x \in Conn : InHand(x)[1] = x
  BY DEF InHand
\* What the thread shows of a prompt is not taken back.
<1>3. ASSUME NEW f, AskOf(f), kind'[f] = kind[f], pieces'[f] = pieces[f],
             f # InHand(f[1])' \/ pc'[f[1]] = "idle" => f # InHand(f[1]) \/ pc[f[1]] = "idle",
             \A q : Shown(q) => Shown(q)'
      PROVE  AskOf(f)'
  BY <1>3 DEF AskOf
<1>4. ASSUME NEW c \in Conn, Drops(c) PROVE AskInv'
  <2>1. /\ pc[c] = "idle" /\ frame' = [frame EXCEPT ![c] = frame[c] + 1]
        /\ UNCHANGED <<pc, text, kind, pieces, thread, pending>>
    BY <1>4 DEF Drops, slackVars
  <2>2. \A x \in Conn : pc[x] = "idle" \/ InHand(x)' = InHand(x)
    BY <1>0, <2>1 DEF InHand
  <2>3. \A q : Shown(q) => Shown(q)'
    BY <2>1 DEF Shown
  <2>4. ASSUME NEW f \in pending PROVE AskOf(f)'
    <3>1. pc[f[1]] = "idle" \/ InHand(f[1])' = InHand(f[1])
      BY <1>1, <2>2
    <3> QED BY <1>1, <1>3, <2>1, <2>3, <3>1
  <2> QED BY <2>1, <2>4 DEF AskInv, AskOf
<1>5. ASSUME NEW c \in Conn, NEW k, NEW t, TakesUp(c, k, t) PROVE AskInv'
  <2>0. PICK f : f = <<c, frame[c] + 1>>
    OBVIOUS
  <2>1. /\ f \notin DOMAIN text /\ f[1] = c /\ frame' = [frame EXCEPT ![c] = frame[c] + 1]
        /\ pc[c] = "idle" /\ pc' = [pc EXCEPT ![c] = "cutting"] /\ thread' = thread
        /\ kind'[f] = k /\ \A x \in DOMAIN text : pieces'[x] = pieces[x] /\ kind'[x] = kind[x]
        /\ pending' = IF k = "prompt" THEN pending \cup {f} ELSE pending
    BY <1>5, <2>0 DEF TakesUp, slackVars
  <2>2. InHand(c)' = f /\ pc'[c] # "idle"
    BY <1>0, <2>0, <2>1 DEF InHand
  <2>3. \A x \in Conn : x # c => InHand(x)' = InHand(x) /\ pc'[x] = pc[x]
    BY <1>0, <2>1 DEF InHand
  <2>4. \A q : Shown(q) => Shown(q)'
    BY <2>1 DEF Shown
  <2>5. ASSUME NEW x \in pending PROVE AskOf(x)'
    <3>1. CASE x[1] = c
      BY <1>1, <1>3, <2>1, <2>4, <3>1
    <3>2. CASE x[1] # c
      <4>1. InHand(x[1])' = InHand(x[1]) /\ pc'[x[1]] = pc[x[1]]
        BY <1>1, <2>3, <3>2
      <4> QED BY <1>1, <1>3, <2>1, <2>4, <4>1
    <3> QED BY <3>1, <3>2
  <2>6. k = "prompt" => AskOf(f)'
    BY <2>1, <2>2 DEF AskOf
  <2> QED BY <2>1, <2>5, <2>6 DEF AskInv, AskOf
<1>6. ASSUME NEW c \in Conn, CutFact(c) PROVE AskInv'
  <2>0. PICK h : h = InHand(c)
    OBVIOUS
  <2>1. /\ pc[c] = "cutting" /\ UNCHANGED <<frame, text, kind, thread, pending>>
        /\ \A x \in DOMAIN text : x # h => pieces'[x] = pieces[x]
        /\ pc' = pc \/ pc' = [pc EXCEPT ![c] = "posting"]
    BY <1>6, <2>0, AddsFacts DEF CutFact, Adds, slackVars
  <2>2. \A x \in Conn : InHand(x)' = InHand(x) /\ (pc'[x] = "idle" => pc[x] = "idle") /\ pc'[c] # "idle"
    BY <1>0, <2>1 DEF InHand
  <2>3. \A q : Shown(q) => Shown(q)'
    BY <2>1 DEF Shown
  <2>4. ASSUME NEW f \in pending PROVE AskOf(f)'
    <3>0. InHand(f[1])' = InHand(f[1]) /\ (pc'[f[1]] = "idle" => pc[f[1]] = "idle")
      BY <1>1, <2>2
    <3>1. CASE f = h
      <4>1. f[1] = c /\ f = InHand(f[1])
        BY <1>2, <2>0, <3>1
      <4>2. kind'[f] = "prompt" /\ f = InHand(f[1])' /\ pc'[f[1]] # "idle"
        BY <1>1, <2>1, <2>2, <3>0, <4>1 DEF AskOf
      <4> QED BY <4>2 DEF AskOf
    <3>2. CASE f # h
      BY <1>1, <1>3, <2>1, <2>3, <3>0, <3>2
    <3> QED BY <3>1, <3>2
  <2> QED BY <2>1, <2>4 DEF AskInv, AskOf
\* The steps that change no piece, and put the connection in no idle place.
<1>7. ASSUME UNCHANGED <<frame, kind, pieces, pending>>, \A q : Shown(q) => Shown(q)',
             \A x \in Conn : pc'[x] = "idle" => pc[x] = "idle" \/ InHand(x) \notin pending
      PROVE  AskInv'
  <2>1. \A x \in Conn : InHand(x)' = InHand(x)
    BY <1>7 DEF InHand
  <2>2. ASSUME NEW f \in pending PROVE AskOf(f)'
    <3>1. InHand(f[1])' = InHand(f[1]) /\ (pc'[f[1]] = "idle" => pc[f[1]] = "idle" \/ InHand(f[1]) \notin pending)
      BY <1>1, <1>7, <2>1
    <3> QED BY <1>1, <1>3, <1>7, <3>1
  <2> QED BY <1>7, <2>2 DEF AskInv, AskOf
<1>8. ASSUME NEW c \in Conn, PostedFacts(c) PROVE AskInv'
  <2>1. /\ UNCHANGED <<frame, kind, pieces, pending>> /\ Grown(Post(c))
        /\ pc' = [pc EXCEPT ![c] = "posted"]
    BY <1>8 DEF PostedFacts, ACall
  <2>2. \A q : Shown(q) => Shown(q)'
    BY <2>1 DEF Grown
  <2> QED BY <1>0, <1>7, <2>1, <2>2
<1>9. ASSUME NEW c \in Conn, AnsweredFacts(c) PROVE AskInv'
  <2>1. pc[c] = "posted" /\ UNCHANGED <<text, kind, pieces, thread, frame, pending>>
    BY <1>9 DEF AnsweredFacts
  <2>2. \A q : Shown(q) <=> Shown(q)'
    BY <2>1 DEF Shown
  <2>3. CASE pc' = [pc EXCEPT ![c] = "posting"]
    BY <1>0, <1>7, <2>1, <2>2, <2>3
  <2>4. CASE pc' = [pc EXCEPT ![c] = "idle"] /\ next' = next /\ ~More(c)
    <3>0. PICK h : h = InHand(c)
      OBVIOUS
    <3>1. \A n \in 1..next[c] : Shown(<<h, n>>)
      BY <2>1, <3>0 DEF ReachedInv, Reached, Working
    <3>2. pieces[h] \in Seq(Piece) /\ next[c] \in Nat /\ Len(pieces[h]) <= next[c]
      BY <2>1, <2>4, <3>0, InHandFacts DEF More, Active
    <3>3. \A n \in DOMAIN pieces[h] : n \in 1..next[c]
      BY <3>2
    <3>4. \A n \in DOMAIN pieces[h] : Shown(<<h, n>>)
      BY <3>1, <3>3
    <3>5. \A x \in Conn : InHand(x)' = InHand(x) /\ (pc'[x] = "idle" => pc[x] = "idle" \/ x = c)
      BY <1>0, <2>1, <2>4 DEF InHand
    <3>6. ASSUME NEW f \in pending PROVE AskOf(f)'
      <4>1. CASE f = h
        BY <1>1, <2>1, <2>2, <3>4, <4>1 DEF AskOf
      <4>2. CASE f # h
        <5>1. InHand(f[1])' = InHand(f[1]) /\ (pc'[f[1]] = "idle" => pc[f[1]] = "idle" \/ f[1] = c)
          BY <1>1, <3>5
        <5>2. f[1] = c => f # InHand(f[1])
          BY <3>0, <4>2
        <5> QED BY <1>1, <1>3, <2>1, <2>2, <5>1, <5>2
      <4> QED BY <4>1, <4>2
    <3> QED BY <2>1, <3>6 DEF AskInv, AskOf
  <2> QED BY <1>9, <2>3, <2>4 DEF AnsweredFacts
<1>10. ASSUME NEW c \in Conn, FailsFacts(c) PROVE AskInv'
  <2>1. UNCHANGED <<text, kind, pieces, thread, frame, pending>> /\ pc' = [pc EXCEPT ![c] = AfterFailure(c)]
    BY <1>10 DEF FailsFacts
  <2>2. \A q : Shown(q) => Shown(q)'
    BY <2>1 DEF Shown
  <2>3. InHand(c) \in pending => AfterFailure(c) = "forgetting"
    BY DEF AskInv, AfterFailure
  <2> QED BY <1>0, <1>7, <2>1, <2>2, <2>3
<1>11. ASSUME NEW c \in Conn, ForgetFacts(c) PROVE AskInv'
  <2>0. PICK h : h = InHand(c)
    OBVIOUS
  <2>1. /\ UNCHANGED <<text, kind, pieces, thread, frame>> /\ pc' = [pc EXCEPT ![c] = "idle"]
        /\ pending' = pending \ {h}
    BY <1>11, <2>0 DEF ForgetFacts
  <2>2. \A q : Shown(q) => Shown(q)'
    BY <2>1 DEF Shown
  <2>3. \A x \in Conn : InHand(x)' = InHand(x) /\ (pc'[x] = "idle" => pc[x] = "idle" \/ x = c)
    BY <1>0, <2>1 DEF InHand
  <2>4. ASSUME NEW f \in pending' PROVE AskOf(f)'
    <3>1. f \in pending /\ f # h
      BY <2>1
    <3>2. InHand(f[1])' = InHand(f[1]) /\ (pc'[f[1]] = "idle" => pc[f[1]] = "idle" \/ f[1] = c)
      BY <1>1, <2>3, <3>1
    <3>3. f[1] = c => f # InHand(f[1])
      BY <2>0, <3>1
    <3> QED BY <1>1, <1>3, <2>1, <2>2, <3>1, <3>2, <3>3
  <2> QED BY <2>4 DEF AskInv, AskOf
<1>12. ASSUME NEW p \in flying, LateFacts(p) PROVE AskInv'
  <2>1. UNCHANGED <<frame, kind, pieces, pending, pc>> /\ Grown(p)
    BY <1>12 DEF LateFacts, ACall
  <2>2. \A q : Shown(q) => Shown(q)'
    BY <2>1 DEF Grown
  <2> QED BY <1>7, <2>1, <2>2
<1>13. CASE UNCHANGED vars
  <2>1. UNCHANGED <<pc, frame, kind, pieces, pending, thread>>
    BY <1>13 DEF vars, frameVars, slackVars
  <2>2. \A q : Shown(q) => Shown(q)'
    BY <2>1 DEF Shown
  <2> QED BY <1>7, <2>1, <2>2
<1> QED BY <1>4, <1>5, <1>6, <1>8, <1>9, <1>10, <1>11, <1>12, <1>13, StepFacts
-----------------------------------------------------------------------------
LEMMA InitInv == ASSUME Init PROVE IInv
<1>1. /\ pc = [c \in Conn |-> "idle"] /\ frame = [c \in Conn |-> 0] /\ DOMAIN text = {}
      /\ DOMAIN kind = {} /\ DOMAIN pieces = {} /\ pending = {} /\ thread = <<>> /\ flying = {} /\ late = {}
      /\ start = [c \in Conn |-> 0] /\ next = [c \in Conn |-> 1]
  BY DEF Init, Empty
<1>2. DOMAIN thread = {} /\ thread \in Seq(Call)
  BY <1>1
<1>3. TypeOK
  BY <1>1, <1>2 DEF TypeOK, Active
<1>4. CutInv /\ AskInv
  BY <1>1 DEF CutInv, AskInv
<1>5. ReachedInv
  BY <1>1 DEF ReachedInv, Working
<1>6. LateInv
  BY <1>1, <1>2 DEF LateInv
<1>7. ThreadShowsPrefix /\ OnlyLateIsOvertaken
  BY <1>2 DEF ThreadShowsPrefix, OnlyLateIsOvertaken
<1> QED BY <1>3, <1>4, <1>5, <1>6, <1>7 DEF IInv

\* The invariant, whatever the connections do (agent_ws.rs:94-190, permission.rs:
\* 96-143, chunk.rs:11-32).
THEOREM Inductive == Spec => []IInv
<1>1. IInv /\ [Next]_vars => IInv'
  BY TypeStep, CutStep, ReachedStep, LateStep, AskStep, PrefixStep, OvertakenStep DEF IInv
<1> QED BY <1>1, InitInv, PTL DEF Spec

\* Types of the state: every call is one of a piece of a text that was received,
\* and every text in hand is one of these (agent_ws.rs:94-190, permission.rs:96-143).
THEOREM TypeCorrect == Spec => []TypeOK
<1>1. IInv => TypeOK
  BY DEF IInv
<1> QED BY <1>1, Inductive, PTL

\* However long the text and wherever its newlines are, no character of it is
\* lost or doubled in the cutting, and no piece is too long (chunk.rs:11-32).
THEOREM PiecesAlwaysMakeTheText == Spec => []PiecesMakeTheText
<1>1. CutInv => PiecesMakeTheText
  BY DEF CutInv, CutOf, Joined, JoinUp, EndOf, PiecesMakeTheText
<1>2. IInv => PiecesMakeTheText
  BY <1>1 DEF IInv
<1> QED BY <1>2, Inductive, PTL

\* However the calls of the connections interleave, fail or come late, the thread
\* shows of each text its first pieces, in order and once (agent_ws.rs:177-186,
\* permission.rs:129-142).
THEOREM ThreadAlwaysShowsPrefix == Spec => []ThreadShowsPrefix
<1>1. IInv => ThreadShowsPrefix
  BY DEF IInv
<1> QED BY <1>1, Inductive, PTL

\* Texts of one agent change places in the thread only around a call that timed
\* out, the last of its text (agent_ws.rs:124, 177-186, api.rs:43-45).
THEOREM OnlyLateIsEverOvertaken == Spec => []OnlyLateIsOvertaken
<1>1. IInv => OnlyLateIsOvertaken
  BY DEF IInv
<1> QED BY <1>1, Inductive, PTL

\* Whenever a request is in the table and its connection has done with it, its
\* whole prompt is in the thread (permission.rs:122-143).
THEOREM QuestionIsAlwaysShown == Spec => []QuestionIsShown
<1>1. AskInv => QuestionIsShown
  BY DEF AskInv, QuestionIsShown
<1>2. IInv => QuestionIsShown
  BY <1>1 DEF IInv
<1> QED BY <1>2, Inductive, PTL
=============================================================================
