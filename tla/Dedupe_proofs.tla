--------------------------- MODULE Dedupe_proofs ---------------------------
(***************************************************************************)
(* Proofs about Dedupe for every capacity and every set of event ids.      *)
(***************************************************************************)
EXTENDS Dedupe, SequenceTheorems, TLAPS

\* How many of the accepted ids are still in the queue.
Kept == IF Len(accepted) < Capacity THEN Len(accepted) ELSE Capacity

\* The queue is the last Kept accepted ids, in the order they were accepted.
QueueIsWindow ==
  /\ Len(order) = Kept
  /\ \A i \in 1..Len(order) : order[i] = accepted[Len(accepted) - Len(order) + i]

IInv == TypeOK /\ SetMatchesQueue /\ QueueIsWindow /\ RetriesDropped

\* The length of the queue after an acceptance, and what it then holds: the
\* old queue, shifted by one place when it was full, and the new id.
LEMMA PushedQueue ==
  ASSUME TypeOK, NEW id \in EventId, Len(order) <= Capacity
  PROVE  LET q == Pushed(id)
             d == IF Overfull THEN 1 ELSE 0
         IN  /\ q \in Seq(EventId)
             /\ Len(q) = Len(order) + 1 - d
             /\ \A i \in 1..Len(q) :
                  q[i] = IF i + d = Len(order) + 1 THEN id ELSE order[i + d]
<1> DEFINE a == Append(order, id)
<1>1. /\ a \in Seq(EventId) /\ Len(a) = Len(order) + 1
      /\ \A i \in 1..Len(a) : a[i] = IF i = Len(order) + 1 THEN id ELSE order[i]
  BY DEF TypeOK
<1>2. Len(order) \in Nat
  BY DEF TypeOK
<1>3. /\ Tail(a) \in Seq(EventId) /\ Len(Tail(a)) = Len(order)
      /\ \A i \in 1..Len(order) : Tail(a)[i] = a[i + 1]
  <2>1. a # <<>>
    BY <1>1, <1>2
  <2> HIDE DEF a
  <2> QED BY <1>1, <1>2, <2>1
<1>4. CASE Overfull
  BY <1>1, <1>2, <1>3, <1>4 DEF Pushed
<1>5. CASE ~Overfull
  BY <1>1, <1>3, <1>5 DEF Pushed
<1> QED BY <1>4, <1>5

\* The parts of the invariant that do not mention the last answer.
LEMMA Frame ==
  ASSUME SetMatchesQueue, QueueIsWindow, RetriesDropped,
         order' = order, seen' = seen, accepted' = accepted
  PROVE  SetMatchesQueue' /\ QueueIsWindow' /\ RetriesDropped'
<1>1. SetMatchesQueue'
  BY DEF SetMatchesQueue
<1>2. QueueIsWindow'
  BY DEF QueueIsWindow, Kept
<1>3. RetriesDropped'
  BY DEF RetriesDropped
<1> QED BY <1>1, <1>2, <1>3

\* How the lengths of the queue and of the history relate.
LEMMA Lengths ==
  ASSUME IInv
  PROVE  /\ DOMAIN accepted = 1..Len(accepted) /\ DOMAIN order = 1..Len(order)
         /\ Len(order) \in Nat /\ Len(accepted) \in Nat /\ Len(order) <= Len(accepted)
         /\ Len(accepted) < Capacity => Len(order) = Len(accepted)
         /\ Len(accepted) >= Capacity => Len(order) = Capacity
<1>1. order \in Seq(EventId) /\ accepted \in Seq(EventId) /\ Len(order) = Kept
  BY DEF IInv, TypeOK, QueueIsWindow
<1> QED BY <1>1, CapacityAssumption DEF Kept

\* The invariant of the proof holds initially and every step keeps it.
LEMMA Inductive == Spec => []IInv
<1>1. Init => IInv
  <2> SUFFICES ASSUME Init PROVE IInv
    OBVIOUS
  <2>1. TypeOK /\ Len(order) = 0 /\ Len(accepted) = 0
    BY EmptySeq, CapacityAssumption DEF Init, TypeOK
  <2>2. DOMAIN order = 1..0 /\ DOMAIN accepted = 1..0
    BY <2>1 DEF TypeOK
  <2>3. SetMatchesQueue /\ QueueIsWindow /\ RetriesDropped
    BY CapacityAssumption, <2>1, <2>2 DEF Init, SetMatchesQueue, QueueIsWindow, Kept, RetriesDropped
  <2> QED BY <2>1, <2>3 DEF IInv
<1>2. IInv /\ [Next]_vars => IInv'
  <2> SUFFICES ASSUME IInv, [Next]_vars PROVE IInv'
    OBVIOUS
  <2> USE CapacityAssumption
  <2>1. ASSUME NEW id \in EventId, Duplicate(id) PROVE IInv'
    <3>1. answer' \in EventId \X BOOLEAN /\ order' = order /\ seen' = seen /\ accepted' = accepted
      BY <2>1 DEF Duplicate
    <3> QED BY <3>1, Frame DEF IInv, TypeOK
  <2>2. ASSUME NEW id \in EventId, Fresh(id) PROVE IInv'
    <3> DEFINE d == IF Overfull THEN 1 ELSE 0
               n == Len(order)
               m == Len(accepted)
    <3>1. /\ order' \in Seq(EventId) /\ Len(order') = n + 1 - d
          /\ \A i \in 1..Len(order') : order'[i] = IF i + d = n + 1 THEN id ELSE order[i + d]
      BY <2>2, PushedQueue DEF IInv, Fresh, TypeOK
    <3>0. /\ d \in {0, 1} /\ (Overfull => d = 1) /\ (~Overfull => d = 0)
          /\ (d = 1 <=> n + 1 > Capacity)
      BY DEF Overfull
    <3>2. /\ accepted' \in Seq(EventId) /\ Len(accepted') = m + 1
          /\ \A i \in 1..(m + 1) : accepted'[i] = IF i = m + 1 THEN id ELSE accepted[i]
      BY <2>2 DEF IInv, TypeOK, Fresh
    <3>3. n \in Nat /\ m \in Nat /\ n <= m /\ n <= Capacity
          /\ (m < Capacity => n = m) /\ (m >= Capacity => n = Capacity)
      BY DEF IInv, TypeOK, QueueIsWindow, Kept
    <3> HIDE DEF d
    <3>4. \A i \in 1..n : order[i] # id
      BY <2>2 DEF IInv, Fresh, SetMatchesQueue, TypeOK
    <3>5. TypeOK'
      <4>1. Len(order') <= Capacity
        BY <3>0, <3>1, <3>3
      <4> QED BY <2>2, <3>1, <3>2, <4>1 DEF IInv, TypeOK, Fresh, Remembered
    <3>6. QueueIsWindow'
      <4>1. Len(order') = Kept'
        BY <3>0, <3>1, <3>2, <3>3 DEF Kept
      <4>2. ASSUME NEW i \in 1..Len(order')
            PROVE  order'[i] = accepted'[Len(accepted') - Len(order') + i]
        <5>1. i \in Nat /\ i <= n + 1 - d /\ i >= 1
          BY <3>0, <3>1, <3>3
        <5>2. order'[i] = IF i + d = n + 1 THEN id ELSE order[i + d]
          BY <3>1
        <5>3. Len(accepted') - Len(order') + i = m - n + (i + d)
          BY <3>0, <3>1, <3>2, <3>3, <5>1
        <5>4. CASE i + d = n + 1
          <6>1. m - n + (i + d) = m + 1
            BY <3>3, <5>4
          <6> QED BY <3>2, <3>3, <5>2, <5>3, <5>4, <6>1
        <5>5. CASE i + d # n + 1
          <6>1. i + d \in 1..n
            BY <3>0, <3>3, <5>1, <5>5
          <6>2. order[i + d] = accepted[m - n + (i + d)]
            BY <6>1 DEF IInv, QueueIsWindow
          <6>3. m - n + (i + d) \in 1..m
            BY <3>3, <6>1
          <6>4. accepted'[m - n + (i + d)] = accepted[m - n + (i + d)]
            BY <3>2, <3>3, <6>3
          <6> QED BY <5>2, <5>3, <5>5, <6>2, <6>4
        <5> QED BY <5>4, <5>5
      <4> QED BY <4>1, <4>2 DEF QueueIsWindow
    <3>7. SetMatchesQueue'
      <4>2. \A i, j \in DOMAIN order' : order'[i] = order'[j] => i = j
        <5>1. \A i, j \in 1..n : order[i] = order[j] => i = j
          BY DEF IInv, SetMatchesQueue, TypeOK
        <5>2. SUFFICES ASSUME NEW i \in 1..Len(order'), NEW j \in 1..Len(order'),
                              order'[i] = order'[j]
                       PROVE  i = j
          BY <3>1
        <5>3. /\ i \in Nat /\ i >= 1 /\ i <= n + 1 - d
              /\ j \in Nat /\ j >= 1 /\ j <= n + 1 - d
          BY <3>0, <3>1, <3>3
        <5>4. /\ order'[i] = IF i + d = n + 1 THEN id ELSE order[i + d]
              /\ order'[j] = IF j + d = n + 1 THEN id ELSE order[j + d]
          BY <3>1
        <5>5. /\ i + d # n + 1 => i + d \in 1..n
              /\ j + d # n + 1 => j + d \in 1..n
          BY <3>0, <3>3, <5>3
        <5>6. CASE i + d # n + 1 /\ j + d # n + 1
          <6>1. order[i + d] = order[j + d]
            BY <5>2, <5>4, <5>6
          <6>2. i + d = j + d
            BY <5>1, <5>5, <5>6, <6>1
          <6> QED BY <3>0, <5>3, <6>2
        <5>7. CASE i + d = n + 1 /\ j + d # n + 1
          BY <3>4, <5>2, <5>4, <5>5, <5>7
        <5>8. CASE i + d # n + 1 /\ j + d = n + 1
          BY <3>4, <5>2, <5>4, <5>5, <5>8
        <5>9. CASE i + d = n + 1 /\ j + d = n + 1
          BY <3>0, <3>3, <5>3, <5>9
        <5> QED BY <5>6, <5>7, <5>8, <5>9
      <4>3. seen' = {order'[i] : i \in DOMAIN order'}
        <5>1. seen = {order[i] : i \in 1..n}
          BY DEF IInv, SetMatchesQueue, TypeOK
        <5>2. CASE ~Overfull
          <6>1. seen' = seen \cup {id} /\ d = 0
            BY <2>2, <3>0, <5>2 DEF Fresh, Remembered
          <6> QED BY <3>1, <3>3, <5>1, <6>1
        <5>3. CASE Overfull /\ n = 0
          <6>1. Head(Append(order, id)) = id
            BY <5>3 DEF IInv, TypeOK
          <6> QED BY <2>2, <3>0, <3>1, <5>1, <5>3, <6>1 DEF Fresh, Remembered
        <5>4. CASE Overfull /\ n > 0
          <6>1. Head(Append(order, id)) = order[1] /\ 1 \in 1..n
            BY <5>4, <3>3 DEF IInv, TypeOK
          <6>2. seen' = (seen \cup {id}) \ {order[1]} /\ d = 1 /\ Len(order') = n
            BY <2>2, <3>0, <3>1, <5>4, <6>1, <3>3 DEF Fresh, Remembered
          <6>3. \A i \in 2..n : order[i] # order[1]
            BY <6>1, <3>3 DEF IInv, SetMatchesQueue, TypeOK
          <6>4. \A e \in seen' : \E i \in 1..n : e = order'[i]
            <7> SUFFICES ASSUME NEW e \in seen' PROVE \E i \in 1..n : e = order'[i]
              OBVIOUS
            <7>1. CASE e = id
              BY <3>1, <3>3, <6>1, <6>2, <7>1
            <7>2. CASE e # id
              <8>1. PICK k \in 1..n : e = order[k]
                BY <5>1, <6>2, <7>2
              <8>2. k # 1
                BY <6>2, <8>1
              <8>3. k - 1 \in 1..n /\ order'[k - 1] = order[k]
                BY <3>1, <3>3, <6>2, <8>1, <8>2
              <8> QED BY <8>1, <8>3
            <7> QED BY <7>1, <7>2
          <6>5. \A i \in 1..n : order'[i] \in seen'
            <7> SUFFICES ASSUME NEW i \in 1..n PROVE order'[i] \in seen'
              OBVIOUS
            <7>1. CASE i = n
              BY <3>1, <3>3, <3>4, <6>1, <6>2, <7>1
            <7>2. CASE i # n
              <8>1. i + 1 \in 2..n /\ order'[i] = order[i + 1]
                BY <3>1, <3>3, <6>2, <7>2
              <8> QED BY <5>1, <6>2, <6>3, <8>1, <3>3
            <7> QED BY <7>1, <7>2
          <6> QED BY <3>1, <6>2, <6>4, <6>5
        <5> QED BY <3>3, <5>2, <5>3, <5>4
      <4> QED BY <4>2, <4>3 DEF SetMatchesQueue
    <3>8. RetriesDropped'
      <4> SUFFICES ASSUME NEW i \in 1..(m + 1), NEW j \in 1..(m + 1),
                          i < j, accepted'[i] = accepted'[j]
                   PROVE  j - i > Capacity
        BY <3>2 DEF RetriesDropped
      <4>1. CASE j <= m
        <5>1. /\ i \in 1..m /\ j \in 1..m
              /\ accepted'[i] = accepted[i] /\ accepted'[j] = accepted[j]
          BY <3>2, <3>3, <4>1
        <5>2. DOMAIN accepted = 1..m
          BY DEF IInv, TypeOK
        <5> QED BY <5>1, <5>2 DEF IInv, RetriesDropped
      <4>2. CASE j = m + 1
        <5>1. accepted[i] = id /\ i \in 1..m
          BY <3>2, <3>3, <4>2
        <5>2. ~(m - n < i)
          <6> SUFFICES ASSUME m - n < i PROVE FALSE
            OBVIOUS
          <6>1. i - (m - n) \in 1..n
            BY <3>3, <5>1
          <6>2. order[i - (m - n)] = accepted[i]
            BY <3>3, <5>1, <6>1 DEF IInv, QueueIsWindow
          <6> QED BY <3>4, <5>1, <6>1, <6>2
        <5> QED BY <3>3, <4>2, <5>1, <5>2
      <4> QED BY <4>1, <4>2, <3>3
    <3> QED BY <3>5, <3>6, <3>7, <3>8 DEF IInv
  <2>3. CASE UNCHANGED vars
    BY <2>3, Frame DEF vars, IInv, TypeOK
  <2> QED BY <2>1, <2>2, <2>3 DEF Next, FirstSeen
<1> QED BY <1>1, <1>2, PTL DEF Spec

\* The queue and the set of Dedupe always agree, whatever the capacity
\* (relay/src/slack/events.rs, first_seen).
THEOREM SetMatchesQueueAlways == Spec => []SetMatchesQueue
<1>1. IInv => SetMatchesQueue
  BY DEF IInv
<1> QED BY <1>1, Inductive, PTL

\* A retried event is accepted again only after more than Capacity others.
THEOREM RetriesDroppedAlways == Spec => []RetriesDropped
<1>1. IInv => RetriesDropped
  BY DEF IInv
<1> QED BY <1>1, Inductive, PTL

\* Dedupe implements the window of recent ids: its initial states are initial
\* states of the window, and each of its steps is a step of it or a stutter.
THEOREM WindowImplemented == Spec => ImplementsWindow
<1>1. Init => Window!Init
  BY DEF Init, Window!Init
<1>2. IInv /\ [Next]_vars => [Window!Next]_<<accepted, answer>>
  <2> SUFFICES ASSUME IInv, [Next]_vars PROVE [Window!Next]_<<accepted, answer>>
    OBVIOUS
  <2> DEFINE n == Len(order)
             m == Len(accepted)
  <2>0. /\ DOMAIN accepted = 1..m /\ n \in Nat /\ m \in Nat /\ n <= m
        /\ m < Capacity => n = m
        /\ m >= Capacity => n = Capacity
    BY Lengths
  <2>9. \A k \in 1..n : order[k] = accepted[m - n + k]
    BY DEF IInv, QueueIsWindow
  <2>1. ASSUME NEW id \in EventId, Duplicate(id) PROVE Window!Refuse(id)
    <3>1. PICK k \in 1..Len(order) : order[k] = id
      BY <2>1 DEF IInv, Duplicate, SetMatchesQueue, TypeOK
    <3> DEFINE i == m - n + k
    <3>2. i \in 1..m /\ m - i < Capacity /\ accepted[i] = id
      BY CapacityAssumption, <2>0, <2>9, <3>1
    <3>3. i \in Window!Recent(accepted) /\ accepted[i] = id
      BY <2>0, <3>2 DEF Window!Recent
    <3> QED BY <2>1, <3>3 DEF Duplicate, Window!Refuse, Window!IsRecent
  <2>2. ASSUME NEW id \in EventId, Fresh(id) PROVE Window!Accept(id)
    <3>1. ASSUME NEW i \in Window!Recent(accepted) PROVE accepted[i] # id
      <4> DEFINE k == i - (m - n)
      <4>0. i \in 1..m /\ m - i < Capacity
        BY <2>0 DEF Window!Recent
      <4>1. k \in 1..n /\ m - n + k = i
        <5> HIDE DEF n, m
        <5> QED BY CapacityAssumption, <2>0, <4>0
      <4>2. order[k] \in seen
        BY <4>1 DEF IInv, SetMatchesQueue, TypeOK
      <4>3. order[k] = accepted[i]
        BY <2>9, <4>1
      <4> QED BY <2>2, <4>2, <4>3 DEF Fresh
    <3> QED BY <2>2, <3>1 DEF Fresh, Window!Accept, Window!IsRecent
  <2> QED BY <2>1, <2>2 DEF Next, FirstSeen, vars, Window!Next
<1> QED BY <1>1, <1>2, Inductive, PTL DEF Spec, ImplementsWindow, Window!Spec, Window!vars
=============================================================================
