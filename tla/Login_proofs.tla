---------------------------- MODULE Login_proofs ----------------------------
(***************************************************************************)
(* Proofs about Login, for every number of callbacks, login states, users  *)
(* and tokens, every length of the three times, and every bound.           *)
(***************************************************************************)
EXTENDS Login, StateFile_proofs

Place == Ended \cup {"idle", "exchanging", "committing"}

\* Types, and which keys the tables of Sessions can have.
WebType ==
  /\ now \in Nat /\ undone \in BOOLEAN /\ stops \in Nat
  /\ begun \subseteq St /\ DOMAIN pending \subseteq begun
  /\ DOMAIN cookies \subseteq Callback /\ DOMAIN made \subseteq Callback
  /\ shown \subseteq Token /\ pc \in [Task -> Place]

\* A callback: the clock it read is in the past, at most one exchange away while
\* it waits for one; what it checked stays with it; a cookie is made once.
CallbackInv ==
  \A k \in Callback :
    /\ k \in DOMAIN at => at[k] \in Nat /\ at[k] <= now
    /\ pc[k] \in {"exchanging", "committing"} => k \in DOMAIN at
    /\ pc[k] = "exchanging" => now <= at[k] + HttpTimeout
    /\ pc[k] = "committing" => k \in DOMAIN claims
    /\ k \in DOMAIN claims =>
         /\ pc[k] \notin {"idle", "exchanging"}
         /\ claims[k].sub \in Admins /\ claims[k].exp \in Nat /\ claims[k].checked \in Nat
         /\ claims[k].checked < claims[k].exp + HttpTimeout
    /\ k \in DOMAIN made => pc[k] = "done" /\ k \in DOMAIN claims /\ made[k] \in Nat
    /\ k \in DOMAIN cookies =>
         /\ k \in DOMAIN made /\ cookies[k].user = claims[k].sub
         /\ cookies[k].expires \in Nat /\ cookies[k].expires <= made[k] + CookieTtl

\* A login state in use is no longer pending and is used once.
UsingInv ==
  /\ \A k \in Callback : k \in DOMAIN using =>
       pc[k] # "idle" /\ using[k] \in begun /\ using[k] \notin DOMAIN pending
  /\ LoginsOnce

\* A token request was admitted by a cookie that was in force.
TokenInv ==
  \A q \in Token : q \in DOMAIN using =>
    /\ using[q] \in DOMAIN made /\ q \in DOMAIN at /\ at[q] \in Nat
    /\ at[q] < made[using[q]] + CookieTtl

WebInv == WebType /\ CallbackInv /\ UsingInv /\ TokenInv

\* A save under way loses nobody, and a commit adds what its request asks for.
JobInv ==
  job # <<>> =>
    /\ \A u : In(u, mem.users) => In(u, job.next.users)
    /\ \A k : In(k, mem.tokens) => In(k, job.next.tokens)
    /\ job.op = "commit" =>
         /\ job.who \in Task /\ pc[job.who] = "committing" /\ result[job.who] = "none"
         /\ job.who \in Callback =>
              job.who \in DOMAIN claims /\ In(claims[job.who].sub, job.next.users)
         /\ job.who \in Token => In(job.who, job.next.tokens)

\* What was saved is in memory until the process stops.
ResultInv ==
  \A t \in Task : result[t] # "none" =>
    /\ proc = "up" /\ pc[t] \notin {"idle", "exchanging"}
    /\ result[t] = "saved" /\ t \in Callback =>
         t \in DOMAIN claims /\ In(claims[t].sub, mem.users)
    /\ result[t] = "saved" /\ t \in Token => In(t, mem.tokens)

\* Cookies are of users in memory, shown tokens are in the file.
HeldInv ==
  /\ \A k \in DOMAIN cookies : proc = "up" /\ In(claims[k].sub, mem.users)
  /\ \A q \in shown : undone \/ In(q, file.data.tokens)

LInv == IInv /\ WebInv /\ JobInv /\ ResultInv /\ HeldInv
-----------------------------------------------------------------------------
\* Requests are callbacks or token requests, not both.
LEMMA Requests ==
  /\ Callback \subseteq Task /\ Token \subseteq Task
  /\ \A k \in Callback : k \notin Token
  /\ "slack" \notin Task
BY RequestAssumption, TaskAssumption

\* The times are natural numbers.
LEMMA Times == LoginTtl \in Nat /\ CookieTtl \in Nat /\ HttpTimeout \in Nat /\ MaxTime \in Nat
BY TtlAssumption

\* Putting a value into a table.
LEMMA PutTable ==
  ASSUME NEW f, NEW k, NEW v
  PROVE  /\ DOMAIN Put(f, k, v) = DOMAIN f \cup {k}
         /\ Put(f, k, v)[k] = v
         /\ \A x \in DOMAIN f : x # k => Put(f, k, v)[x] = f[x]
BY DEF Put

\* The web part of the invariant holds at first.
LEMMA WebInitial == LoginInit => WebInv
<1> SUFFICES ASSUME LoginInit PROVE WebInv
  OBVIOUS
<1>1. DOMAIN Empty = {}
  BY DEF Empty
<1>2. WebType
  BY <1>1 DEF LoginInit, WebType, Place
<1>3. CallbackInv
  BY <1>1, Requests DEF LoginInit, CallbackInv
<1>4. UsingInv
  BY <1>1 DEF LoginInit, UsingInv, LoginsOnce
<1>5. TokenInv
  BY <1>1 DEF LoginInit, TokenInv
<1> QED BY <1>2, <1>3, <1>4, <1>5 DEF WebInv

\* It does not look at the store.
LEMMA WebUnchanged ==
  ASSUME WebInv, UNCHANGED <<clockVars, webVars>>
  PROVE  WebInv'
<1>1. UNCHANGED <<now, undone, stops, begun, pending, cookies, pc, at, using, claims, made, shown>>
  BY DEF clockVars, webVars
<1> QED BY <1>1 DEF WebInv, WebType, CallbackInv, UsingInv, LoginsOnce, TokenInv
-----------------------------------------------------------------------------
(* The web part, action by action.                                          *)

LEMMA WebTick ==
  ASSUME WebInv, Tick
  PROVE  WebInv'
<1>1. /\ now' = now + 1 /\ now \in Nat
      /\ UNCHANGED <<undone, stops, begun, pending, cookies, pc, at, using, claims, made, shown>>
      /\ \A k \in Callback : pc[k] = "exchanging" => now < at[k] + HttpTimeout
  BY DEF Tick, webVars, WebInv, WebType
<1>2. WebType'
  BY <1>1 DEF WebInv, WebType
<1>3. CallbackInv'
  BY <1>1, Times DEF WebInv, CallbackInv
<1>4. UsingInv' /\ TokenInv'
  BY <1>1 DEF WebInv, UsingInv, LoginsOnce, TokenInv
<1> QED BY <1>2, <1>3, <1>4 DEF WebInv

LEMMA WebBeginLogin ==
  ASSUME WebInv, NEW s \in St, BeginLogin(s)
  PROVE  WebInv'
<1>1. /\ begun' = begun \cup {s} /\ pending' = Put(pending, s, now + LoginTtl) /\ s \notin begun
      /\ UNCHANGED <<now, undone, stops, cookies, pc, at, using, claims, made, shown>>
  BY DEF BeginLogin, clockVars
<1>2. DOMAIN pending' = DOMAIN pending \cup {s}
  BY <1>1, PutTable
<1>3. WebType'
  BY <1>1, <1>2 DEF WebInv, WebType
<1>4. CallbackInv' /\ TokenInv'
  BY <1>1 DEF WebInv, CallbackInv, TokenInv
<1>5. UsingInv'
  BY <1>1, <1>2 DEF WebInv, UsingInv, LoginsOnce
<1> QED BY <1>3, <1>4, <1>5 DEF WebInv

\* A request that only moves to its end, or to a refusal.
LEMMA WebEnds ==
  ASSUME WebInv, NEW t \in Task, t \in Callback => t \notin DOMAIN made, Goes(t, "refused"),
         UNCHANGED <<now, undone, stops, begun, pending, cookies, at, using, claims, made, shown>>
  PROVE  WebInv'
<1>1. /\ pc \in [Task -> Place] /\ pc' = [pc EXCEPT ![t] = "refused"]
      /\ pc'[t] = "refused" /\ \A x \in Task : x # t => pc'[x] = pc[x]
  BY DEF Goes, WebInv, WebType
<1>2. WebType'
  BY <1>1 DEF WebInv, WebType, Place, Ended
<1>3. CallbackInv'
  BY <1>1, Requests DEF WebInv, CallbackInv
<1>4. UsingInv' /\ TokenInv'
  BY <1>1, Requests DEF WebInv, UsingInv, LoginsOnce, TokenInv
<1> QED BY <1>2, <1>3, <1>4 DEF WebInv

LEMMA WebTakePending ==
  ASSUME WebInv, NEW k \in Callback, NEW s \in St, TakePending(k, s)
  PROVE  WebInv'
<1>0. k \in Task /\ k \notin Token /\ now \in Nat /\ pc \in [Task -> Place] /\ pc[k] = "idle"
  BY Requests DEF WebInv, WebType, TakePending
<1>1. /\ pending' = Restrict(pending, DOMAIN pending \ {s}) /\ s \in begun
      /\ UNCHANGED <<now, undone, stops, begun, cookies, claims, made, shown>>
  BY DEF TakePending, WithoutPending, clockVars
<1>2. DOMAIN pending' = DOMAIN pending \ {s}
  BY <1>1 DEF Restrict
<1>3. k \notin DOMAIN made /\ k \notin DOMAIN using /\ k \notin DOMAIN claims /\ k \notin DOMAIN cookies
  BY <1>0 DEF WebInv, CallbackInv, UsingInv
<1>4. CASE s \in DOMAIN pending /\ Goes(k, "exchanging") /\ at' = Put(at, k, now) /\ using' = Put(using, k, s)
  <2>1. /\ DOMAIN at' = DOMAIN at \cup {k} /\ at'[k] = now
        /\ \A x \in DOMAIN at : x # k => at'[x] = at[x]
    BY <1>4 DEF Put
  <2>2. /\ DOMAIN using' = DOMAIN using \cup {k} /\ using'[k] = s
        /\ \A x \in DOMAIN using : x # k => using'[x] = using[x]
    BY <1>4 DEF Put
  <2>3. /\ pc' = [pc EXCEPT ![k] = "exchanging"] /\ pc'[k] = "exchanging"
        /\ \A x \in Task : x # k => pc'[x] = pc[x]
    BY <1>0, <1>4 DEF Goes
  <2>4. WebType'
    BY <1>0, <1>1, <1>2, <2>3 DEF WebInv, WebType, Place, Ended
  <2>5. CallbackInv'
    BY <1>0, <1>1, <1>3, <2>1, <2>3, Requests, Times DEF WebInv, CallbackInv
  <2>6. UsingInv'
    BY <1>0, <1>1, <1>2, <1>3, <1>4, <2>2, <2>3, Requests DEF WebInv, UsingInv, LoginsOnce
  <2>7. TokenInv'
    <3>1. ASSUME NEW q \in Token, q \in DOMAIN using'
          PROVE  q # k /\ q \in DOMAIN using /\ using'[q] = using[q]
      BY <1>0, <2>2, <3>1
    <3> QED BY <1>0, <1>1, <2>1, <3>1 DEF WebInv, TokenInv
  <2> QED BY <2>4, <2>5, <2>6, <2>7 DEF WebInv
<1>5. CASE Goes(k, "refused") /\ UNCHANGED <<at, using>>
  <2>1. /\ pc' = [pc EXCEPT ![k] = "refused"] /\ pc'[k] = "refused"
        /\ \A x \in Task : x # k => pc'[x] = pc[x]
    BY <1>0, <1>5 DEF Goes
  <2>2. WebType'
    BY <1>0, <1>1, <1>2, <2>1 DEF WebInv, WebType, Place, Ended
  <2>3. CallbackInv'
    BY <1>1, <1>3, <1>5, <2>1, Requests DEF WebInv, CallbackInv
  <2>4. UsingInv' /\ TokenInv'
    BY <1>1, <1>2, <1>3, <1>5, <2>1, Requests DEF WebInv, UsingInv, LoginsOnce, TokenInv
  <2> QED BY <2>2, <2>3, <2>4 DEF WebInv
<1> QED BY <1>4, <1>5 DEF TakePending

LEMMA WebExchanged ==
  ASSUME WebInv, NEW k \in Callback, NEW sub \in User, NEW exp \in 0..(MaxTime + 1),
         Exchanged(k, sub, exp)
  PROVE  WebInv'
<1>0. k \in Task /\ now \in Nat /\ pc \in [Task -> Place] /\ pc[k] = "exchanging" /\ exp \in Nat
  BY Requests, Times DEF WebInv, WebType, Exchanged
<1>1. k \notin DOMAIN made /\ k \in DOMAIN at /\ at[k] \in Nat /\ now <= at[k] + HttpTimeout
  BY <1>0 DEF WebInv, CallbackInv
<1>2. UNCHANGED <<now, undone, stops, begun, pending, cookies, at, using, made, shown>>
  BY DEF Exchanged, clockVars
<1>3. CASE Goes(k, "refused") /\ UNCHANGED claims
  BY <1>0, <1>1, <1>2, <1>3, WebEnds
<1>4. CASE /\ InForce(exp, at[k]) /\ sub \in Admins /\ Goes(k, "committing")
           /\ claims' = Put(claims, k, [sub |-> sub, exp |-> exp, checked |-> now])
  <2>1. /\ DOMAIN claims' = DOMAIN claims \cup {k}
        /\ claims'[k] = [sub |-> sub, exp |-> exp, checked |-> now]
        /\ \A x \in DOMAIN claims : x # k => claims'[x] = claims[x]
    BY <1>4 DEF Put
  <2>2. /\ claims'[k].sub = sub /\ claims'[k].exp = exp /\ claims'[k].checked = now
        /\ now < exp + HttpTimeout
    BY <1>0, <1>1, <1>4, <2>1, Times DEF InForce
  <2>3. /\ pc' = [pc EXCEPT ![k] = "committing"] /\ pc'[k] = "committing"
        /\ \A x \in Task : x # k => pc'[x] = pc[x]
    BY <1>0, <1>4 DEF Goes
  <2>4. WebType'
    BY <1>2, <2>3 DEF WebInv, WebType, Place, Ended
  <2>5. CallbackInv'
    <3>1. ASSUME NEW j \in Callback, j # k
          PROVE  /\ pc'[j] = pc[j]
                 /\ j \in DOMAIN claims' <=> j \in DOMAIN claims
                 /\ j \in DOMAIN claims => claims'[j] = claims[j]
      BY <2>1, <2>3, <3>1, Requests
    <3> QED BY <1>0, <1>1, <1>2, <1>4, <2>1, <2>2, <2>3, <3>1, Requests DEF WebInv, CallbackInv
  <2>6. UsingInv' /\ TokenInv'
    BY <1>0, <1>2, <2>3, Requests DEF WebInv, UsingInv, LoginsOnce, TokenInv
  <2> QED BY <2>4, <2>5, <2>6 DEF WebInv
<1> QED BY <1>3, <1>4 DEF Exchanged

LEMMA WebSetCookie ==
  ASSUME WebInv, NEW k \in Callback, SetCookie(k)
  PROVE  WebInv'
<1>0. k \in Task /\ now \in Nat /\ pc \in [Task -> Place] /\ pc[k] = "committing"
  BY Requests DEF WebInv, WebType, SetCookie
<1>1. /\ k \notin DOMAIN made /\ k \in DOMAIN at /\ at[k] \in Nat /\ at[k] <= now
      /\ k \in DOMAIN claims
  BY <1>0 DEF WebInv, CallbackInv
<1>2. UNCHANGED <<now, undone, stops, begun, pending, at, using, claims, shown>>
  BY DEF SetCookie, clockVars
<1>3. /\ cookies' = Put(cookies, k, [user |-> claims[k].sub, expires |-> at[k] + CookieTtl])
      /\ made' = Put(made, k, now) /\ Goes(k, "done")
  BY DEF SetCookie
<1>4. /\ DOMAIN cookies' = DOMAIN cookies \cup {k}
      /\ cookies'[k] = [user |-> claims[k].sub, expires |-> at[k] + CookieTtl]
      /\ \A x \in DOMAIN cookies : x # k => cookies'[x] = cookies[x]
  BY <1>3 DEF Put
<1>5. /\ DOMAIN made' = DOMAIN made \cup {k} /\ made'[k] = now
      /\ \A x \in DOMAIN made : x # k => made'[x] = made[x]
  BY <1>3 DEF Put
<1>6. /\ cookies'[k].user = claims[k].sub /\ cookies'[k].expires = at[k] + CookieTtl
      /\ cookies'[k].expires \in Nat /\ cookies'[k].expires <= now + CookieTtl
  BY <1>0, <1>1, <1>4, Times
<1>7. /\ pc' = [pc EXCEPT ![k] = "done"] /\ pc'[k] = "done"
      /\ \A x \in Task : x # k => pc'[x] = pc[x]
  BY <1>0, <1>3 DEF Goes
<1>8. WebType'
  BY <1>2, <1>4, <1>5, <1>7 DEF WebInv, WebType, Place, Ended
<1>9. CallbackInv'
  <2>1. ASSUME NEW j \in Callback, j # k
        PROVE  /\ pc'[j] = pc[j]
               /\ j \in DOMAIN made' <=> j \in DOMAIN made
               /\ j \in DOMAIN made => made'[j] = made[j]
               /\ j \in DOMAIN cookies' <=> j \in DOMAIN cookies
               /\ j \in DOMAIN cookies => cookies'[j] = cookies[j]
    BY <1>4, <1>5, <1>7, <2>1, Requests
  <2>2. ASSUME NEW j \in Callback PROVE CallbackInv!(j)'
    <3>1. CASE j = k
      BY <1>0, <1>1, <1>2, <1>5, <1>6, <1>7, <3>1 DEF WebInv, CallbackInv
    <3>2. CASE j # k
      BY <1>2, <2>1, <3>2 DEF WebInv, CallbackInv
    <3> QED BY <3>1, <3>2
  <2> QED BY <2>2 DEF CallbackInv
<1>10. UsingInv'
  BY <1>0, <1>2, <1>7, Requests DEF WebInv, UsingInv, LoginsOnce
<1>11. TokenInv'
  BY <1>1, <1>2, <1>5 DEF WebInv, TokenInv
<1> QED BY <1>8, <1>9, <1>10, <1>11 DEF WebInv

LEMMA WebAskToken ==
  ASSUME WebInv, NEW q \in Token, NEW c \in Callback, AskToken(q, c)
  PROVE  WebInv'
<1>0. q \in Task /\ q \notin Callback /\ now \in Nat /\ pc \in [Task -> Place]
  BY Requests DEF WebInv, WebType
<1>1. UNCHANGED <<now, undone, stops, begun, pending, cookies, claims, made, shown>>
  BY DEF AskToken, clockVars
<1>2. CASE Goes(q, "refused") /\ UNCHANGED <<at, using>>
  BY <1>0, <1>1, <1>2, WebEnds
<1>3. CASE Accepted(c) /\ Goes(q, "committing") /\ at' = Put(at, q, now) /\ using' = Put(using, q, c)
  <2>1. /\ DOMAIN at' = DOMAIN at \cup {q} /\ at'[q] = now
        /\ \A x \in DOMAIN at : x # q => at'[x] = at[x]
    BY <1>3 DEF Put
  <2>2. /\ DOMAIN using' = DOMAIN using \cup {q} /\ using'[q] = c
        /\ \A x \in DOMAIN using : x # q => using'[x] = using[x]
    BY <1>3 DEF Put
  <2>3. /\ pc' = [pc EXCEPT ![q] = "committing"]
        /\ \A x \in Task : x # q => pc'[x] = pc[x]
    BY <1>0, <1>3 DEF Goes
  <2>4. c \in DOMAIN made /\ now < made[c] + CookieTtl
    BY <1>0, <1>3, Times DEF Accepted, WebInv, CallbackInv
  <2>5. \A k \in Callback : k # q /\ k \in Task
    BY <1>0, Requests
  <2>6. WebType'
    BY <1>1, <2>3 DEF WebInv, WebType, Place, Ended
  <2>7. CallbackInv'
    <3>1. ASSUME NEW j \in Callback
          PROVE  /\ pc'[j] = pc[j]
                 /\ j \in DOMAIN at' <=> j \in DOMAIN at
                 /\ j \in DOMAIN at => at'[j] = at[j]
      BY <2>1, <2>3, <2>5
    <3> QED BY <1>1, <3>1 DEF WebInv, CallbackInv
  <2>8. UsingInv'
    <3>1. ASSUME NEW j \in Callback
          PROVE  /\ pc'[j] = pc[j]
                 /\ j \in DOMAIN using' <=> j \in DOMAIN using
                 /\ j \in DOMAIN using => using'[j] = using[j]
      BY <2>2, <2>3, <2>5
    <3> QED BY <1>1, <3>1 DEF WebInv, UsingInv, LoginsOnce
  <2>9. TokenInv'
    <3>1. ASSUME NEW r \in Token, r \in DOMAIN using' PROVE TokenInv!(r)!2'
      <4>1. CASE r = q
        BY <1>0, <1>1, <2>1, <2>2, <2>4, <4>1
      <4>2. CASE r # q
        BY <1>1, <2>1, <2>2, <3>1, <4>2 DEF WebInv, TokenInv
      <4> QED BY <4>1, <4>2
    <3> QED BY <3>1 DEF TokenInv
  <2> QED BY <2>6, <2>7, <2>8, <2>9 DEF WebInv
<1> QED BY <1>2, <1>3 DEF AskToken

LEMMA WebShowToken ==
  ASSUME WebInv, NEW q \in Token, ShowToken(q)
  PROVE  WebInv'
<1>0. q \in Task /\ q \notin Callback /\ pc \in [Task -> Place]
  BY Requests DEF WebInv, WebType
<1>1. /\ shown' = shown \cup {q}
      /\ UNCHANGED <<now, undone, stops, begun, pending, cookies, at, using, claims, made>>
  BY DEF ShowToken, clockVars
<1>2. pc' = [pc EXCEPT ![q] = "done"] /\ \A x \in Task : x # q => pc'[x] = pc[x]
  BY <1>0 DEF ShowToken, Goes
<1>3. \A k \in Callback : pc'[k] = pc[k]
  BY <1>0, <1>2, Requests
<1>4. WebType'
  BY <1>1, <1>2 DEF WebInv, WebType, Place, Ended
<1>5. CallbackInv' /\ UsingInv' /\ TokenInv'
  BY <1>1, <1>3 DEF WebInv, CallbackInv, UsingInv, LoginsOnce, TokenInv
<1> QED BY <1>4, <1>5 DEF WebInv

LEMMA WebStop ==
  ASSUME WebInv, Stop
  PROVE  WebInv'
<1>0. pc \in [Task -> Place]
  BY DEF WebInv, WebType
<1>1. /\ stops' = stops + 1 /\ undone' \in BOOLEAN /\ pending' = Empty /\ cookies' = Empty
      /\ UNCHANGED <<now, begun, at, using, claims, made, shown>>
  BY DEF Stop, WebInv, WebType
<1>2. DOMAIN pending' = {} /\ DOMAIN cookies' = {}
  BY <1>1 DEF Empty
<1>3. /\ pc' \in [Task -> Ended \cup {"idle"}]
      /\ \A t \in Task : pc'[t] = pc[t] \/ (pc'[t] = "refused" /\ pc[t] \in {"exchanging", "committing"})
  BY <1>0 DEF Stop, Place, Ended
<1>4. WebType'
  BY <1>1, <1>2, <1>3 DEF WebInv, WebType, Place
<1>5. CallbackInv'
  <2>1. ASSUME NEW k \in Callback
        PROVE  /\ pc'[k] \notin {"exchanging", "committing"}
               /\ pc'[k] = "idle" => pc[k] = "idle"
               /\ pc[k] = "done" => pc'[k] = "done"
    BY <1>3, Requests DEF Ended
  <2> QED BY <1>1, <1>2, <2>1 DEF WebInv, CallbackInv
<1>6. UsingInv'
  BY <1>1, <1>2, <1>3, Requests DEF WebInv, UsingInv, LoginsOnce
<1>7. TokenInv'
  BY <1>1 DEF WebInv, TokenInv
<1> QED BY <1>4, <1>5, <1>6, <1>7 DEF WebInv
-----------------------------------------------------------------------------
(* What is saved, and what was promised on the strength of it.              *)

\* A web step of t that changes no store: nobody else's place or claims change,
\* and t has no save under way.
LEMMA OthersKept ==
  ASSUME JobInv, ResultInv, UNCHANGED vars, NEW t \in Task,
         \A x \in Task : x # t => pc'[x] = pc[x],
         \A x \in DOMAIN claims : x # t => x \in DOMAIN claims' /\ claims'[x] = claims[x],
         job # <<>> /\ job.op = "commit" => job.who # t,
         result[t] # "none" => pc'[t] \notin {"idle", "exchanging"} /\ UNCHANGED claims
  PROVE  JobInv' /\ ResultInv'
<1>1. UNCHANGED <<proc, mem, job, result, file>>
  BY DEF vars, diskVars
<1>2. JobInv'
  BY <1>1 DEF JobInv
<1>3. ResultInv'
  BY <1>1 DEF ResultInv
<1> QED BY <1>2, <1>3

\* The saves of a commit: it begins with a store that has all of memory's users
\* and tokens, and what the request asks for.
LEMMA CommitHeld ==
  ASSUME LInv, NEW t \in Task, NEW s \in Store, Commit(t, s), pc[t] = "committing",
         UNCHANGED <<clockVars, webVars>>,
         \A u : In(u, mem.users) => In(u, s.users),
         \A k : In(k, mem.tokens) => In(k, s.tokens),
         t \in Callback => t \in DOMAIN claims /\ In(claims[t].sub, s.users),
         t \in Token => In(t, s.tokens)
  PROVE  JobInv' /\ ResultInv' /\ HeldInv'
<1>0. /\ proc = "up" /\ job = <<>> /\ UNCHANGED <<proc, mem, file>>
      /\ UNCHANGED <<pc, claims, cookies, shown, undone>>
      /\ result \in [Task -> {"none", "saved", "failed"}]
  BY DEF Commit, Locked, diskVars, clockVars, webVars, LInv, IInv, TypeOK
<1>1. HeldInv'
  BY <1>0 DEF LInv, HeldInv
<1>2. CASE s = mem /\ result' = [result EXCEPT ![t] = "saved"] /\ UNCHANGED job
  <2>1. JobInv'
    BY <1>0, <1>2 DEF JobInv
  <2>2. result'[t] = "saved" /\ \A x \in Task : x # t => result'[x] = result[x]
    BY <1>0, <1>2
  <2>3. ResultInv'
    BY <1>0, <1>2, <2>2 DEF LInv, ResultInv
  <2> QED BY <1>1, <2>1, <2>3
<1>3. CASE Saving("commit", t, s) /\ UNCHANGED result
  <2>1. job' = [op |-> "commit", who |-> t, tmp |-> "torn", next |-> s] /\ result[t] = "none"
    BY <1>3 DEF Saving, Commit
  <2>2. job'.who = t /\ job'.next = s
    BY <2>1
  <2>3. JobInv'
    BY <1>0, <1>3, <2>1, <2>2 DEF JobInv
  <2>4. ResultInv'
    BY <1>0, <1>3 DEF LInv, ResultInv
  <2> QED BY <1>1, <2>3, <2>4
<1> QED BY <1>2, <1>3 DEF Commit

\* The save goes on, and nobody is told yet.
LEMMA TmpHeld ==
  ASSUME LInv, WriteTmp \/ SyncTmp, UNCHANGED <<clockVars, webVars>>
  PROVE  JobInv' /\ ResultInv' /\ HeldInv'
<1>0. /\ job # <<>> /\ job \in Save /\ UNCHANGED <<proc, mem, result, file>>
      /\ UNCHANGED <<pc, claims, cookies, shown, undone>>
  BY SaveRecord DEF WriteTmp, SyncTmp, diskVars, clockVars, webVars, LInv
<1>1. PICK t : job' = [job EXCEPT !.tmp = t]
  BY DEF WriteTmp, SyncTmp, Tmp
<1>2. job'.op = job.op /\ job'.who = job.who /\ job'.next = job.next
  BY <1>0, <1>1 DEF Save
<1>3. JobInv'
  BY <1>0, <1>2 DEF LInv, JobInv
<1>4. ResultInv' /\ HeldInv'
  BY <1>0 DEF LInv, ResultInv, HeldInv
<1> QED BY <1>3, <1>4

\* The save succeeds.
LEMMA RenameHeld ==
  ASSUME LInv, Rename, UNCHANGED <<clockVars, webVars>>
  PROVE  JobInv' /\ ResultInv' /\ HeldInv'
<1>0. /\ job # <<>> /\ proc = "up" /\ mem \in Store
      /\ UNCHANGED <<proc, pc, claims, cookies, shown, undone>>
      /\ result \in [Task -> {"none", "saved", "failed"}]
  BY SaveRecord DEF Rename, clockVars, webVars, LInv, IInv, TypeOK
<1>1. job' = <<>> /\ mem' = job.next /\ file'.data = job.next
  BY DEF Rename, Return, Written
<1>2. /\ \A u : In(u, mem.users) => In(u, mem'.users)
      /\ \A k : In(k, mem.tokens) => In(k, mem'.tokens)
  BY <1>0, <1>1 DEF LInv, JobInv
<1>3. JobInv'
  BY <1>1 DEF JobInv
<1>5. ResultInv'
  <2>1. CASE job.op = "commit"
    <3>1. /\ job.who \in Task /\ pc[job.who] = "committing"
          /\ job.who \in Callback => job.who \in DOMAIN claims /\ In(claims[job.who].sub, mem'.users)
          /\ job.who \in Token => In(job.who, mem'.tokens)
      BY <1>0, <1>1, <2>1 DEF LInv, JobInv
    <3>2. result' = [result EXCEPT ![job.who] = "saved"]
      BY <2>1 DEF Rename, Return
    <3>3. result'[job.who] = "saved" /\ \A x \in Task : x # job.who => result'[x] = result[x]
      BY <1>0, <3>1, <3>2
    <3>4. ASSUME NEW t \in Task, result'[t] # "none" PROVE ResultInv!(t)!2'
      <4>1. CASE t = job.who
        BY <1>0, <3>1, <3>3, <4>1
      <4>2. CASE t # job.who
        <5>1. result[t] # "none" /\ result'[t] = result[t]
          BY <3>3, <3>4, <4>2
        <5> QED BY <1>0, <1>2, <5>1 DEF LInv, ResultInv
      <4> QED BY <4>1, <4>2
    <3> QED BY <3>4 DEF ResultInv
  <2>2. CASE job.op # "commit"
    <3>1. result' = result
      BY <2>2 DEF Rename, Return
    <3> QED BY <1>0, <1>2, <3>1 DEF LInv, ResultInv
  <2> QED BY <2>1, <2>2
<1>6. HeldInv'
  <2>1. mem.tokens = file.data.tokens
    BY <1>0 DEF LInv, IInv, SavedInv
  <2> QED BY <1>0, <1>1, <1>2, <2>1 DEF LInv, HeldInv
<1> QED BY <1>3, <1>5, <1>6

\* The save fails, and a commit is told so.
LEMMA FailHeld ==
  ASSUME LInv, SaveFails, UNCHANGED <<clockVars, webVars>>
  PROVE  JobInv' /\ ResultInv' /\ HeldInv'
<1>0. /\ job # <<>> /\ proc = "up" /\ job' = <<>> /\ Return("failed")
      /\ UNCHANGED <<proc, mem, file, pc, claims, cookies, shown, undone>>
      /\ result \in [Task -> {"none", "saved", "failed"}]
  BY SaveRecord DEF SaveFails, Return, Outcome, diskVars, clockVars, webVars, LInv, IInv, TypeOK
<1>1. JobInv'
  BY <1>0 DEF JobInv
<1>2. ResultInv'
  <2>1. CASE job.op = "commit"
    <3>1. job.who \in Task /\ pc[job.who] = "committing"
      BY <1>0, <2>1 DEF LInv, JobInv
    <3>2. result' = [result EXCEPT ![job.who] = "failed"]
      BY <1>0, <2>1 DEF Return
    <3>3. result'[job.who] = "failed" /\ \A x \in Task : x # job.who => result'[x] = result[x]
      BY <1>0, <3>1, <3>2
    <3> QED BY <1>0, <3>1, <3>3 DEF LInv, ResultInv
  <2>2. CASE job.op # "commit"
    <3>1. result' = result
      BY <1>0, <2>2 DEF Return
    <3> QED BY <1>0, <3>1 DEF LInv, ResultInv
  <2> QED BY <2>1, <2>2
<1>3. HeldInv'
  BY <1>0 DEF LInv, HeldInv
<1> QED BY <1>1, <1>2, <1>3

\* A bind or an unbind begins to save a store with the users and tokens of memory.
LEMMA SlackHeld ==
  ASSUME LInv, Slack, UNCHANGED <<clockVars, webVars>>
  PROVE  JobInv' /\ ResultInv' /\ HeldInv'
<1>0. mem \in Store
  BY DEF LInv, IInv, TypeOK
<1>1. PICK op \in {"bind", "unbind"}, B \in SUBSET Thread :
        mem' = [mem EXCEPT !.bindings = B] /\ Saving(op, "slack", mem')
  <2>1. ASSUME NEW b \in Thread, Bind(b)
        PROVE  \E B \in SUBSET Thread : mem' = [mem EXCEPT !.bindings = B] /\ Saving("bind", "slack", mem')
    <3>1. mem.bindings \cup {b} \in SUBSET Thread
      BY <1>0 DEF Store
    <3>2. /\ mem' = [mem EXCEPT !.bindings = mem.bindings \cup {b}]
          /\ Saving("bind", "slack", mem')
      BY <2>1 DEF Bind
    <3> QED BY <3>1, <3>2
  <2>2. ASSUME NEW u, NEW ch, Unbind(u, ch)
        PROVE  \E B \in SUBSET Thread : mem' = [mem EXCEPT !.bindings = B] /\ Saving("unbind", "slack", mem')
    <3> DEFINE B == {b \in mem.bindings : ~(b[1] = ch /\ b[2] = u)}
    <3>1. B \in SUBSET Thread
      BY <1>0 DEF Store
    <3>2. mem' = [mem EXCEPT !.bindings = B] /\ Saving("unbind", "slack", mem')
      BY <2>2 DEF Unbind
    <3> HIDE DEF B
    <3> QED BY <3>1, <3>2
  <2> QED BY <2>1, <2>2 DEF Slack
<1>2. mem'.users = mem.users /\ mem'.tokens = mem.tokens
  BY <1>0, <1>1 DEF Store
<1>3. UNCHANGED <<proc, result, file, pc, claims, cookies, shown, undone>>
  BY DEF Slack, Bind, Unbind, diskVars, clockVars, webVars
<1>4. job' = [op |-> op, who |-> "slack", tmp |-> "torn", next |-> mem']
  BY <1>1 DEF Saving
<1>5. job'.op # "commit" /\ job'.next = mem'
  BY <1>4
<1>6. JobInv'
  BY <1>5 DEF JobInv
<1>7. ResultInv' /\ HeldInv'
  BY <1>2, <1>3 DEF LInv, ResultInv, HeldInv
<1> QED BY <1>6, <1>7

\* The disk is recorded, or the relay starts with no request open.
LEMMA StartHeld ==
  ASSUME LInv, DirRecorded \/ Start, UNCHANGED <<clockVars, webVars>>
  PROVE  JobInv' /\ ResultInv' /\ HeldInv'
<1>0. UNCHANGED <<job, result, pc, claims, cookies, shown, undone>>
  BY DEF DirRecorded, Start, clockVars, webVars
<1>1. CASE DirRecorded
  <2>1. UNCHANGED <<proc, mem, file>>
    BY <1>1 DEF DirRecorded
  <2> QED BY <1>0, <2>1 DEF LInv, JobInv, ResultInv, HeldInv
<1>2. CASE Start
  <2>1. proc = "down" /\ UNCHANGED file
    BY <1>2 DEF Start, diskVars
  <2>2. job = <<>> /\ (\A t \in Task : result[t] = "none") /\ DOMAIN cookies = {}
    BY <2>1 DEF LInv, IInv, SavedInv, ResultInv, HeldInv
  <2> QED BY <1>0, <2>1, <2>2 DEF LInv, JobInv, ResultInv, HeldInv
<1> QED BY <1>1, <1>2

\* The process stops: nothing is open, and what was shown is on the disk, or a
\* power loss undid it.
LEMMA StopHeld ==
  ASSUME LInv, Stop
  PROVE  JobInv' /\ ResultInv' /\ HeldInv'
<1>1. /\ job' = <<>> /\ result' = [t \in Task |-> "none"] /\ cookies' = Empty /\ shown' = shown
      /\ undone' = (undone \/ file'.data # file.data)
  BY DEF Stop, Crash, PowerLoss, Gone
<1>2. DOMAIN cookies' = {}
  BY <1>1 DEF Empty
<1>3. JobInv' /\ ResultInv'
  BY <1>1 DEF JobInv, ResultInv
<1>4. HeldInv'
  BY <1>1, <1>2 DEF LInv, HeldInv
<1> QED BY <1>3, <1>4
-----------------------------------------------------------------------------
(* All of it.                                                               *)

\* What is appended is in, and what was in stays.
LEMMA AppendIn ==
  ASSUME NEW S, NEW s \in Seq(S), NEW x \in S
  PROVE  In(x, Append(s, x)) /\ \A y : In(y, s) => In(y, Append(s, x))
<1>1. /\ DOMAIN Append(s, x) = 1..(Len(s) + 1) /\ DOMAIN s = 1..Len(s) /\ Len(s) \in Nat
      /\ Append(s, x)[Len(s) + 1] = x /\ \A i \in 1..Len(s) : Append(s, x)[i] = s[i]
  BY AppendProperties
<1> QED BY <1>1 DEF In

\* The store of a sign-in, and that of a token request.
LEMMA WithUserHeld ==
  ASSUME mem \in Store, NEW u \in User
  PROVE  /\ In(u, WithUser(u).users) /\ WithUser(u).tokens = mem.tokens
         /\ \A v : In(v, mem.users) => In(v, WithUser(u).users)
<1>1. CASE In(u, mem.users)
  BY <1>1 DEF WithUser
<1>2. CASE ~In(u, mem.users)
  <2>1. WithUser(u) = [mem EXCEPT !.users = Append(mem.users, u)]
    BY <1>2 DEF WithUser
  <2>2. WithUser(u).users = Append(mem.users, u) /\ WithUser(u).tokens = mem.tokens
    BY <2>1 DEF Store
  <2>3. mem.users \in Seq(User)
    BY DEF Store
  <2> QED BY <2>2, <2>3, AppendIn
<1> QED BY <1>1, <1>2

LEMMA WithTokenHeld ==
  ASSUME mem \in Store, NEW k \in Token
  PROVE  /\ In(k, WithToken(k).tokens) /\ WithToken(k).users = mem.users
         /\ \A j : In(j, mem.tokens) => In(j, WithToken(k).tokens)
<1>1. WithToken(k).tokens = Append(mem.tokens, k) /\ WithToken(k).users = mem.users
  BY DEF WithToken, Store
<1>2. mem.tokens \in Seq(Token)
  BY DEF Store
<1> QED BY <1>1, <1>2, AppendIn

\* A commit that a request asks for.
LEMMA CommitForStep ==
  ASSUME LInv, NEW t \in Task, CommitFor(t)
  PROVE  LInv'
<1>0. mem \in Store /\ NoRepeats(mem.users) /\ UNCHANGED <<clockVars, webVars>> /\ pc[t] = "committing"
  BY DEF CommitFor, LInv, IInv, TypeOK, OnceInv
<1>1. WebInv'
  BY <1>0, WebUnchanged DEF LInv
<1>2. CASE t \in Callback /\ Commit(t, WithUser(claims[t].sub))
  <2>1. claims[t].sub \in User /\ t \notin Token /\ t \in DOMAIN claims
    BY <1>0, <1>2, AdminAssumption, Requests DEF LInv, WebInv, CallbackInv
  <2> DEFINE s == WithUser(claims[t].sub)
  <2>2. /\ s \in Store /\ NoRepeats(s.users) /\ s.tokens = mem.tokens
        /\ In(claims[t].sub, s.users) /\ \A v : In(v, mem.users) => In(v, s.users)
    BY <1>0, <2>1, WithUserStore, WithUserHeld
  <2>3. Commit(t, s)
    BY <1>2
  <2> HIDE DEF s
  <2>4. IInv'
    BY <2>2, <2>3, CommitStep DEF LInv
  <2>5. JobInv' /\ ResultInv' /\ HeldInv'
    BY <1>0, <2>1, <2>2, <2>3, CommitHeld
  <2> QED BY <1>1, <2>4, <2>5 DEF LInv
<1>3. CASE t \in Token /\ Commit(t, WithToken(t))
  <2>1. t \notin Callback
    BY <1>3, Requests
  <2> DEFINE s == WithToken(t)
  <2>2. /\ s \in Store /\ NoRepeats(s.users) /\ s.users = mem.users
        /\ In(t, s.tokens) /\ \A k : In(k, mem.tokens) => In(k, s.tokens)
    BY <1>0, <1>3, WithTokenStore, WithTokenHeld
  <2>3. Commit(t, s)
    BY <1>3
  <2> HIDE DEF s
  <2>4. IInv'
    BY <2>2, <2>3, CommitStep DEF LInv
  <2>5. JobInv' /\ ResultInv' /\ HeldInv'
    BY <1>0, <2>1, <2>2, <2>3, CommitHeld
  <2> QED BY <1>1, <2>4, <2>5 DEF LInv
<1> QED BY <1>2, <1>3 DEF CommitFor

\* A step of the store's own.
LEMMA StoreStepKeeps ==
  ASSUME LInv, StoreStep
  PROVE  LInv'
<1>0. UNCHANGED <<clockVars, webVars>>
  BY DEF StoreStep
<1>1. WebInv'
  BY <1>0, WebUnchanged DEF LInv
<1>2. IInv'
  BY StepKeeps DEF StoreStep, Next, Machine, LInv
<1>3. JobInv' /\ ResultInv' /\ HeldInv'
  BY <1>0, TmpHeld, RenameHeld, FailHeld, SlackHeld, StartHeld DEF StoreStep, SaveStep
<1> QED BY <1>1, <1>2, <1>3 DEF LInv

\* The process stops.
LEMMA StopKeeps ==
  ASSUME LInv, Stop
  PROVE  LInv'
<1>1. IInv'
  BY StepKeeps DEF Stop, Next, Machine, LInv
<1> QED BY <1>1, WebStop, StopHeld DEF LInv

\* A web step of one request that neither makes a cookie nor shows a token.
LEMMA QuietStep ==
  ASSUME LInv, WebInv', UNCHANGED <<vars, cookies, shown, undone>>, NEW t \in Task,
         NEW p, Goes(t, p),
         \A x \in DOMAIN claims : x # t => x \in DOMAIN claims' /\ claims'[x] = claims[x],
         job # <<>> /\ job.op = "commit" => job.who # t,
         result[t] # "none" => p \notin {"idle", "exchanging"} /\ UNCHANGED claims,
         t \in DOMAIN cookies => UNCHANGED claims
  PROVE  LInv'
<1>1. pc \in [Task -> Place] /\ DOMAIN cookies \subseteq Task
  BY Requests DEF LInv, WebInv, WebType
<1>2. pc'[t] = p /\ \A x \in Task : x # t => pc'[x] = pc[x]
  BY <1>1 DEF Goes
<1>3. JobInv' /\ ResultInv'
  BY <1>2, OthersKept DEF LInv
<1>4. UNCHANGED <<proc, mem, file>>
  BY DEF vars, diskVars
<1>5. HeldInv'
  <2>1. \A k \in DOMAIN cookies : k \in DOMAIN claims
    BY DEF LInv, WebInv, WebType, CallbackInv
  <2> QED BY <1>1, <1>4, <2>1 DEF LInv, HeldInv
<1>6. IInv'
  BY StepKeeps DEF LInv
<1> QED BY <1>3, <1>5, <1>6 DEF LInv

\* The quiet steps: the clock, logins, refusals, the exchange, token requests.
LEMMA ClockAndLogins ==
  ASSUME LInv, Tick \/ \E s \in St : BeginLogin(s)
  PROVE  LInv'
<1>1. WebInv'
  BY WebTick, WebBeginLogin DEF LInv
<1>2. UNCHANGED <<vars, pc, claims, cookies, shown, undone>>
  BY DEF Tick, BeginLogin, webVars, clockVars
<1>3. UNCHANGED <<proc, mem, job, result, file>>
  BY <1>2 DEF vars, diskVars
<1>4. IInv'
  BY <1>2, StepKeeps DEF LInv
<1>5. JobInv' /\ ResultInv' /\ HeldInv'
  BY <1>2, <1>3 DEF LInv, JobInv, ResultInv, HeldInv
<1> QED BY <1>1, <1>4, <1>5 DEF LInv

LEMMA CallbackSteps ==
  ASSUME LInv, NEW k \in Callback,
         \/ ExchangeFails(k)
         \/ \E s \in St : TakePending(k, s)
         \/ \E sub \in User, exp \in 0..(MaxTime + 1) : Exchanged(k, sub, exp)
  PROVE  LInv'
<1>0. k \in Task /\ pc[k] \in {"idle", "exchanging"} /\ UNCHANGED <<vars, cookies, shown, undone>>
  BY Requests DEF ExchangeFails, TakePending, Exchanged, clockVars
<1>1. /\ result[k] = "none" /\ k \notin DOMAIN made /\ k \notin DOMAIN cookies
      /\ job # <<>> /\ job.op = "commit" => job.who # k
  BY <1>0 DEF LInv, WebInv, CallbackInv, JobInv, ResultInv
<1>2. WebInv'
  <2>1. CASE ExchangeFails(k)
    BY <1>0, <1>1, <2>1, WebEnds DEF ExchangeFails, LInv, clockVars
  <2> QED BY <2>1, WebTakePending, WebExchanged DEF LInv
<1>3. PICK p : Goes(k, p)
  BY DEF ExchangeFails, TakePending, Exchanged
<1>4. \A x \in DOMAIN claims : x # k => x \in DOMAIN claims' /\ claims'[x] = claims[x]
  <2>1. ASSUME NEW sub \in User, NEW exp \in 0..(MaxTime + 1), Exchanged(k, sub, exp)
        PROVE  UNCHANGED claims \/ \E v : claims' = Put(claims, k, v)
    BY <2>1 DEF Exchanged
  <2>2. UNCHANGED claims \/ \E v : claims' = Put(claims, k, v)
    BY <2>1 DEF ExchangeFails, TakePending
  <2> QED BY <2>2 DEF Put
<1> QED BY <1>0, <1>1, <1>2, <1>3, <1>4, QuietStep

LEMMA TokenSteps ==
  ASSUME LInv, NEW q \in Token, NEW c \in Callback, AskToken(q, c)
  PROVE  LInv'
<1>0. /\ q \in Task /\ q \notin Callback /\ pc[q] = "idle"
      /\ UNCHANGED <<vars, cookies, shown, undone, claims>>
  BY Requests DEF AskToken, clockVars
<1>1. /\ result[q] = "none" /\ q \notin DOMAIN cookies
      /\ job # <<>> /\ job.op = "commit" => job.who # q
  BY <1>0 DEF LInv, WebInv, WebType, JobInv, ResultInv
<1>2. WebInv'
  BY WebAskToken DEF LInv
<1>3. PICK p : Goes(q, p)
  BY DEF AskToken
<1> QED BY <1>0, <1>1, <1>2, <1>3, QuietStep

\* A request that is committing ends in a refusal.
LEMMA RefusalSteps ==
  ASSUME LInv, NEW t \in Task, NotSaved(t) \/ HangUp(t)
  PROVE  LInv'
<1>0. /\ pc[t] = "committing" /\ Goes(t, "refused") /\ UNCHANGED <<vars, clockVars>>
      /\ UNCHANGED <<begun, pending, cookies, at, using, claims, made, shown>>
  BY DEF NotSaved, HangUp
<1>1. UNCHANGED <<now, undone, stops>>
  BY <1>0 DEF clockVars
<1>2. t \in Callback => t \notin DOMAIN made
  BY <1>0 DEF LInv, WebInv, CallbackInv
<1>3. WebInv'
  BY <1>0, <1>1, <1>2, WebEnds DEF LInv
<1>4. job # <<>> /\ job.op = "commit" => job.who # t
  BY DEF NotSaved, HangUp, LInv, JobInv
<1> QED BY <1>0, <1>1, <1>3, <1>4, QuietStep

\* A cookie is made for a user that was saved.
LEMMA CookieStep ==
  ASSUME LInv, NEW k \in Callback, SetCookie(k)
  PROVE  LInv'
<1>0. /\ k \in Task /\ result[k] = "saved" /\ Goes(k, "done") /\ UNCHANGED <<vars, claims, shown, undone>>
      /\ cookies' = Put(cookies, k, [user |-> claims[k].sub, expires |-> at[k] + CookieTtl])
  BY Requests DEF SetCookie, SignedIn, clockVars
<1>1. pc \in [Task -> Place]
  BY DEF LInv, WebInv, WebType
<1>2. pc'[k] = "done" /\ \A x \in Task : x # k => pc'[x] = pc[x]
  BY <1>0, <1>1 DEF Goes
<1>3. job # <<>> /\ job.op = "commit" => job.who # k
  BY <1>0 DEF LInv, JobInv
<1>4. JobInv' /\ ResultInv'
  BY <1>0, <1>2, <1>3, OthersKept DEF LInv
<1>5. UNCHANGED <<proc, mem, file>> /\ proc = "up" /\ In(claims[k].sub, mem.users)
  BY <1>0 DEF vars, diskVars, LInv, ResultInv
<1>6. DOMAIN cookies' = DOMAIN cookies \cup {k}
  BY <1>0 DEF Put
<1>7. HeldInv'
  BY <1>0, <1>5, <1>6 DEF LInv, HeldInv
<1>8. IInv'
  BY <1>0, StepKeeps DEF LInv
<1>9. WebInv'
  BY WebSetCookie DEF LInv
<1> QED BY <1>4, <1>7, <1>8, <1>9 DEF LInv

\* A token is shown once it was saved.
LEMMA ShowStep ==
  ASSUME LInv, NEW q \in Token, ShowToken(q)
  PROVE  LInv'
<1>0. /\ q \in Task /\ result[q] = "saved" /\ Goes(q, "done") /\ UNCHANGED <<vars, claims, cookies, undone>>
      /\ shown' = shown \cup {q}
  BY Requests DEF ShowToken, clockVars
<1>1. pc \in [Task -> Place]
  BY DEF LInv, WebInv, WebType
<1>2. pc'[q] = "done" /\ \A x \in Task : x # q => pc'[x] = pc[x]
  BY <1>0, <1>1 DEF Goes
<1>3. job # <<>> /\ job.op = "commit" => job.who # q
  BY <1>0 DEF LInv, JobInv
<1>4. JobInv' /\ ResultInv'
  BY <1>0, <1>2, <1>3, OthersKept DEF LInv
<1>5. UNCHANGED <<proc, mem, file>> /\ In(q, file.data.tokens)
  BY <1>0 DEF vars, diskVars, LInv, ResultInv, IInv, SavedInv
<1>6. HeldInv'
  BY <1>0, <1>5 DEF LInv, HeldInv
<1>7. IInv'
  BY <1>0, StepKeeps DEF LInv
<1>8. WebInv'
  BY WebShowToken DEF LInv
<1> QED BY <1>4, <1>6, <1>7, <1>8 DEF LInv

LEMMA LoginInductive == LoginSpec => []LInv
<1>1. LoginInit => LInv
  <2> SUFFICES ASSUME LoginInit PROVE LInv
    OBVIOUS
  <2>1. IInv /\ WebInv
    BY Initial, WebInitial DEF LoginInit
  <2>2. DOMAIN cookies = {} /\ shown = {} /\ job = <<>> /\ result = [t \in Task |-> "none"]
    BY DEF LoginInit, Init, Empty
  <2>3. JobInv /\ ResultInv /\ HeldInv
    BY <2>2 DEF JobInv, ResultInv, HeldInv
  <2> QED BY <2>1, <2>3 DEF LInv
<1>2. LInv /\ [LoginNext]_allVars => LInv'
  <2> SUFFICES ASSUME LInv, [LoginNext]_allVars PROVE LInv'
    OBVIOUS
  <2>1. CASE Tick \/ \E s \in St : BeginLogin(s)
    BY <2>1, ClockAndLogins
  <2>2. CASE Stop
    BY <2>2, StopKeeps
  <2>3. CASE StoreStep
    BY <2>3, StoreStepKeeps
  <2>4. ASSUME NEW t \in Task, Request(t) \/ CommitFor(t) PROVE LInv'
    BY <2>4, CallbackSteps, CookieStep, ShowStep, RefusalSteps, CommitForStep DEF Request
  <2>5. ASSUME NEW k \in Callback,
               \/ \E s \in St : TakePending(k, s)
               \/ \E sub \in User, exp \in 0..(MaxTime + 1) : Exchanged(k, sub, exp)
        PROVE  LInv'
    BY <2>5, CallbackSteps
  <2>6. ASSUME NEW q \in Token, NEW c \in Callback, AskToken(q, c) PROVE LInv'
    BY <2>6, TokenSteps
  <2>7. CASE UNCHANGED allVars
    <3>1. UNCHANGED <<vars, clockVars, webVars>>
      BY <2>7 DEF allVars
    <3>2. UNCHANGED <<proc, mem, job, result, file, pc, claims, cookies, shown, undone>>
      BY <3>1 DEF vars, diskVars, clockVars, webVars
    <3>3. IInv' /\ WebInv'
      BY <3>1, StepKeeps, WebUnchanged DEF LInv
    <3>4. JobInv' /\ ResultInv' /\ HeldInv'
      BY <3>2 DEF LInv, JobInv, ResultInv, HeldInv
    <3> QED BY <3>3, <3>4 DEF LInv
  <2> QED BY <2>1, <2>2, <2>3, <2>4, <2>5, <2>6, <2>7 DEF LoginNext
<1> QED BY <1>1, <1>2, PTL DEF LoginSpec
-----------------------------------------------------------------------------
\* Types; and the request of a commit waits until its save has ended
\* (routes.rs:47-59).
THEOREM LoginTypeCorrect == LoginSpec => []LoginTypeOK
<1>1. LInv => LoginTypeOK
  BY DEF LInv, IInv, WebInv, WebType, JobInv, LoginTypeOK, Place
<1> QED BY <1>1, LoginInductive, PTL

\* The file is whole at every moment of a relay that serves logins, binds and
\* unbinds (store.rs:49-68).
THEOREM LoginFileWhole == LoginSpec => []FileIsWhole
<1>1. LInv => FileIsWhole
  BY DEF LInv, IInv
<1> QED BY <1>1, LoginInductive, PTL

\* Between two critical sections memory and file agree, up to the bindings of
\* failed saves (routes.rs:47-59, slack.rs:199, 245).
THEOREM LoginMemorySaved == LoginSpec => []MemoryIsSaved
<1>1. LInv => MemoryIsSaved
  BY DEF LInv, IInv, SavedInv, MemoryIsSaved, Locked
<1> QED BY <1>1, LoginInductive, PTL

\* A login state signs in once, however many callbacks carry it (session.rs:37-40).
THEOREM LoginsUsedOnce == LoginSpec => []LoginsOnce
<1>1. LInv => LoginsOnce
  BY DEF LInv, WebInv, UsingInv
<1> QED BY <1>1, LoginInductive, PTL

\* Whoever holds a cookie is an administrator and a saved user (routes.rs:129-138).
THEOREM SignedInAlwaysSaved == LoginSpec => []SignedInIsSaved
<1>1. LInv => SignedInIsSaved
  <2> SUFFICES ASSUME LInv, NEW c \in DOMAIN cookies
               PROVE  /\ cookies[c].user \in Admins
                      /\ In(cookies[c].user, mem.users) /\ In(cookies[c].user, file.data.users)
    BY DEF SignedInIsSaved
  <2>1. c \in Callback /\ c \in DOMAIN claims /\ cookies[c].user = claims[c].sub
    BY DEF LInv, WebInv, WebType, CallbackInv
  <2>2. claims[c].sub \in Admins
    BY <2>1 DEF LInv, WebInv, CallbackInv
  <2>3. In(claims[c].sub, mem.users) /\ mem.users = file.data.users
    BY DEF LInv, HeldInv, IInv, SavedInv
  <2> QED BY <2>1, <2>2, <2>3
<1> QED BY <1>1, LoginInductive, PTL

\* A token that was shown connects agents until a power loss undoes its save
\* (routes.rs:168-197, store.rs:70-76).
THEOREM ShownTokensAlwaysWork == LoginSpec => []ShownTokensWork
<1>1. LInv => ShownTokensWork
  BY DEF LInv, HeldInv, IInv, SavedInv, ShownTokensWork
<1> QED BY <1>1, LoginInductive, PTL

\* The clock read before the exchange prolongs no session, and accepts no
\* id_token that ended more than one exchange ago (routes.rs:101-138).
THEOREM OldClockHarmless == LoginSpec => []OldClockDoesNoHarm
<1>1. LInv => SessionsEnd
  BY DEF LInv, WebInv, TokenInv, SessionsEnd
<1>2. LInv => IdTokenFresh
  BY DEF LInv, WebInv, WebType, CallbackInv, IdTokenFresh
<1>3. LInv => OldClockDoesNoHarm
  BY <1>1, <1>2 DEF OldClockDoesNoHarm
<1> QED BY <1>3, LoginInductive, PTL
=============================================================================
