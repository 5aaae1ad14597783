------------------------------- MODULE Login -------------------------------
(***************************************************************************)
(* Signing in and issuing agent tokens (relay/src/auth), on top of the     *)
(* state file: login states and cookies live in memory only, users and     *)
(* tokens are committed.                                                   *)
(*                                                                         *)
(* A callback reads the clock once, takes its login state, waits for       *)
(* Slack's token endpoint, checks the id_token and sets the cookie's end   *)
(* with the clock it read, and commits the user before the cookie exists.  *)
(* A token request checks its cookie before it waits for the store.        *)
(***************************************************************************)
EXTENDS StateFile, Functions

CONSTANTS
  Admins,               \* SCCR_ADMIN_SLACK_USER; {} when it is empty
  Callback, St,         \* requests of /auth/callback; login states and their nonces
  LoginTtl, CookieTtl,  \* 600 s and 86400 s
  HttpTimeout,          \* the timeout of the token exchange, 10 s
  MaxTime, MaxStops     \* bounds: the clock; crashes and power losses

ASSUME AdminAssumption == Admins \subseteq User
ASSUME RequestAssumption == Task = Callback \cup Token /\ Callback \cap Token = {}
ASSUME TtlAssumption == {LoginTtl, CookieTtl, HttpTimeout, MaxTime} \subseteq Nat

VARIABLES
  now,                  \* the clock
  begun, pending,       \* login states given out; Sessions.pending: state -> expiry
  cookies,              \* Sessions.cookies: the callback that made it -> user, expiry
  pc, at, using,        \* requests: place, the clock they read, their login state
  claims,               \* callbacks: sub and exp of the id_token, when it was checked
  made, shown,          \* history: when a cookie was made; the tokens shown
  undone, stops         \* history: a power loss undid a save; bound

webVars == <<begun, pending, cookies, pc, at, using, claims, made, shown>>
clockVars == <<now, undone, stops>>

Put(f, k, v) == [x \in DOMAIN f \cup {k} |-> IF x = k THEN v ELSE f[x]]
Empty == [x \in {} |-> x]
Goes(t, p) == pc' = [pc EXCEPT ![t] = p]
Ended == {"done", "refused"}

LoginInit ==
  /\ Init
  /\ now = 0 /\ undone = FALSE /\ stops = 0
  /\ begun = {} /\ pending = Empty /\ cookies = Empty
  /\ pc = [t \in Task |-> "idle"] /\ at = Empty /\ using = Empty
  /\ claims = Empty /\ made = Empty /\ shown = {}

\* No token exchange outlives the timeout of its HTTP client.
Tick ==
  /\ now < MaxTime
  /\ \A k \in Callback : pc[k] = "exchanging" => now < at[k] + HttpTimeout
  /\ now' = now + 1
  /\ UNCHANGED <<vars, webVars, undone, stops>>
-----------------------------------------------------------------------------
(* login and callback.                                                      *)
BeginLogin(s) ==
  /\ proc = "up" /\ s \notin begun
  /\ begun' = begun \cup {s}
  /\ pending' = Put(pending, s, now + LoginTtl)
  /\ UNCHANGED <<vars, clockVars, cookies, pc, at, using, claims, made, shown>>

\* Mutant: the login state is looked up and left in place.
LeftPending(s) == pending
WithoutPending(s) == Restrict(pending, DOMAIN pending \ {s})

\* A request with a code and a login state (without them it is refused at
\* once): the clock is read, then take_pending runs under the lock of sessions,
\* which no task holds across an await.
TakePending(k, s) ==
  LET valid == s \in DOMAIN pending /\ now < pending[s]
  IN  /\ proc = "up" /\ pc[k] = "idle" /\ s \in begun
      /\ pending' = WithoutPending(s)
      /\ \/ valid /\ Goes(k, "exchanging") /\ at' = Put(at, k, now) /\ using' = Put(using, k, s)
         \/ ~valid /\ Goes(k, "refused") /\ UNCHANGED <<at, using>>
      /\ UNCHANGED <<vars, clockVars, begun, cookies, claims, made, shown>>

\* Slack refuses the code, the call fails or times out, or the id_token has
\* another form, issuer, audience or nonce.
ExchangeFails(k) ==
  /\ pc[k] = "exchanging" /\ Goes(k, "refused")
  /\ UNCHANGED <<vars, clockVars, begun, pending, cookies, at, using, claims, made, shown>>

InForce(exp, t) == exp > t

\* The id_token of this login; it is checked with the clock read on arrival.
Exchanged(k, sub, exp) ==
  /\ pc[k] = "exchanging"
  /\ \/ ~(InForce(exp, at[k]) /\ sub \in Admins) /\ Goes(k, "refused") /\ UNCHANGED claims
     \/ InForce(exp, at[k]) /\ sub \in Admins /\ Goes(k, "committing")
        /\ claims' = Put(claims, k, [sub |-> sub, exp |-> exp, checked |-> now])
  /\ UNCHANGED <<vars, clockVars, begun, pending, cookies, at, using, made, shown>>

\* Mutant: the cookie is made whether the user was saved or not.
SignedInAnyway(k) == result[k] # "none"
SignedIn(k) == result[k] = "saved"

SetCookie(k) ==
  /\ pc[k] = "committing" /\ SignedIn(k)
  /\ cookies' = Put(cookies, k, [user |-> claims[k].sub, expires |-> at[k] + CookieTtl])
  /\ made' = Put(made, k, now) /\ Goes(k, "done")
  /\ UNCHANGED <<vars, clockVars, begun, pending, at, using, claims, shown>>
-----------------------------------------------------------------------------
(* tokens.                                                                  *)

\* Mutant: the last second is counted twice.
AcceptedOneMore(c) == c \in DOMAIN cookies /\ now <= cookies[c].expires
Accepted(c) == c \in DOMAIN cookies /\ now < cookies[c].expires

\* current_user, then the label: either may be refused.
AskToken(q, c) ==
  /\ proc = "up" /\ pc[q] = "idle"
  /\ \/ Goes(q, "refused") /\ UNCHANGED <<at, using>>
     \/ Accepted(c) /\ Goes(q, "committing") /\ at' = Put(at, q, now) /\ using' = Put(using, q, c)
  /\ UNCHANGED <<vars, clockVars, begun, pending, cookies, claims, made, shown>>

ShowToken(q) ==
  /\ pc[q] = "committing" /\ result[q] = "saved"
  /\ shown' = shown \cup {q} /\ Goes(q, "done")
  /\ UNCHANGED <<vars, clockVars, begun, pending, cookies, at, using, claims, made>>
-----------------------------------------------------------------------------
(* The store.                                                               *)
CommitFor(t) ==
  /\ pc[t] = "committing"
  /\ \/ t \in Callback /\ Commit(t, WithUser(claims[t].sub))
     \/ t \in Token /\ Commit(t, WithToken(t))
  /\ UNCHANGED <<clockVars, webVars>>

NotSaved(t) ==
  /\ pc[t] = "committing" /\ result[t] = "failed" /\ Goes(t, "refused")
  /\ UNCHANGED <<vars, clockVars, begun, pending, cookies, at, using, claims, made, shown>>

\* A client that hangs up ends its request where the request waits: for the
\* store's lock, or for that of the sessions after its commit.
HangUp(t) ==
  /\ pc[t] = "committing" /\ ~(job # <<>> /\ job.who = t) /\ Goes(t, "refused")
  /\ UNCHANGED <<vars, clockVars, begun, pending, cookies, at, using, claims, made, shown>>

StoreStep ==
  /\ SaveStep \/ Slack \/ DirRecorded \/ Start
  /\ UNCHANGED <<clockVars, webVars>>

\* With the process go the login states, the cookies and the open requests.
Stop ==
  /\ stops < MaxStops /\ stops' = stops + 1
  /\ Crash \/ PowerLoss
  /\ undone' = (undone \/ file'.data # file.data)
  /\ pending' = Empty /\ cookies' = Empty
  /\ pc' = [t \in Task |-> IF pc[t] \in Ended \cup {"idle"} THEN pc[t] ELSE "refused"]
  /\ UNCHANGED <<now, begun, at, using, claims, made, shown>>
-----------------------------------------------------------------------------
Request(t) ==
  \/ t \in Callback /\ (ExchangeFails(t) \/ SetCookie(t))
  \/ t \in Token /\ ShowToken(t)
  \/ NotSaved(t) \/ HangUp(t)

LoginNext ==
  \/ Tick \/ Stop \/ StoreStep
  \/ \E s \in St : BeginLogin(s)
  \/ \E t \in Task : Request(t) \/ CommitFor(t)
  \/ \E k \in Callback : \/ \E s \in St : TakePending(k, s)
                         \/ \E sub \in User, exp \in 0..(MaxTime + 1) : Exchanged(k, sub, exp)
  \/ \E q \in Token, c \in Callback : AskToken(q, c)

allVars == <<vars, clockVars, webVars>>
LoginSpec == LoginInit /\ [][LoginNext]_allVars
-----------------------------------------------------------------------------
\* Besides the types: a request waits for the save that is made for it.
LoginTypeOK ==
  /\ TypeOK
  /\ now \in Nat /\ undone \in BOOLEAN /\ stops \in Nat
  /\ begun \subseteq St /\ DOMAIN pending \subseteq begun
  /\ DOMAIN cookies \subseteq Callback
  /\ pc \in [Task -> Ended \cup {"idle", "exchanging", "committing"}]
  /\ job # <<>> /\ job.op = "commit" => pc[job.who] = "committing"

\* A login state signs in once: of two callbacks with one state, a reloaded page
\* or a repeated redirect, at most one gets past it (session.rs:37-40).
LoginsOnce ==
  \A j, k \in Callback : j # k /\ {j, k} \subseteq DOMAIN using => using[j] # using[k]

\* Whoever holds a cookie is the administrator, and is a user of the relay in
\* memory and in the file: a sign-in is not forgotten by a restart
\* (routes.rs:129-138).
SignedInIsSaved ==
  \A c \in DOMAIN cookies :
    /\ cookies[c].user \in Admins
    /\ In(cookies[c].user, mem.users) /\ In(cookies[c].user, file.data.users)

\* A token that was shown connects agents from then on, through crashes,
\* restarts, failed saves and the saves of others; only a power loss before the
\* directory is recorded can take it back (routes.rs:168-197, store.rs:70-76).
ShownTokensWork ==
  \A q \in shown : undone \/ (In(q, file.data.tokens) /\ (proc = "up" => In(q, mem.tokens)))

\* The clock that a callback read before the exchange and uses after it does no
\* harm: it never prolongs a session, no request is admitted a cookie's lifetime
\* after the cookie was made; and an id_token that signs in was in force when it
\* was checked, up to the time one exchange may take (routes.rs:101-122, 138,
\* session.rs:43-58, oidc.rs:91-94).
SessionsEnd ==
  \A q \in Token : q \in DOMAIN using =>
    using[q] \in DOMAIN made /\ at[q] < made[using[q]] + CookieTtl
IdTokenFresh ==
  \A k \in DOMAIN made : claims[k].checked < claims[k].exp + HttpTimeout
OldClockDoesNoHarm == SessionsEnd /\ IdTokenFresh
=============================================================================
