--------------------------- MODULE ProxyRequests ----------------------------
(***************************************************************************)
(* The life of HTTP requests in the reverse proxy: selectRoute and         *)
(* handleHttpRequest of src/src/services/proxy-server.js on top of the two *)
(* upstream pools of one location (ProxyRoutes.resolve, resolveFallback).  *)
(*                                                                         *)
(* A request is admitted with a route chosen before its body is read,      *)
(* becomes an attempt when the body is complete, and may spawn further     *)
(* attempts when an upstream answers a retryable status or fails.  Every   *)
(* callback of an attempt runs to its end in one step, as it does on the   *)
(* event loop; between the callbacks anything may happen.                  *)
(***************************************************************************)
EXTENDS UpstreamPool

CONSTANTS
    Requests,           \* requests the clients may have open at one time
    Safe,               \* those whose method is in SAFE_RETRY_METHODS
    AllowUnsafe,        \* location.allowUnsafeFallback
    Size,               \* Size[k]: number of upstreams of pool k
    Weight,             \* Weight[k][u]: configured weight
    AutoProtocol,       \* the <<k, u>> whose protocol is "auto"
    Slots,              \* bound: attempts of one request alive at one time
    EarlyAnswers,       \* some requests are answered 403, 413, 429 or from the cache
    LateErrors,         \* an upstream may still fail after its status line
    SiteDrains,         \* an operator may drain and resume the site
    Reloads,            \* the configuration may be replaced
    Clock               \* time passes

Pools == {"primary", "fallback"}

ASSUME RequestAssumption ==
    /\ Safe \subseteq Requests
    /\ {AllowUnsafe, EarlyAnswers, LateErrors, SiteDrains, Reloads, Clock} \subseteq BOOLEAN
    /\ Size \in [Pools -> Nat]
    /\ \A k \in Pools : Weight[k] \in [1..Size[k] -> 1..100]
    /\ Slots \in Nat \ {0}

VARIABLES
    pool,       \* pool[k]: the upstream records of pool k
    credit,     \* credit[k][u]: currentWeight
    draining,   \* whether the site is in drainingSites
    phase,      \* phase[r]: "idle", "admitted" (route chosen, body pending), "proxied"
    route,      \* route[r]: the upstream chosen at admission
    live,       \* live[r][i]: the attempts of r whose upstream stream is open
    sends,      \* history of an unsafe request: times it was sent, up to 3
    asked,      \* history of an unsafe request: the <<pool, upstream>> it was sent to
    late,       \* history: thrown-away answers of r that failed late and became
                \* attempts again, up to Slots
    sent,       \* response.headersSent
    closed,     \* the response is finished or destroyed
    crashed     \* an exception escaped from an event handler

history == <<sends, asked, late>>

vars == <<pool, credit, draining, phase, route, live, sends, asked, late, sent, closed, crashed>>

Range1(k) == 1..Size[k]

\* A resolution: which object of which pool.  stale: a reload replaced it.
Route == [pool: Pools, up: Nat, stale: BOOLEAN]
NoRoute == [pool |-> "primary", up |-> None, stale |-> TRUE]

\* An attempt: its route, whether forced to HTTP/1.1, and what it is doing.
Stage == {"none", "waiting", "relaying", "discarded"}
NoAttempt == [route |-> NoRoute, forced |-> FALSE, stage |-> "none"]
Waiting(to, forced) == [route |-> to, forced |-> forced, stage |-> "waiting"]

Init ==
    /\ pool = [k \in Pools |-> [u \in Range1(k) |-> Fresh]]
    /\ credit = [k \in Pools |-> [u \in Range1(k) |-> 0]]
    /\ draining = FALSE
    /\ phase = [r \in Requests |-> "idle"]
    /\ route = [r \in Requests |-> NoRoute]
    /\ live = [r \in Requests |-> [i \in 1..Slots |-> NoAttempt]]
    /\ sends = [r \in Requests |-> 0]
    /\ asked = [r \in Requests |-> {}]
    /\ late = [r \in Requests |-> 0]
    /\ sent = [r \in Requests |-> FALSE]
    /\ closed = [r \in Requests |-> TRUE]
    /\ crashed = FALSE

-----------------------------------------------------------------------------
(* Resolution.  A world is the pair of pool and credits it works on.       *)

\* After an uncaught exception the process is gone.
Up == ~crashed

World == [pool |-> pool, credit |-> credit]

\* location.pool.next() or location.fallbackPool.next()
Chosen(k, w) ==
    LET s == Select(w.pool[k], w.credit[k], Weight[k])
    IN  [ up |-> s.up,
          world |-> [ pool |-> [w.pool EXCEPT ![k] = s.pool],
                      credit |-> [w.credit EXCEPT ![k] = s.credit] ] ]

To(k, u) == [pool |-> k, up |-> u, stale |-> FALSE]

\* Faulty variants: the outcome of an attempt is never reported.
AfterFailureUnreported(to, w) == w
AfterSuccessUnreported(to, w) == w

\* markFailure and markSuccess reach the object the resolution holds; after a
\* reload that object belongs to no pool any more.
AfterFailure(to, w) ==
    IF to.stale THEN w ELSE [w EXCEPT !.pool[to.pool] = Failed(@, to.up)]
AfterSuccess(to, w) ==
    IF to.stale THEN w ELSE [w EXCEPT !.pool[to.pool] = Succeeded(@, to.up)]

\* Faulty variant: every method is replayed.
MayRetryAny(r) == TRUE

MayRetry(r) == r \in Safe \/ AllowUnsafe

\* nextAttempt(failedRoute).  "broken" is the resolution of a draining site,
\* which has no url: attempt() throws a TypeError on it.
NextAttempt(failed, w) ==
    IF draining
    THEN [kind |-> "broken", to |-> NoRoute, world |-> w]
    ELSE LET first == Chosen("primary", w)
             again == /\ first.up = failed.up
                      /\ failed.pool = "primary"
                      /\ ~failed.stale
             second == Chosen("fallback", first.world)
         IN  IF first.up # None /\ ~again
             THEN [kind |-> "route", to |-> To("primary", first.up), world |-> first.world]
             ELSE IF failed.pool = "fallback"
             THEN [kind |-> "none", to |-> NoRoute, world |-> first.world]
             ELSE IF second.up = None
             THEN [kind |-> "none", to |-> NoRoute, world |-> second.world]
             ELSE [kind |-> "route", to |-> To("fallback", second.up), world |-> second.world]

-----------------------------------------------------------------------------
(* Admission.                                                              *)

Becomes(w) == pool' = w.pool /\ credit' = w.credit

Quiet(r) == Up /\ closed[r] /\ phase[r] # "admitted" /\ \A i \in 1..Slots : live[r][i] = NoAttempt

\* The history of a request begins with it.
Anew(r) ==
    /\ sends' = [sends EXCEPT ![r] = 0]
    /\ asked' = [asked EXCEPT ![r] = {}]
    /\ late' = [late EXCEPT ![r] = 0]

\* The request is sent to the upstream.
CountSend(r, to) ==
    IF r \in Safe THEN UNCHANGED <<sends, asked>>
    ELSE /\ sends' = [sends EXCEPT ![r] = Capped(@ + 1, 3)]
         /\ asked' = [asked EXCEPT ![r] = @ \cup {<<to.pool, to.up>>}]

\* selectRoute refused: the site is draining or no upstream is available.
Refuse(r) ==
    /\ Quiet(r)
    /\ \/ draining /\ UNCHANGED <<pool, credit>>
       \/ /\ ~draining
          /\ Chosen("primary", World).up = None
          /\ Becomes(Chosen("primary", World).world)
    /\ phase' = [phase EXCEPT ![r] = "idle"]
    /\ Anew(r)
    /\ UNCHANGED <<draining, route, live, sent, closed, crashed>>

\* selectRoute returned a route, trackHttp registered the request.
Admit(r) ==
    LET c == Chosen("primary", World)
    IN  /\ Quiet(r)
        /\ ~draining
        /\ c.up # None
        /\ Becomes(c.world)
        /\ phase' = [phase EXCEPT ![r] = "admitted"]
        /\ route' = [route EXCEPT ![r] = To("primary", c.up)]
        /\ Anew(r)
        /\ sent' = [sent EXCEPT ![r] = FALSE]
        /\ closed' = [closed EXCEPT ![r] = FALSE]
        /\ UNCHANGED <<draining, live, crashed>>

\* Access list, rate limit, body limit or a cache hit answer the request; the
\* route it was given is dropped without a word to the pool.
AnswerEarly(r) ==
    /\ EarlyAnswers
    /\ Up
    /\ phase[r] = "admitted"
    /\ phase' = [phase EXCEPT ![r] = "idle"]
    /\ route' = [route EXCEPT ![r] = NoRoute]
    /\ sent' = [sent EXCEPT ![r] = TRUE]
    /\ closed' = [closed EXCEPT ![r] = TRUE]
    /\ UNCHANGED <<pool, credit, draining, live, history, crashed>>

\* The body is complete: attempt(initialRoute).
Send(r) ==
    /\ Up
    /\ phase[r] = "admitted"
    /\ phase' = [phase EXCEPT ![r] = "proxied"]
    /\ route' = [route EXCEPT ![r] = NoRoute]
    /\ live' = [live EXCEPT ![r][1] = Waiting(route[r], FALSE)]
    /\ CountSend(r, route[r])
    /\ UNCHANGED <<pool, credit, draining, late, sent, closed, crashed>>

-----------------------------------------------------------------------------
(* The callbacks of attempt i of request r.                                *)

\* response.writeHead throws when the head was already written.
WriteHead(r) ==
    /\ sent' = [sent EXCEPT ![r] = TRUE]
    /\ crashed' = sent[r]

\* The upstream's answer is passed on to the client.
Relay(r, i) ==
    /\ WriteHead(r)
    /\ live' = [live EXCEPT ![r][i].stage = "relaying"]
    /\ UNCHANGED <<history, closed>>

\* The response callback with a status that is not retryable.
AnswerOk(r, i) ==
    /\ Up
    /\ live[r][i].stage = "waiting"
    /\ Becomes(AfterSuccess(live[r][i].route, World))
    /\ Relay(r, i)
    /\ UNCHANGED <<draining, phase, route>>

\* Faulty variant: the return after attempt(next) is missing, so the answer that
\* was to be thrown away is passed on as well.
AnswerRetryableNoReturn(r, i) ==
    /\ Up
    /\ live[r][i].stage = "waiting"
    /\ LET w == AfterFailure(live[r][i].route, World)
           n == NextAttempt(live[r][i].route, w)
       IN  \/ /\ ~MayRetry(r) \/ n.kind = "none"
              /\ Becomes(IF MayRetry(r) THEN n.world ELSE w)
              /\ Relay(r, i)
           \/ /\ MayRetry(r) /\ n.kind = "route"
              /\ Becomes(n.world)
              /\ CountSend(r, n.to)
              /\ \E j \in 1..Slots :
                    /\ live[r][j] = NoAttempt
                    /\ live' = [live EXCEPT ![r][i].stage = "relaying",
                                            ![r][j] = Waiting(n.to, FALSE)]
              /\ WriteHead(r)
              /\ UNCHANGED <<closed, late>>
    /\ UNCHANGED <<draining, phase, route>>

\* The response callback with 502, 503 or 504: the failure is recorded, the body
\* is thrown away if there is somewhere else to go, and passed on if there is not.
AnswerRetryable(r, i) ==
    /\ Up
    /\ live[r][i].stage = "waiting"
    /\ LET w == AfterFailure(live[r][i].route, World)
           n == NextAttempt(live[r][i].route, w)
       IN  \/ /\ ~MayRetry(r)
              /\ Becomes(w)
              /\ Relay(r, i)
           \/ /\ MayRetry(r) /\ n.kind = "none"
              /\ Becomes(n.world)
              /\ Relay(r, i)
           \/ /\ MayRetry(r) /\ n.kind = "route"
              /\ Becomes(n.world)
              /\ CountSend(r, n.to)
              /\ \E j \in 1..Slots :
                    /\ live[r][j] = NoAttempt
                    /\ \A h \in 1..(j - 1) : live[r][h] # NoAttempt
                    /\ live' = [live EXCEPT ![r][i].stage = "discarded",
                                            ![r][j] = Waiting(n.to, FALSE)]
              /\ UNCHANGED <<late, sent, closed, crashed>>
           \/ /\ MayRetry(r) /\ n.kind = "broken"
              /\ Becomes(n.world)
              /\ crashed' = TRUE
              /\ UNCHANGED <<live, history, sent, closed>>
    /\ UNCHANGED <<draining, phase, route>>

\* The error callback of an upstream: refused, reset or timed out.  An "auto"
\* upstream is first tried again over HTTP/1.1, whatever the method.
Fails(r, i) ==
    /\ Up
    /\ \/ live[r][i].stage = "waiting"
       \/ LateErrors /\ live[r][i].stage \in {"relaying", "discarded"}
    /\ LET a == live[r][i]
           w == AfterFailure(a.route, World)
           n == NextAttempt(a.route, w)
           degrade == <<a.route.pool, a.route.up>> \in AutoProtocol /\ ~a.forced /\ ~sent[r]
           retry == MayRetry(r) /\ ~sent[r]
           again == IF a.stage = "discarded" THEN [late EXCEPT ![r] = Capped(@ + 1, Slots)] ELSE late
       IN  \/ /\ degrade
              /\ live' = [live EXCEPT ![r][i] = Waiting(a.route, TRUE)]
              /\ CountSend(r, a.route)
              /\ late' = again
              /\ UNCHANGED <<pool, credit, sent, closed, crashed>>
           \/ /\ ~degrade /\ retry /\ n.kind = "route"
              /\ Becomes(n.world)
              /\ live' = [live EXCEPT ![r][i] = Waiting(n.to, FALSE)]
              /\ CountSend(r, n.to)
              /\ late' = again
              /\ UNCHANGED <<sent, closed, crashed>>
           \/ /\ ~degrade /\ retry /\ n.kind = "broken"
              /\ Becomes(n.world)
              /\ crashed' = TRUE
              /\ live' = [live EXCEPT ![r][i] = NoAttempt]
              /\ UNCHANGED <<history, sent, closed>>
           \/ /\ ~degrade /\ ~(retry /\ n.kind \in {"route", "broken"})
              /\ Becomes(IF retry THEN n.world ELSE w)
              /\ sent' = [sent EXCEPT ![r] = TRUE]      \* 502, 504 or destroy
              /\ closed' = [closed EXCEPT ![r] = TRUE]
              /\ live' = [live EXCEPT ![r][i] = NoAttempt]
              /\ UNCHANGED <<history, crashed>>
    /\ UNCHANGED <<draining, phase, route>>

\* The upstream's body ends: the client's response ends with it, unless the
\* answer was thrown away.
BodyEnds(r, i) ==
    /\ Up
    /\ live[r][i].stage \in {"relaying", "discarded"}
    /\ closed' = [closed EXCEPT ![r] = @ \/ live[r][i].stage = "relaying"]
    /\ live' = [live EXCEPT ![r][i] = NoAttempt]
    /\ UNCHANGED <<pool, credit, draining, phase, route, history, sent, crashed>>

-----------------------------------------------------------------------------
(* Everybody else.                                                         *)

\* The client goes away; nothing tells the upstream attempts.
ClientLeaves(r) ==
    /\ Up
    /\ phase[r] = "proxied"
    /\ ~closed[r]
    /\ closed' = [closed EXCEPT ![r] = TRUE]
    /\ UNCHANGED <<pool, credit, draining, phase, route, live, history, sent, crashed>>

\* drainSite and resumeSite
DrainSite ==
    /\ SiteDrains
    /\ Up
    /\ draining' = ~draining
    /\ UNCHANGED <<pool, credit, phase, route, live, history, sent, closed, crashed>>

\* ProxyRoutes.replace: requests under way keep their old objects.
ReplaceRoutes ==
    /\ Reloads
    /\ Up
    /\ pool' = [k \in Pools |-> Rebuilt(pool[k])]
    /\ credit' = [k \in Pools |-> [u \in Range1(k) |-> 0]]
    /\ route' = [r \in Requests |-> [route[r] EXCEPT !.stale = TRUE]]
    /\ live' = [r \in Requests |->
                  [i \in 1..Slots |-> [live[r][i] EXCEPT !.route.stale = TRUE]]]
    /\ UNCHANGED <<draining, phase, history, sent, closed, crashed>>

Tick ==
    /\ Clock
    /\ Up
    /\ \E k \in Pools : \E u \in Range1(k) : pool[k][u].openFor > 0
    /\ pool' = [k \in Pools |-> Ticked(pool[k])]
    /\ UNCHANGED <<credit, draining, phase, route, live, history, sent, closed, crashed>>

Outcome(r, i) == AnswerOk(r, i) \/ AnswerRetryable(r, i) \/ Fails(r, i) \/ BodyEnds(r, i)

Next ==
    \/ \E r \in Requests :
          \/ Refuse(r) \/ Admit(r) \/ AnswerEarly(r) \/ Send(r) \/ ClientLeaves(r)
          \/ \E i \in 1..Slots : Outcome(r, i)
    \/ DrainSite \/ ReplaceRoutes \/ Tick

Spec == Init /\ [][Next]_vars

\* A body ends or is given up by the HTTP server, an upstream answers or times
\* out, its body ends or times out, and the clock runs.  No client has to come.
Fairness ==
    /\ \A r \in Requests :
          /\ WF_vars(Send(r) \/ AnswerEarly(r))
          /\ \A i \in 1..Slots :
                /\ WF_vars(AnswerOk(r, i) \/ AnswerRetryable(r, i) \/ Fails(r, i))
                /\ WF_vars(BodyEnds(r, i))
    /\ WF_vars(Tick)

FairSpec == Spec /\ Fairness

-----------------------------------------------------------------------------

TypeOK ==
    /\ DOMAIN pool = Pools /\ \A k \in Pools : PoolTypeOK(pool[k], Size[k])
    /\ DOMAIN credit = Pools /\ \A k \in Pools : credit[k] \in [Range1(k) -> Int]
    /\ draining \in BOOLEAN
    /\ phase \in [Requests -> {"idle", "admitted", "proxied"}]
    /\ route \in [Requests -> Route]
    /\ live \in [Requests -> [1..Slots -> [route: Route, forced: BOOLEAN, stage: Stage]]]
    /\ sends \in [Requests -> 0..3]
    /\ asked \in [Requests -> SUBSET (Pools \X Nat)]
    /\ late \in [Requests -> 0..Slots]
    /\ sent \in [Requests -> BOOLEAN]
    /\ closed \in [Requests -> BOOLEAN]
    /\ crashed \in BOOLEAN

\* The breakers stay consistent under the calls the proxy makes.
BreakersConsistent == \A k \in Pools : PoolInv(pool[k])

\* The state is well formed, the breakers included, under every disturbance.
Consistent == TypeOK /\ BreakersConsistent

\* No interleaving of answers, errors, drains and reloads makes a callback throw:
\* a second response.writeHead or an attempt on a resolution without a url is an
\* uncaught exception that ends the process.
\* Not true of this code when a site is drained (README, section 6); no run checks it.
NoCrash == ~crashed

\* The retries of a request follow one another: one of its attempts is in front
\* of an upstream, or answers the client, at a time.  Only an answer that was
\* thrown away and whose stream then fails adds one, by its own retry, and no
\* more than one each.
OneAttemptAtATime ==
    \A r \in Requests :
        Cardinality({i \in 1..Slots : live[r][i].stage \in {"waiting", "relaying"}}) <= 1 + late[r]

\* A request whose method is not safe is asked of one upstream only, unless the
\* location allows unsafe fallback, and of that upstream once; twice if its
\* protocol is "auto", which is tried again over HTTP/1.1.
UnsafeSentOnce ==
    \A r \in Requests \ Safe : ~AllowUnsafe =>
        /\ Cardinality(asked[r]) <= 1
        /\ sends[r] <= IF asked[r] \subseteq AutoProtocol THEN 2 ELSE 1

\* Once a half-open upstream was given its probe, the breaker closes or opens.
HalfOpenResolves ==
    \A k \in Pools : \A u \in Range1(k) :
        pool[k][u].inFlight ~> ~pool[k][u].inFlight

\* Every request that was admitted is answered in the end.
Answered == \A r \in Requests : phase[r] = "admitted" ~> closed[r]

\* No failure counter is reset and no breaker becomes half-open.
NobodyRecovers ==
    \A k \in Pools : \A u \in Range1(k) :
        /\ pool'[k][u].failures >= pool[k][u].failures
        /\ pool'[k][u].state = "half-open" => pool[k][u].state = "half-open"

\* The retries of nextAttempt come to an end, and with them every request, once
\* upstreams stop recovering: each attempt uses up failures of some breaker.
AnsweredIfNobodyRecovers == <>[][NobodyRecovers]_vars => Answered

\* An attempt goes to the fallback pool only when no upstream of the primary
\* pool is available.
\* Not true of this code (README, section 6); no run checks it.
FallbackIsLastResort ==
    [][\A r \in Requests : \A i \in 1..Slots :
          /\ live'[r][i] # live[r][i]
          /\ live'[r][i].stage = "waiting"
          /\ live'[r][i].route.pool = "fallback"
          /\ ~live'[r][i].forced
          /\ ~live'[r][i].route.stale
          => Available(pool'["primary"]) = {}]_vars
=============================================================================
