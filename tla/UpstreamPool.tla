---------------------------- MODULE UpstreamPool ----------------------------
(***************************************************************************)
(* The class UpstreamPool of src/src/services/proxy-routes.js as operators *)
(* on the value of a pool: a function from the positions of the array      *)
(* this.upstreams to upstream records.  Modules that keep a pool in a      *)
(* variable (PoolCalls, ProxyRequests) apply these operators to it.        *)
(*                                                                         *)
(* Time is relative: openFor is the number of clock ticks left until       *)
(* openUntil, so "openUntil <= now" reads openFor = 0.  The counters       *)
(* consecutiveFailures, activeFailures and activeSuccesses are compared    *)
(* with a threshold and nothing else, so they saturate at that threshold.  *)
(***************************************************************************)
EXTENDS Integers, FiniteSets

CONSTANTS
    FailureThreshold,   \* options.failureThreshold: failures that open the breaker
    OpenTicks,          \* options.openMs, in clock ticks
    ProbeFailures,      \* health.failureThreshold of an upstream
    ProbeSuccesses      \* health.recoveryThreshold of an upstream

ASSUME ThresholdAssumption ==
    /\ FailureThreshold \in Nat \ {0}
    /\ OpenTicks \in Nat \ {0}
    /\ ProbeFailures \in Nat \ {0}
    /\ ProbeSuccesses \in Nat \ {0}

None == 0   \* next() returned null: no array position

BreakerState == {"healthy", "open", "half-open"}

Upstream ==
    [ state: BreakerState,
      failures: 0..FailureThreshold,
      openFor: 0..OpenTicks,
      inFlight: BOOLEAN,            \* halfOpenInFlight
      draining: BOOLEAN,
      activeHealthy: BOOLEAN,
      activeFailures: 0..ProbeFailures,
      activeSuccesses: 0..ProbeSuccesses ]

Fresh ==
    [ state |-> "healthy", failures |-> 0, openFor |-> 0, inFlight |-> FALSE,
      draining |-> FALSE, activeHealthy |-> TRUE,
      activeFailures |-> 0, activeSuccesses |-> 0 ]

FirstOf(S) == CHOOSE i \in S : \A j \in S : i <= j

Capped(n, bound) == IF n < bound THEN n ELSE bound

-----------------------------------------------------------------------------
(* next(): half-open promotion, then a probe, then weighted round robin.   *)

Promoted(p) ==
    [u \in DOMAIN p |->
        IF p[u].state = "open" /\ p[u].openFor = 0
        THEN [p[u] EXCEPT !.state = "half-open"]
        ELSE p[u]]

\* Faulty variant: a half-open upstream is handed out while its probe is out.
ProbeableAgain(p) == {u \in DOMAIN p : p[u].state = "half-open" /\ ~p[u].draining}

Probeable(p) ==
    {u \in DOMAIN p : /\ p[u].state = "half-open"
                      /\ ~p[u].inFlight
                      /\ ~p[u].draining}

Available(p) ==
    {u \in DOMAIN p : /\ p[u].state = "healthy"
                      /\ p[u].activeHealthy
                      /\ ~p[u].draining}

\* c[1] + ... + c[n], as reduce() adds up an array.
PrefixSum(c, n) ==
    LET sum[i \in 0..n] == IF i = 0 THEN 0 ELSE sum[i - 1] + c[i] IN sum[n]

TotalWeight(S, weight) ==
    PrefixSum([u \in DOMAIN weight |-> IF u \in S THEN weight[u] ELSE 0],
              Cardinality(DOMAIN weight))

\* The loop keeps the first maximum it meets, in array order.
Heaviest(S, credit) == FirstOf({u \in S : \A v \in S : credit[v] <= credit[u]})

\* Faulty variant: the credits are ignored.
RoundRobinFirst(S, credit, weight) == [up |-> FirstOf(S), credit |-> credit]

\* The upstream the round robin would pick from S, and the credits after it.
RoundRobin(S, credit, weight) ==
    LET raised == [u \in DOMAIN credit |->
                      IF u \in S THEN credit[u] + weight[u] ELSE credit[u]]
        chosen == Heaviest(S, raised)
    IN  [ up |-> chosen,
          credit |-> [raised EXCEPT ![chosen] = @ - TotalWeight(S, weight)] ]

\* Everything next() does: the upstream returned, the pool and the credits.
Select(p, credit, weight) ==
    LET q == Promoted(p)
    IN  IF Probeable(q) # {}
        THEN LET u == FirstOf(Probeable(q))
             IN  [up |-> u, pool |-> [q EXCEPT ![u].inFlight = TRUE], credit |-> credit]
        ELSE IF Available(q) = {}
        THEN [up |-> None, pool |-> q, credit |-> credit]
        ELSE LET pick == RoundRobin(Available(q), credit, weight)
             IN  [up |-> pick.up, pool |-> q, credit |-> pick.credit]

-----------------------------------------------------------------------------
(* markFailure, markSuccess, setDraining, recordActiveProbe.               *)

Opens(x) == x.state = "half-open" \/ x.failures + 1 >= FailureThreshold

\* Faulty variants: the in-flight mark survives the failure; a failure reported
\* while the breaker is open does not start the wait anew.
FailedKeepsMark(p, u) ==
    [p EXCEPT ![u].failures = Capped(@ + 1, FailureThreshold),
              ![u].state = IF Opens(p[u]) THEN "open" ELSE @,
              ![u].openFor = IF Opens(p[u]) THEN OpenTicks ELSE @]
FailedOpensOnce(p, u) ==
    [p EXCEPT ![u].inFlight = FALSE,
              ![u].failures = Capped(@ + 1, FailureThreshold),
              ![u].state = IF Opens(p[u]) THEN "open" ELSE @,
              ![u].openFor = IF Opens(p[u]) /\ p[u].state # "open" THEN OpenTicks ELSE @]

Failed(p, u) ==
    [p EXCEPT ![u].inFlight = FALSE,
              ![u].failures = Capped(@ + 1, FailureThreshold),
              ![u].state = IF Opens(p[u]) THEN "open" ELSE @,
              ![u].openFor = IF Opens(p[u]) THEN OpenTicks ELSE @]

Succeeded(p, u) ==
    [p EXCEPT ![u].state = "healthy",
              ![u].failures = 0,
              ![u].openFor = 0,
              ![u].inFlight = FALSE]

Drained(p, u, value) == [p EXCEPT ![u].draining = value]

ProbedHealthy(p, u) ==
    LET n == Capped(p[u].activeSuccesses + 1, ProbeSuccesses)
    IN  [p EXCEPT ![u].activeFailures = 0,
                  ![u].activeSuccesses = n,
                  ![u].activeHealthy = @ \/ n = ProbeSuccesses]

ProbedUnhealthy(p, u) ==
    LET n == Capped(p[u].activeFailures + 1, ProbeFailures)
    IN  [p EXCEPT ![u].activeSuccesses = 0,
                  ![u].activeFailures = n,
                  ![u].activeHealthy = @ /\ n < ProbeFailures]

\* One tick of this.now().
Ticked(p) ==
    [u \in DOMAIN p |-> [p[u] EXCEPT !.openFor = IF @ = 0 THEN 0 ELSE @ - 1]]

\* ProxyRoutes.replace: new upstream objects that keep nothing but draining.
Rebuilt(p) == [u \in DOMAIN p |-> [Fresh EXCEPT !.draining = p[u].draining]]

-----------------------------------------------------------------------------
(* What every reachable pool satisfies, whatever order the calls come in.  *)

PoolTypeOK(p, N) == p \in [1..N -> Upstream]

\* A breaker is closed exactly as long as it has counted fewer failures in a row
\* than the threshold.
TrippedIsNotHealthy(p) ==
    \A u \in DOMAIN p : p[u].state = "healthy" <=> p[u].failures < FailureThreshold

\* The in-flight mark belongs to a half-open breaker and to no other.
InFlightOnlyHalfOpen(p) ==
    \A u \in DOMAIN p : p[u].inFlight => p[u].state = "half-open"

\* Only an open breaker has time left to wait.
OnlyOpenWaits(p) ==
    \A u \in DOMAIN p : p[u].openFor > 0 => p[u].state = "open"

\* An upstream in rotation has not reached the failures that take it out, and
\* one taken out has not reached the successes that restore it.
ActiveVerdictEarned(p) ==
    \A u \in DOMAIN p :
        IF p[u].activeHealthy
        THEN p[u].activeFailures < ProbeFailures
        ELSE p[u].activeSuccesses < ProbeSuccesses

PoolInv(p) ==
    /\ TrippedIsNotHealthy(p)
    /\ InFlightOnlyHalfOpen(p)
    /\ OnlyOpenWaits(p)
    /\ ActiveVerdictEarned(p)
=============================================================================
