----------------------------- MODULE PoolCalls ------------------------------
(***************************************************************************)
(* One UpstreamPool and everyone who calls it.  The HTTP proxy, the        *)
(* WebSocket proxy, the health monitor, the drain operations of the admin  *)
(* API and a reload of the routes all reach the same pool, and nothing     *)
(* orders their calls: an answer may be reported long after the breaker    *)
(* changed state.  Here every call may come at any moment; the module      *)
(* ProxyRequests says which calls the HTTP proxy really makes.             *)
(***************************************************************************)
EXTENDS UpstreamPool

CONSTANTS
    N,           \* number of enabled upstreams of the pool
    PoolWeight,  \* PoolWeight[u]: the configured weight of upstream u
    PoolReloads  \* whether ProxyRoutes.replace is called while the pool is in use

ASSUME PoolAssumption ==
    /\ N \in Nat \ {0}
    /\ PoolWeight \in [1..N -> 1..100]
    /\ PoolReloads \in BOOLEAN

VARIABLES
    upstreams,      \* this.upstreams
    currentWeight,  \* currentWeight of each upstream
    picked,         \* what the last next() returned
    admitted,       \* ghost: probes let through in the current half-open phase
    waited          \* ghost: ticks since the last reported failure, up to OpenTicks

poolVars == <<upstreams, currentWeight, picked, admitted, waited>>

Upstreams == 1..N

\* The ghost counts a probe when next() hands one out and starts again from 0
\* with every new half-open phase.
Counted(p, q, probe) ==
    [u \in Upstreams |->
        IF q[u].state # "half-open" THEN 0
        ELSE (IF p[u].state = "half-open" THEN admitted[u] ELSE 0)
             + (IF u = probe THEN 1 ELSE 0)]

PoolInit ==
    /\ upstreams = [u \in Upstreams |-> Fresh]
    /\ currentWeight = [u \in Upstreams |-> 0]
    /\ picked = None
    /\ admitted = [u \in Upstreams |-> 0]
    /\ waited = [u \in Upstreams |-> OpenTicks]

-----------------------------------------------------------------------------

Next_ ==
    LET s == Select(upstreams, currentWeight, PoolWeight)
    IN  /\ upstreams' = s.pool
        /\ currentWeight' = s.credit
        /\ picked' = s.up
        /\ admitted' = Counted(upstreams, s.pool, s.up)
        /\ UNCHANGED waited

MarkFailure(u) ==
    /\ upstreams' = Failed(upstreams, u)
    /\ admitted' = Counted(upstreams, upstreams', None)
    /\ waited' = [waited EXCEPT ![u] = 0]
    /\ UNCHANGED <<currentWeight, picked>>

MarkSuccess(u) ==
    /\ upstreams' = Succeeded(upstreams, u)
    /\ admitted' = Counted(upstreams, upstreams', None)
    /\ UNCHANGED <<currentWeight, picked, waited>>

SetDraining(u, value) ==
    /\ upstreams[u].draining # value
    /\ upstreams' = Drained(upstreams, u, value)
    /\ UNCHANGED <<currentWeight, picked, admitted, waited>>

RecordActiveProbe(u, healthy) ==
    /\ upstreams' = IF healthy THEN ProbedHealthy(upstreams, u) ELSE ProbedUnhealthy(upstreams, u)
    /\ UNCHANGED <<currentWeight, picked, admitted, waited>>

Replace ==
    /\ PoolReloads
    /\ upstreams' = Rebuilt(upstreams)
    /\ currentWeight' = [u \in Upstreams |-> 0]
    /\ admitted' = [u \in Upstreams |-> 0]
    /\ UNCHANGED <<picked, waited>>

PoolTick ==
    /\ \E u \in Upstreams : waited[u] < OpenTicks
    /\ upstreams' = Ticked(upstreams)
    /\ waited' = [u \in Upstreams |-> Capped(waited[u] + 1, OpenTicks)]
    /\ UNCHANGED <<currentWeight, picked, admitted>>

PoolNext ==
    \/ Next_
    \/ \E u \in Upstreams :
          \/ MarkFailure(u)
          \/ MarkSuccess(u)
          \/ \E value \in BOOLEAN : SetDraining(u, value) \/ RecordActiveProbe(u, value)
    \/ Replace
    \/ PoolTick

PoolSpec == PoolInit /\ [][PoolNext]_poolVars

\* Requests keep arriving and the clock keeps running; nothing else is promised.
FairPoolSpec == PoolSpec /\ WF_poolVars(Next_) /\ WF_poolVars(PoolTick)

-----------------------------------------------------------------------------

\* The types of the variables the breaker is made of.
BreakerTypeOK ==
    /\ PoolTypeOK(upstreams, N)
    /\ picked \in 0..N
    /\ admitted \in [Upstreams -> Nat]
    /\ waited \in [Upstreams -> 0..OpenTicks]

\* Types of all variables of a pool and of its callers.
CallsTypeOK ==
    /\ BreakerTypeOK
    /\ currentWeight \in [Upstreams -> Int]

\* In whatever order failures, successes, probes, drains and reloads reach
\* markFailure, markSuccess, setDraining, recordActiveProbe and replace, the
\* fields of a breaker stay consistent with each other.
BreakerConsistent == PoolInv(upstreams)

\* next() lets at most one request through per half-open phase of an upstream,
\* however late the answers to earlier requests arrive.
OneProbePerPhase == \A u \in Upstreams : admitted[u] <= 1

\* The round robin of next() never loses or creates weight: the credits of a
\* pool cancel out even while upstreams join and leave the set it picks from.
CreditsCancel == PrefixSum(currentWeight, N) = 0

\* Back-off: next() sends a probe to an upstream only when at least openMs have
\* passed since the last failure anyone reported for it, late reports included.
BackoffRespected ==
    [][\A u \in Upstreams : admitted'[u] > admitted[u] => waited[u] = OpenTicks]_poolVars

\* An upstream that from some moment on stays in rotation, with every breaker of
\* the pool closed, is picked again and again: no upstream starves it, whatever
\* the weights and however the others join and leave the rotation.  A reload
\* starts the credits afresh, so reloads have to end as well.
NoStarvation ==
    <>[][~Replace]_poolVars =>
        \A u \in Upstreams :
            <>[](u \in Available(upstreams) /\ \A v \in Upstreams : upstreams[v].state = "healthy")
                => []<>(picked = u)
=============================================================================
