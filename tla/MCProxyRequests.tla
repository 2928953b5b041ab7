-------------------------- MODULE MCProxyRequests ---------------------------
(* Small instances of ProxyRequests for TLC: get and post share a location   *)
(* with a primary pool of two upstreams and a fallback pool of one.          *)
EXTENDS ProxyRequests

CONSTANTS get, post

BothRequests == {get, post}
OnlyGet == {get}
TwoAndOne == [k \in Pools |-> IF k = "primary" THEN 2 ELSE 1]
TwoOneWeights == [k \in Pools |-> [u \in 1..Size[k] |-> IF u = 1 /\ k = "primary" THEN 2 ELSE 1]]
OneEach == [k \in Pools |-> 1]
EqualWeights == [k \in Pools |-> [u \in 1..Size[k] |-> 1]]
FirstIsAuto == {<<"primary", 1>>}
NoAuto == {}
=============================================================================
