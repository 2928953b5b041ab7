----------------------------- MODULE MCProxyCache ----------------------------
(* Small instances of ProxyCache for TLC. *)
EXTENDS ProxyCache

CONSTANTS plain, vary, other, short, long, here, there

\* Two variants of one resource, and a resource of another location.
AllIds == {plain, vary, other}
BothBodies == {short, long}
MCResponses == {<<plain, short>>, <<plain, long>>, <<vary, short>>, <<other, long>>}

\* A request with the varied header matches both variants of the resource.
MCRequests == {"bare", "varied"}
MCKeyOf == [i \in {plain, vary, other} |-> IF i = other THEN "other" ELSE "resource"]
MCRequestKey == [q \in MCRequests |-> "resource"]
MCMatches == [q \in MCRequests |-> IF q = "bare" THEN {plain} ELSE {plain, vary}]

BothLocations == {here, there}
MCLocationOf == [i \in {plain, vary, other} |-> IF i = other THEN there ELSE here]
MCSize == [b \in BothBodies |-> IF b = short THEN 1 ELSE 2]
MCLocationLimit == [l \in BothLocations |-> 2]
=============================================================================
