----------------------------- MODULE LossyCache -----------------------------
(***************************************************************************)
(* What the proxy cache of src/src/services/proxy-cache.js promises: it    *)
(* may forget anything at any moment, a crash included, but it answers     *)
(* only with what it was given, and once a put or a clear has reported     *)
(* success, what was replaced or cleared never comes back.                 *)
(***************************************************************************)
CONSTANTS
    Ids,        \* cache keys: the digest of base key and variant
    Bodies,     \* response bodies
    Locations,  \* what one clear() removes
    LocationOf  \* the location an id belongs to

VARIABLES
    may,     \* may[i]: the bodies a get may still answer with for id i
    answer   \* the last answer to a caller

vars == <<may, answer>>

NoAnswer == [kind |-> "none"]
Served(i, b) == [kind |-> "served", id |-> i, body |-> b]
Stored(i, b, kept) == [kind |-> "stored", id |-> i, body |-> b, kept |-> kept]
Cleared(where) == [kind |-> "cleared", where |-> where]

Shrinks == \A i \in Ids : may'[i] \subseteq may[i]

Init ==
    /\ may = [i \in Ids |-> {}]
    /\ answer = NoAnswer

\* A put under way: from now on the new body may be served.
Accept(i, b) ==
    /\ answer' = NoAnswer
    /\ may' = [may EXCEPT ![i] = @ \union {b}]

\* Expiry, eviction, a lost file, a crash.
Forget ==
    /\ answer' = NoAnswer
    /\ Shrinks

Serve(i, b) ==
    /\ answer' = Served(i, b)
    /\ b \in may[i]
    /\ Shrinks

\* put() resolved: no other body is left for this id.
Confirm(i, b, kept) ==
    /\ answer' = Stored(i, b, kept)
    /\ Shrinks
    /\ may'[i] \subseteq IF kept THEN {b} ELSE {}

\* clear() resolved: nothing is left of what it was asked to remove.
ConfirmClear(where) ==
    /\ answer' = Cleared(where)
    /\ Shrinks
    /\ \A i \in Ids : LocationOf[i] \in where => may'[i] = {}

Next ==
    \/ Forget
    \/ \E i \in Ids, b \in Bodies :
          \/ Accept(i, b)
          \/ Serve(i, b)
          \/ \E kept \in BOOLEAN : Confirm(i, b, kept)
    \/ \E where \in SUBSET Locations : ConfirmClear(where)

Spec == Init /\ [][Next]_vars
=============================================================================
