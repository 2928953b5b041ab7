------------------------ MODULE MCPolicySubscriptions ------------------------
(* Small instances of PolicySubscriptions for TLC. *)
EXTENDS PolicySubscriptions

CONSTANTS old, new

BothUrls == {old, new}
=============================================================================
