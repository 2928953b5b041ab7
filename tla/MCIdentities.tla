---------------------------- MODULE MCIdentities ----------------------------
EXTENDS Identities

Interchangeable == Permutations(Clients) \cup Permutations(Sessions) \cup Permutations(Invitations)

MCFixed == ("owner" :> {"users:write", "roles:write", "logs:read-sensitive"}) @@ ("admin" :> {"users:write", "roles:write"})
           @@ ("viewer" :> {"dns:read"})
MCCustom == "hr" :> {"users:write"}

Op(k, u, r) == [kind |-> k, user |-> u, role |-> r, enabled |-> TRUE, scopes |-> {}]
Off(u) == [Op("update", u, "same") EXCEPT !.enabled = FALSE]
MCOps == {Op("invite", "bob", "owner"), Op("update", "admin", "viewer"), Op("update", "bob", "hr"),
          Off("bob"), Off("admin"), Op("update", "bob", "same"), Op("role", "bob", "hr"),
          [Op("token", "bob", "same") EXCEPT !.scopes = {"users:write"}], Op("sessions", "bob", "same"), Op("revoke", "bob", "same")}
=============================================================================
