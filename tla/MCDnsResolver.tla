---------------------------- MODULE MCDnsResolver ----------------------------
EXTENDS DnsResolver, TLC

Interchangeable == Permutations(Handlers)
Z == <<"z">>
N(l) == <<l, "z">>
X == <<"x">>
Y == <<"y">>
Rec(n, t, v) == [name |-> n, type |-> t, val |-> v]
Q(n, t) == [name |-> n, type |-> t, cd |-> 0, dnssec |-> 0, client |-> "lan", via |-> "udp", qd |-> 1]
NoBody == [Q(X, "A") EXCEPT !.qd = 0]

Evening == [days |-> {6}, start |-> 2, end |-> 1]
MCSchedules == {Evening, [days |-> {1, 6}, start |-> 0, end |-> 2], [days |-> {3}, start |-> 1, end |-> 1]}

Rule(p, kind, n, act, v) ==
  [priority |-> p, match |-> [kind |-> kind, name |-> n], qtypes |-> {}, clients |-> {}, schedule |-> {},
   act |-> act, value |-> v]

\* a.z -> b.z -> x, asked of upstreams; c.z -> w.z, a wildcard; d.z is delegated; l.z and m.z form a loop.
Zoned ==
  <<Rec(N("a"), "CNAME", N("b")), Rec(N("b"), "CNAME", X), Rec(N("c"), "CNAME", N("w")),
    Rec(<<"*", "z">>, "A", "wild"), Rec(<<"*", "z">>, "A", "wild2"), Rec(N("d"), "NS", N("w")),
    Rec(N("l"), "CNAME", N("m")), Rec(N("m"), "CNAME", N("l"))>>

\* y is an alias of a.z, too long a chain.
Plain == [rules |-> <<Rule(5, "suffix", Y, "CNAME", N("a"))>>, zones |-> (Z :> TRUE), recs |-> Zoned,
          upstreams |-> <<"u1", "u2">>]
\* The zone is out of service; x is blocked in the evening for one client, y an alias of it.
Ruled == [rules |-> <<Rule(5, "suffix", Y, "CNAME", X),
                      [Rule(1, "exact", X, "NXDOMAIN", X) EXCEPT !.schedule = {Evening}, !.clients = {"lan"}],
                      [Rule(2, "wildcard", Z, "A", "blocked") EXCEPT !.qtypes = {"A"}]>>,
          zones |-> (Z :> FALSE), recs |-> <<Rec(N("a"), "A", "a"), Rec(<<"*", "y">>, "TXT", "any")>>, upstreams |-> <<"u2">>]

MCConfs == {Plain, Ruled}
MCQuestions == {Q(N("a"), "A"), Q(X, "A"), [Q(Y, "A") EXCEPT !.dnssec = 1], Q(N("c"), "A"), Q(N("l"), "A"), Q(<<"q", "y">>, "TXT"),
                Q(<<"e", "d", "z">>, "A"), Q(Z, "SOA"), Q(X, "AXFR"), [Q(X, "PTR") EXCEPT !.via = "doh"],
                [Q(X, "A") EXCEPT !.cd = 1, !.client = "wan"], [Q(X, "A") EXCEPT !.qd = 2]}
\* An address; an alias that leads back into the zone, or to nothing; a failure.
Alias == Rec(X, "CNAME", N("a"))
MCResponses == {[rcode |-> "NOERROR", recs |-> <<Rec(X, "A", "u")>>], [rcode |-> "NOERROR", recs |-> <<Alias, Rec(N("a"), "A", "u")>>],
                [rcode |-> "NXDOMAIN", recs |-> <<Alias>>], [rcode |-> "SERVFAIL", recs |-> <<>>]}
MCStream == <<Q(X, "A"), Q(X, "TXT"), NoBody>>
=============================================================================
