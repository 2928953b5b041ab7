---------------------------- MODULE DnsResolver ----------------------------
(* Questions put to the DNS service over UDP, TCP and DoH                     *)
(* (services/dns-server.js, services/doh-server.js), resolved by              *)
(* dns/resolver.js from the policies, the zones, the records, the cache and   *)
(* the upstreams, while administrators replace the configuration.             *)
(*                                                                            *)
(* The resolver walks the local data without an await that lets anything else *)
(* run: following aliases down to an answer, a cached answer or a request to  *)
(* an upstream is one step.  It waits only for upstreams, and walks their     *)
(* list by index while a change of configuration replaces its contents.       *)
(*                                                                            *)
(* A name is a sequence of labels; time is counted in ticks, DayLength of     *)
(* them a day; a framed TCP message is two units, its length and its body.    *)
EXTENDS Naturals, Sequences, FiniteSets, SequencesExt

CONSTANTS Handlers,    \* requests under way at once
          Questions,   \* what UDP and DoH clients ask
          Stream,      \* the questions one TCP client sends, in order
          Chunks,      \* units that arrive at once
          Confs,       \* configurations an administrator may set
          FirstConf,
          MaxDepth,    \* MAX_CNAME_DEPTH
          MaxEntries, MinTtl, MaxTtl,   \* of the cache
          Responses,   \* what upstreams answer, chains of their own among it
          TTLs,        \* the least TTL of a response
          DayLength,
          Schedules,   \* looked at for the policies' windows
          MaxTime, MaxChanges, MaxQuestions   \* bounds

Question(q) == DOMAIN q = {"name", "type", "cd", "dnssec", "client", "via", "qd"}
Configuration(cf) ==
  /\ cf.upstreams \in Seq(Range(cf.upstreams))
  /\ cf.recs \in Seq(Range(cf.recs)) /\ \A r \in Range(cf.recs) : DOMAIN r = {"name", "type", "val"}

ASSUME ResolverAssumption ==
  /\ Stream \in Seq(Range(Stream)) /\ \A q \in Questions \cup Range(Stream) : Question(q)
  /\ \A q \in Range(Stream) : q.qd \in Nat
  /\ \A cf \in Confs \cup {FirstConf} : Configuration(cf)
  /\ \A r \in Responses : r.recs \in Seq(Range(r.recs))
  /\ Chunks \subseteq Nat /\ TTLs \subseteq Nat /\ MaxDepth \in Nat /\ MaxEntries \in Nat \ {0}
  /\ MinTtl \in Nat /\ MaxTtl \in Nat /\ MinTtl <= MaxTtl /\ MaxTime \in Nat /\ DayLength \in Nat \ {0}
  /\ \A s \in Schedules : s.days \subseteq 0 .. 6 /\ s.start \in 0 .. DayLength - 1 /\ s.end \in 0 .. DayLength - 1

VARIABLES conf,    \* records, zones and policies in memory, and the array of upstreams
          cache,   \* DnsCache.#entries, in the order of the Map
          tasks,   \* per handler: the question it resolves
          conn,    \* the TCP connection: sent units, pending buffer, open
          now,
          out,     \* the answer the last step sent
          count,   \* history: changes and questions so far, frames taken
          seen     \* history, for the keys held: their order of last use, the answers stored

vars == <<conf, cache, tasks, conn, now, out, count, seen>>

Idle == [pc |-> "idle"]
NoAnswer == [from |-> "none"]

Init ==
  /\ conf = FirstConf /\ cache = <<>> /\ tasks = [h \in Handlers |-> Idle]
  /\ conn = [sent |-> 0, pending |-> <<>>, open |-> TRUE]
  /\ now = 0 /\ out = NoAnswer
  /\ count = [changes |-> 0, asked |-> 0, frames |-> <<>>]
  /\ seen = [used |-> <<>>, stored |-> <<>>]

\* The elements of s that are in S, in their order.
Kept(s, S) ==
  LET kept[n \in 0 .. Len(s)] ==
        IF n = 0 THEN <<>> ELSE IF s[n] \in S THEN Append(kept[n - 1], s[n]) ELSE kept[n - 1]
  IN kept[Len(s)]

BelongsTo(n, z) == IsSuffix(z, n)
Longest(S) == CHOOSE s \in S : \A t \in S : Len(t) <= Len(s)

----------------------------------------------------------------------------
(* applyDomainState: a disabled domain takes what is under it out of service. *)

Enabled(cf, n) == \A z \in DOMAIN cf.zones : BelongsTo(n, z) => cf.zones[z]
Zones(cf) == {z \in DOMAIN cf.zones : Enabled(cf, z)}
At(cf, n) == IF Enabled(cf, n) THEN Kept(cf.recs, {r \in Range(cf.recs) : r.name = n}) ELSE <<>>
OfType(recs, t) == IF t = "ANY" THEN recs ELSE Kept(recs, {r \in Range(recs) : r.type = t})
Selected(recs, t) == LET typed == OfType(recs, t) IN IF typed # <<>> THEN typed ELSE OfType(recs, "CNAME")
Renamed(recs, n) == [i \in DOMAIN recs |-> [recs[i] EXCEPT !.name = n]]

\* Wildcards over n with a match, down to names of `least` labels under the star.
Wildcards(cf, n, t, least) ==
  {s \in {SubSeq(n, i, Len(n)) : i \in 2 .. Len(n)} :
     Len(s) >= least /\ Selected(At(cf, <<"*">> \o s), t) # <<>>}
Wild(cf, n, t, least) ==
  LET W == Wildcards(cf, n, t, least) IN
  IF W = {} THEN <<>> ELSE Renamed(Selected(At(cf, <<"*">> \o Longest(W)), t), n)

\* RecordStore.find
Found(cf, n, t) == LET own == Selected(At(cf, n), t) IN IF own # <<>> THEN own ELSE Wild(cf, n, t, 1)

----------------------------------------------------------------------------
(* ZoneStore.resolve                                                          *)

NoZone == <<>>
ZoneFor(cf, n) ==
  LET above == {z \in Zones(cf) : BelongsTo(n, z)} IN IF above = {} THEN NoZone ELSE Longest(above)

Delegation(cf, n, z) ==
  LET cuts == {s \in Suffixes(n) : Len(s) > Len(z) /\ OfType(At(cf, s), "NS") # <<>>} IN
  IF cuts = {} THEN <<>> ELSE OfType(At(cf, Longest(cuts)), "NS")

\* #answers: a name that exists takes nothing from a wildcard.
InZone(cf, n, t, z) == IF At(cf, n) # <<>> THEN Selected(At(cf, n), t) ELSE Wild(cf, n, t, Len(z))

Rcode(code) == [rcode |-> code, recs |-> <<>>, aa |-> FALSE]
Answer(recs, aa) == [rcode |-> "NOERROR", recs |-> recs, aa |-> aa]
SOA(z) == [name |-> z, type |-> "SOA", val |-> z]

FromZone(cf, n, t, z) ==
  LET recs == InZone(cf, n, t, z) IN
  IF Delegation(cf, n, z) # <<>> THEN Answer(<<>>, FALSE)
  ELSE IF n = z /\ t \in {"SOA", "ANY"} THEN Answer(<<SOA(z)>>, TRUE)
  ELSE [rcode |-> IF At(cf, n) = <<>> /\ recs = <<>> THEN "NXDOMAIN" ELSE "NOERROR", recs |-> recs, aa |-> TRUE]

----------------------------------------------------------------------------
(* PolicyStore.evaluate                                                       *)

NameMatches(m, n) ==
  CASE m.kind = "exact" -> n = m.name
    [] m.kind = "suffix" -> BelongsTo(n, m.name)
    [] m.kind = "wildcard" -> BelongsTo(n, m.name) /\ n # m.name

Weekday(t) == (t \div DayLength) % 7
Minutes(t) == t % DayLength

InWindowToday(s, t) ==
  /\ Weekday(t) \in s.days
  /\ s.start < s.end => Minutes(t) >= s.start /\ Minutes(t) < s.end
  /\ s.start > s.end => Minutes(t) >= s.start \/ Minutes(t) < s.end

\* scheduleMatches: after midnight a window is that of the day before.
InWindow(s, t) ==
  IF s.start = s.end THEN Weekday(t) \in s.days
  ELSE IF s.start < s.end THEN Weekday(t) \in s.days /\ Minutes(t) >= s.start /\ Minutes(t) < s.end
  ELSE IF Minutes(t) >= s.start THEN Weekday(t) \in s.days
  ELSE Minutes(t) < s.end /\ (Weekday(t) + 6) % 7 \in s.days

RuleMatches(r, q, t) ==
  /\ NameMatches(r.match, q.name)
  /\ r.qtypes = {} \/ q.type \in r.qtypes
  /\ r.act \in {"A", "AAAA"} => q.type = r.act
  /\ r.clients = {} \/ q.client \in r.clients
  /\ \A s \in r.schedule : InWindow(s, t)

\* The first match in the order of priorities, then of positions; 0 for none.
Policy(cf, q, t) ==
  LET M == {i \in DOMAIN cf.rules : RuleMatches(cf.rules[i], q, t)} IN
  IF M = {} THEN 0
  ELSE CHOOSE i \in M : \A j \in M :
         \/ cf.rules[i].priority < cf.rules[j].priority
         \/ cf.rules[i].priority = cf.rules[j].priority /\ i <= j

----------------------------------------------------------------------------
(* DnsCache                                                                   *)

Key(q) == <<q.name, q.type, q.cd, q.dnssec>>
Others(k) == Kept(cache, {e \in Range(cache) : e.key # k})
Live(entries) == Kept(entries, {e \in Range(entries) : e.until > now})
Hit(k) == {e \in Range(cache) : e.key = k /\ e.until > now}
Touched(k) == IF Hit(k) = {} THEN Others(k) ELSE Append(Others(k), CHOOSE e \in Hit(k) : TRUE)

Bounded(ttl) == IF ttl < MinTtl THEN MinTtl ELSE IF ttl > MaxTtl THEN MaxTtl ELSE ttl
Cacheable(resp, ttl) == resp.rcode = "NOERROR" /\ resp.recs # <<>> /\ ttl > 0 /\ Bounded(ttl) > 0
Newest(entries) == IF Len(entries) > MaxEntries THEN SubSeq(entries, Len(entries) - MaxEntries + 1, Len(entries)) ELSE entries
Stored(k, resp, ttl) ==
  IF Cacheable(resp, ttl)
  THEN Newest(Live(Append(Others(k), [key |-> k, resp |-> resp, until |-> now + Bounded(ttl)])))
  ELSE cache

----------------------------------------------------------------------------
(* resolveInternal down to a local answer or a question for others.  A walk   *)
(* holds the question, the aliases passed, the names visited and its end.     *)

Addresses == {"A", "AAAA"}
Transfers == {"AXFR", "IXFR"}
ZoneTypes == {"A", "AAAA", "CNAME", "MX", "TXT", "NS", "SRV", "SOA", "ANY"}   \* SUPPORTED_TYPES, SOA and ANY

Ended(w, resp) == [w EXCEPT !.end = "answer", !.resp = resp]
Aliased(w, by, recs) ==
  LET target == recs[1].val IN
  IF Len(w.chain) >= MaxDepth \/ target \in w.seen \cup {w.q.name} THEN Ended(w, Rcode("SERVFAIL"))
  ELSE [w EXCEPT !.chain = Append(@, [by |-> by, recs |-> recs]), !.seen = @ \cup {w.q.name},
                 !.q = [w.q EXCEPT !.name = target, !.cd = 0]]     \* followUpQuery

FromPolicy(w, r) ==
  LET rec == [name |-> w.q.name, type |-> r.act, val |-> r.value] IN
  IF r.act \in {"NXDOMAIN", "REFUSED"} THEN Ended(w, Rcode(r.act))
  ELSE IF r.act = "CNAME" /\ w.q.type \in Addresses THEN Aliased(w, "policy", <<rec>>)
  ELSE Ended(w, Answer(<<rec>>, FALSE))

FromRecords(w, resp) ==
  LET aliases == OfType(resp.recs, "CNAME") IN
  IF w.q.type \in Addresses /\ aliases # <<>> THEN Aliased(w, "records", aliases) ELSE Ended(w, resp)

LocalData(w) ==
  LET z == ZoneFor(conf, w.q.name)
      recs == Found(conf, w.q.name, w.q.type) IN
  IF w.q.type \notin ZoneTypes THEN [w EXCEPT !.end = "throws"]
  ELSE IF z # NoZone THEN FromRecords(w, FromZone(conf, w.q.name, w.q.type, z))
  ELSE IF recs # <<>> THEN FromRecords(w, Answer(recs, TRUE))
  ELSE [w EXCEPT !.end = "ask"]

HopCacheFirst(w) ==
  IF w.end = "go" /\ Hit(Key(w.q)) # {} THEN [w EXCEPT !.end = "ask"]
  ELSE IF w.end # "go" THEN w
  ELSE IF Policy(conf, w.q, now) # 0 THEN FromPolicy(w, conf.rules[Policy(conf, w.q, now)])
  ELSE LocalData(w)

\* One level of resolveInternal.
Hop(w) ==
  LET i == Policy(conf, w.q, now) IN
  IF w.end # "go" THEN w
  ELSE IF w.q.qd # 1 THEN Ended(w, Rcode("FORMERR"))
  ELSE IF w.q.type \in Transfers THEN Ended(w, Rcode("NOTIMP"))
  ELSE IF i # 0 THEN FromPolicy(w, conf.rules[i])
  ELSE LocalData(w)

\* Every level that goes on adds to the chain.
First(q) == [end |-> "go", first |-> q, q |-> q, seen |-> {}, chain |-> <<>>, resp |-> Rcode("SERVFAIL")]
Walk(q) ==
  LET walk[n \in 0 .. MaxDepth + 1] == IF n = 0 THEN First(q) ELSE Hop(walk[n - 1]) IN walk[MaxDepth + 1]

WrapTarget(level, resp) == resp

\* What a level makes of the answer to the question it asked in turn.
Wrap(level, resp) ==
  IF level.by = "policy" /\ resp.rcode # "NOERROR" THEN Rcode(resp.rcode)
  ELSE IF resp.rcode = "SERVFAIL" THEN Rcode("SERVFAIL")
  ELSE [rcode |-> resp.rcode, recs |-> level.recs \o resp.recs, aa |-> level.by = "records"]
Wrapped(chain, resp) ==
  LET inner[n \in 0 .. Len(chain)] == IF n = 0 THEN resp ELSE Wrap(chain[Len(chain) + 1 - n], inner[n - 1])
  IN inner[Len(chain)]

----------------------------------------------------------------------------
(* Requests.                                                                  *)

\* An answer goes out, on TCP only if the connection is still there.
Reply(h, via, answer) ==
  /\ out' = IF via = "tcp" /\ ~conn.open THEN NoAnswer ELSE answer
  /\ tasks' = [tasks EXCEPT ![h] = IF via = "tcp" THEN [pc |-> "next"] ELSE Idle]

\* The resolver throws: silence, or a 400 over DoH.
Silence(h, via, w) ==
  /\ w.end = "throws"
  /\ Reply(h, via, [from |-> IF via = "doh" THEN "400" ELSE "none"])
  /\ UNCHANGED <<cache, seen>>

Local(h, via, w) ==
  /\ w.end = "answer"
  /\ Reply(h, via, [from |-> "local", q |-> w.first, resp |-> Wrapped(w.chain, w.resp)])
  /\ UNCHANGED <<cache, seen>>

\* History of what the cache holds: the keys by last use, and the answers stored.
Remembered(k, st) ==
  LET held == {e.key : e \in Range(cache')} IN
  [used |-> Kept(Append(Kept(seen.used, Range(seen.used) \ {k}), k), held),
   stored |-> [x \in DOMAIN st \cap held |-> st[x]]]

FromCache(h, via, w) ==
  /\ w.end = "ask" /\ Hit(Key(w.q)) # {}
  /\ LET e == CHOOSE e \in Hit(Key(w.q)) : TRUE IN
     Reply(h, via, [from |-> "cache", q |-> w.first, asked |-> w.q, raw |-> e.resp, resp |-> Wrapped(w.chain, e.resp)])
  /\ cache' = Touched(Key(w.q)) /\ seen' = Remembered(Key(w.q), seen.stored)

Failed(w, tried, same, stopped) ==
  [from |-> "failed", q |-> w.first, resp |-> Wrapped(w.chain, Rcode("SERVFAIL")),
   missed |-> IF same /\ ~stopped THEN Range(conf.upstreams) \ tried ELSE {}]

AskUpstream(h, via, w) ==
  /\ w.end = "ask" /\ Hit(Key(w.q)) = {}
  /\ IF conf.upstreams = <<>> THEN Reply(h, via, Failed(w, {}, TRUE, FALSE))
     ELSE /\ tasks' = [tasks EXCEPT ![h] = [pc |-> "waiting", via |-> via, w |-> w, i |-> 1, up |-> conf.upstreams[1],
                                            tried |-> {}, began |-> count.changes]]
          /\ out' = NoAnswer
  /\ cache' = Touched(Key(w.q)) /\ UNCHANGED seen

Begin(h, q, via) ==
  LET w == Walk(q) IN
  Silence(h, via, w) \/ Local(h, via, w) \/ FromCache(h, via, w) \/ AskUpstream(h, via, w)

\* A datagram, or a DoH request of the right method, type and size.
Ask(h, q) ==
  /\ tasks[h].pc = "idle" /\ count.asked < MaxQuestions
  /\ Begin(h, q, q.via)
  /\ count' = [count EXCEPT !.asked = @ + 1]
  /\ UNCHANGED <<conf, conn, now>>

\* An upstream answers with whatever records it likes, passed on as they are.
UpstreamAnswers(h, response, ttl) ==
  LET t == tasks[h]
      q == t.w.q
      resp == [rcode |-> response.rcode, aa |-> FALSE, recs |-> response.recs] IN
  /\ t.pc = "waiting"
  /\ Reply(h, t.via, [from |-> "upstream", q |-> t.w.first, asked |-> q, raw |-> resp, resp |-> Wrapped(t.w.chain, resp)])
  /\ cache' = Stored(Key(q), resp, ttl)
  /\ seen' = IF ~Cacheable(resp, ttl) THEN seen
             ELSE Remembered(Key(q), [x \in DOMAIN seen.stored \cup {Key(q)} |->
                    IF x = Key(q) THEN [resp |-> resp, until |-> now + Bounded(ttl)] ELSE seen.stored[x]])
  /\ UNCHANGED <<conf, conn, now, count>>

GivesUpAtOnce(t, retryable) == TRUE
GivesUp(t, retryable) == ~retryable \/ t.i >= Len(conf.upstreams)

\* It fails: time-out, network, HTTP 5xx and an invalid message are retryable, other HTTP errors are not.
UpstreamFails(h, retryable) ==
  LET t == tasks[h]
      tried == t.tried \cup {t.up} IN
  /\ t.pc = "waiting"
  /\ IF GivesUp(t, retryable)
     THEN Reply(h, t.via, Failed(t.w, tried, t.began = count.changes, ~retryable))
     ELSE /\ tasks' = [tasks EXCEPT ![h] = [t EXCEPT !.i = @ + 1, !.up = conf.upstreams[t.i + 1], !.tried = tried]]
          /\ out' = NoAnswer
  /\ UNCHANGED <<conf, cache, conn, now, count, seen>>

----------------------------------------------------------------------------
(* One TCP connection.  Every chunk starts a handler; handlers share the      *)
(* buffer, and each goes on with it after the answer it waited for.           *)

ReceivedAnew(chunk) == chunk
Received(chunk) == conn.pending \o chunk

Data(h, n) ==
  /\ tasks[h].pc = "idle" /\ conn.open /\ conn.sent + n <= 2 * Len(Stream)
  /\ conn' = [conn EXCEPT !.sent = @ + n, !.pending = Received([i \in 1 .. n |-> conn.sent + i])]
  /\ tasks' = [tasks EXCEPT ![h] = [pc |-> "next"]]
  /\ out' = NoAnswer /\ UNCHANGED <<conf, cache, now, count, seen>>

\* The question of the frame a unit belongs to.
QuestionOf(unit) == Stream[(unit + 1) \div 2]

Frame(h) ==
  /\ tasks[h].pc = "next" /\ Len(conn.pending) >= 2 /\ QuestionOf(conn.pending[1]).qd > 0
  /\ conn' = [conn EXCEPT !.pending = SubSeq(@, 3, Len(@))]
  /\ count' = [count EXCEPT !.frames = Append(@, SubSeq(conn.pending, 1, 2))]
  /\ Begin(h, QuestionOf(conn.pending[1]), "tcp")
  /\ UNCHANGED <<conf, now>>

\* A length of zero ends the connection, an incomplete message waits for more.
FrameEnds(h) ==
  /\ tasks[h].pc = "next"
  /\ \/ conn.pending # <<>> /\ QuestionOf(conn.pending[1]).qd = 0 /\ conn' = [conn EXCEPT !.open = FALSE]
     \/ conn.pending = <<>> /\ UNCHANGED conn
     \/ Len(conn.pending) = 1 /\ QuestionOf(conn.pending[1]).qd > 0 /\ UNCHANGED conn
  /\ tasks' = [tasks EXCEPT ![h] = Idle]
  /\ out' = NoAnswer /\ UNCHANGED <<conf, cache, now, count, seen>>

Disconnect ==
  /\ conn.open /\ conn.sent > 0 /\ conn' = [conn EXCEPT !.open = FALSE]
  /\ out' = NoAnswer /\ UNCHANGED <<conf, cache, tasks, now, count, seen>>

----------------------------------------------------------------------------
(* The subscriber of the configuration: every store is replaced, the array of *)
(* upstreams is spliced in place, the cache stays.                            *)
Reconfigure(cf) ==
  /\ count.changes < MaxChanges /\ cf # conf
  /\ conf' = cf /\ count' = [count EXCEPT !.changes = @ + 1]
  /\ out' = NoAnswer /\ UNCHANGED <<cache, tasks, conn, now, seen>>

Tick ==
  /\ now < MaxTime /\ now' = now + 1
  /\ out' = NoAnswer /\ UNCHANGED <<conf, cache, tasks, conn, count, seen>>

UpstreamEnds(h) ==
  \/ \E response \in Responses, ttl \in TTLs : UpstreamAnswers(h, response, ttl)
  \/ \E retryable \in BOOLEAN : UpstreamFails(h, retryable)

Next ==
  \/ \E h \in Handlers :
       \/ \E q \in Questions : Ask(h, q)
       \/ UpstreamEnds(h)
       \/ \E n \in Chunks : Data(h, n)
       \/ Frame(h)
       \/ FrameEnds(h)
  \/ Disconnect
  \/ \E cf \in Confs : Reconfigure(cf)
  \/ Tick

Spec == Init /\ [][Next]_vars

----------------------------------------------------------------------------
(* Properties.                                                                *)

\* Types; the cache holds one entry per key and no more than its limit.
TypeOK ==
  /\ \A h \in Handlers : tasks[h].pc \in {"idle", "next", "waiting"}
  /\ now \in 0 .. MaxTime
  /\ Len(cache) <= MaxEntries
  /\ \A i, j \in DOMAIN cache : cache[i].key = cache[j].key => i = j

\* Nothing local answers a question: no policy, no zone, no record.
Foreign(q) == Policy(conf, q, now) = 0 /\ ZoneFor(conf, q.name) = NoZone /\ Found(conf, q.name, q.type) = <<>>

\* The cache and the upstreams are asked only what no policy, zone or record in
\* force answers, at the end of a chain of aliases too: a rule made after an
\* answer was cached applies to the next question.
LocalFirst ==
  /\ out'.from = "cache" => Foreign(out'.asked)
  /\ \A h \in Handlers : tasks'[h].pc = "waiting" /\ tasks[h].pc # "waiting" => Foreign(tasks'[h].w.q)

\* An answer from the cache is the last one an upstream gave for that name,
\* type and CD bit, and its life is not over.
CacheIsFresh ==
  out'.from = "cache" =>
    LET k == Key(out'.asked) IN
    k \in DOMAIN seen.stored /\ out'.raw = seen.stored[k].resp /\ now < seen.stored[k].until

\* What the cache drops before its time is what was used longest ago.
LeastRecentlyUsed ==
  \A e \in Range(cache) : e.until > now /\ e.key \notin {x.key : x \in Range(cache')} =>
    /\ Len(cache') = MaxEntries
    /\ \A x \in Range(cache) : x.key \in {y.key : y \in Range(cache')} =>
         \E i, j \in DOMAIN seen.used : i < j /\ seen.used[i] = e.key /\ seen.used[j] = x.key

\* What a step takes from the cache is due to come from it, and what it drops is
\* due to go, though nobody clears the cache when the rules change.
CacheIsRight == [][LocalFirst /\ CacheIsFresh /\ LeastRecentlyUsed]_vars

\* Records that lead from the name of q on: those of a name come together and
\* once, the next name is the target of its first alias, and there are no more
\* names than aliases may be followed.
Leads(q, recs) ==
  /\ recs # <<>> => recs[1].name = q.name
  /\ \A i \in 1 .. Len(recs) - 1 : recs[i + 1].name # recs[i].name =>
       \E j \in 1 .. i : /\ recs[j].name = recs[i].name /\ recs[j].type = "CNAME" /\ recs[j].val = recs[i + 1].name
                         /\ \A k \in 1 .. j - 1 : recs[k].name # recs[j].name
  /\ \A i, j \in DOMAIN recs : recs[i].name = recs[j].name => \A k \in i .. j : recs[k].name = recs[i].name
  /\ Cardinality({recs[i].name : i \in DOMAIN recs}) <= MaxDepth + 1

\* What an upstream answered, now or when it was cached; it counts as one record
\* of the name it was asked for.
Section(o) == IF o.from \in {"cache", "upstream"} THEN o.raw.recs ELSE <<>>
Opaque(o) == [name |-> o.asked.name, type |-> "upstream", val |-> "upstream"]

\* The records of an answer lead from the question to its end.  What an upstream
\* answered comes last, as it came, and the local aliases lead to the name it was
\* asked for; only an error leaves it out, and a failure has no local records.
AliasesLead ==
  out.from \in {"local", "cache", "upstream", "failed"} /\ out.q.type \in Addresses =>
    LET recs == out.resp.recs IN
    IF out.resp.rcode = "SERVFAIL" THEN recs \in {<<>>, Section(out)}
    ELSE \/ /\ out.from \in {"local", "failed"} \/ out.resp.rcode # "NOERROR"
            /\ Leads(out.q, recs)
         \/ /\ out.from \in {"cache", "upstream"}
            /\ \E n \in 0 .. Len(recs) : LET own == SubSeq(recs, 1, n) IN
                 recs = own \o Section(out) /\ Leads(out.q, Append(own, Opaque(out)))

\* SERVFAIL for want of an upstream comes after every upstream was tried, unless
\* one refused in a way that ends it or the list changed on the way.
EveryUpstreamTried == out.from = "failed" => out.missed = {}

\* The window of a schedule is a run of minutes from its start on one of its
\* days, over midnight too; a window as long as a day is the calendar day.
WindowsAreRuns ==
  \A s \in Schedules, d \in 7 .. 13, m \in 0 .. DayLength - 2 :
    LET t == now + d * DayLength + m
        length == (s.end + DayLength - s.start) % DayLength IN
    InWindow(s, t) <=>
      IF length = 0 THEN Weekday(t) \in s.days
      ELSE \E back \in 0 .. length - 1 : Minutes(t - back) = s.start /\ Weekday(t - back) \in s.days

\* Handlers that share a connection take its messages whole, once each and in
\* the order they came, however the stream is cut into chunks.
FramesWhole ==
  /\ \A i \in DOMAIN count.frames : count.frames[i] = <<2 * i - 1, 2 * i>>
  /\ conn.pending = [i \in 1 .. conn.sent - 2 * Len(count.frames) |-> 2 * Len(count.frames) + i]

\* Connections, cache and handlers are well formed whatever runs at the same time.
Consistent == TypeOK /\ FramesWhole
=============================================================================
