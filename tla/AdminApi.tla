------------------------------ MODULE AdminApi ------------------------------
(* Changes to the configuration through the administration API: the store of  *)
(* the configuration with its atomic file (admin/config-store.js), the zones  *)
(* and their SOA serials (admin/domains.js, dns/zone-file.js), idempotency    *)
(* keys and the audit chain in SQLite, and the handlers of admin/server.js    *)
(* and admin/api-v2.js that use them.                                         *)
(*                                                                            *)
(* One step is what runs between two awaits.  The only await between the read *)
(* of the configuration and its replacement is the write of the file, in two  *)
(* steps here: the rename, and the continuation that replaces the             *)
(* configuration in memory.  A name is a sequence of labels, a hash is the    *)
(* nested tuple of what it covers, a day is the unit of time.                 *)
EXTENDS Naturals, Integers, Sequences, FiniteSets, SequencesExt, Functions, TLC

CONSTANTS Clients,     \* requests under way at once
          Requests,    \* what they may ask for
          Keys,        \* Idempotency-Keys, of one actor
          FirstConf,   \* the configuration at first
          MaxSerial,   \* 0xffffffff
          PerDay,      \* serials between two dates: YYYYMMDD00
          Retention,   \* days an audit entry is kept
          MaxDays, MaxRequests, MaxFaults, MaxCrashes   \* bounds

ASSUME KeysAssumption == "none" \notin Keys

\* YYYYMMDD00 fits in 32 bits on every day there is.
ASSUME SerialsAssumption ==
  MaxSerial \in Nat /\ MaxDays \in Nat /\ \A d \in 0 .. MaxDays : d * PerDay \in 0 .. MaxSerial

VARIABLES conf,    \* ConfigStore.#config
          disk,    \* config.json
          req,     \* per client: where its request is
          keys,    \* table idempotency_keys
          audit,   \* table audit_log, in the order of its ids
          day,     \* the clock
          hist     \* history: bounds, effects per key, what went wrong

vars == <<conf, disk, req, keys, audit, day, hist>>

Idle == [pc |-> "idle"]
NoKey == [state |-> "none"]
Row == {"none", "pending", "completed"}
InFlight == {c \in Clients : req[c].pc \in {"writing", "renamed"}}

IsConf(cf) ==
  /\ cf = [zones |-> cf.zones, recs |-> cf.recs]
  /\ cf.zones = [z \in DOMAIN cf.zones |-> [serial |-> cf.zones[z].serial, opts |-> cf.zones[z].opts]]
  /\ \A z \in DOMAIN cf.zones : cf.zones[z].serial \in 0 .. MaxSerial

ASSUME FirstConfAssumption == IsConf(FirstConf)

TypeOK ==
  /\ IsConf(conf) /\ IsConf(disk)
  /\ \A c \in Clients : req[c].pc \in {"idle", "holding", "writing", "renamed"}
  /\ \A k \in Keys : keys[k].state \in Row
  /\ day \in 0 .. MaxDays

Init ==
  /\ conf = FirstConf /\ disk = FirstConf
  /\ req = [c \in Clients |-> Idle] /\ keys = [k \in Keys |-> NoKey]
  /\ audit = <<>> /\ day = 0
  /\ hist = [requests |-> 0, faults |-> 0, crashes |-> 0, effects |-> [k \in Keys |-> 0],
             excused |-> {}, orphans |-> {}, acked |-> {}, races |-> {}]

----------------------------------------------------------------------------
(* Zones and serials.                                                         *)

BelongsTo(n, z) == IsSuffix(z, n)
NoZone == <<>>

\* classifyDomain: the longest zone a name belongs to.
Zone(cf, n) ==
  LET above == {z \in DOMAIN cf.zones : BelongsTo(n, z)} IN
  IF above = {} THEN NoZone ELSE CHOOSE z \in above : \A y \in above : Len(y) <= Len(z)

Direct(cf, z) == {r \in cf.recs : Zone(cf, r.name) = z}
Authority(cf, z) == [opts |-> cf.zones[z].opts, recs |-> Direct(cf, z)]

DateBase == day * PerDay
AnySerial(s) == IF s + 1 > DateBase THEN s + 1 ELSE DateBase
CanBump(s) == s < MaxSerial
Larger(a, b) == IF a > b THEN a ELSE b

\* rewriteSuffix
Rewritten(n, from, to) == IF BelongsTo(n, from) THEN SubSeq(n, 1, Len(n) - Len(from)) \o to ELSE n

----------------------------------------------------------------------------
(* What a request makes of the configuration it has read, cf.                 *)

Without(cf, z) == [zones |-> [y \in {y \in DOMAIN cf.zones : ~BelongsTo(y, z)} |-> cf.zones[y]],
                   recs  |-> {r \in cf.recs : ~BelongsTo(r.name, z)}]

CreatedAlone(cf, r) ==
  [zones |-> (r.zone :> [serial |-> DateBase, opts |-> 0]), recs |-> cf.recs \cup r.add]

\* createDomainPlan, POST /api/v2/dns/zones
Created(cf, r) ==
  LET s == IF r.serial < 0 THEN DateBase ELSE r.serial IN
  [zones |-> [y \in DOMAIN cf.zones \cup {r.zone} |-> IF y = r.zone THEN [serial |-> s, opts |-> 0] ELSE cf.zones[y]],
   recs  |-> cf.recs \cup r.add]

\* updateDomain, renameDomainTree
Renamed(cf, r) ==
  LET moved == [y \in DOMAIN cf.zones |-> Rewritten(y, r.zone, r.to)]
      old(y) == CHOOSE x \in DOMAIN cf.zones : moved[x] = y
      names == {moved[x] : x \in DOMAIN cf.zones} IN
  [zones |-> [y \in names |-> IF y = r.to THEN [cf.zones[old(y)] EXCEPT !.opts = r.opts] ELSE cf.zones[old(y)]],
   recs  |-> {[x EXCEPT !.name = Rewritten(x.name, r.zone, r.to)] : x \in cf.recs}]
RenameConflict(cf, r) ==
  \E y, x \in DOMAIN cf.zones : ~BelongsTo(y, r.zone) /\ BelongsTo(x, r.zone) /\ Rewritten(x, r.zone, r.to) = y

\* planZoneImport: the serial it sets is overwritten by bumpZoneSerials.
Imported(cf, r) == [cf EXCEPT !.recs = (IF r.replace THEN @ \ Direct(cf, r.zone) ELSE @) \cup r.add,
                              !.zones[r.zone].opts = IF r.serial < 0 THEN @ ELSE r.opts]
Batched(cf, r) == [cf EXCEPT !.recs = (@ \ r.del) \cup r.add]

Planned(cf, r) ==
  CASE r.op = "create" -> Created(cf, r)
    [] r.op = "delete" -> Without(cf, r.zone)
    [] r.op = "update" -> Renamed(cf, r)
    [] r.op = "import" -> Imported(cf, r)
    [] r.op \in {"batch", "put"} -> Batched(cf, r)

Plannable(cf, r) ==
  /\ r.op # "put" => (r.zone \in DOMAIN cf.zones) = (r.op # "create")
  /\ r.op = "update" => ~RenameConflict(cf, r)
  /\ r.op \in {"import", "batch"} => \A x \in r.add : Zone(cf, x.name) = r.zone
  /\ r.op = "import" => CanBump(cf.zones[r.zone].serial)
  /\ r.op = "batch" => r.del \subseteq Direct(cf, r.zone)

TouchedAtApex(next) == {z \in DOMAIN conf.zones \cap DOMAIN next.zones :
                          {r \in conf.recs : r.name = z} # {r \in next.recs : r.name = z}}

\* ConfigStore.update: serials follow the configuration in memory, not the one the request read.
Touched(next) == {z \in DOMAIN conf.zones \cap DOMAIN next.zones : Authority(conf, z) # Authority(next, z)}
Bumped(next) ==
  [next EXCEPT !.zones = [z \in DOMAIN @ |->
     IF z \notin DOMAIN conf.zones THEN @[z]
     ELSE [@[z] EXCEPT !.serial = IF z \in Touched(next) THEN AnySerial(conf.zones[z].serial) ELSE conf.zones[z].serial]]]
WithImported(next, r) ==
  IF r.op # "import" \/ r.serial < 0 THEN next
  ELSE [next EXCEPT !.zones[r.zone].serial = Larger(@, r.serial)]

Acceptable(cf, r) == Plannable(cf, r) /\ \A z \in Touched(Planned(cf, r)) : CanBump(conf.zones[z].serial)
Updated(cf, r) == WithImported(Bumped(Planned(cf, r)), r)

----------------------------------------------------------------------------
(* Idempotency keys and the audit chain.                                      *)

Unexpired == [k \in Keys |-> IF keys[k].state # "none" /\ day > keys[k].since THEN NoKey ELSE keys[k]]
Reserved(r) == [Unexpired EXCEPT ![r.key] = [state |-> "pending", fp |-> r, since |-> day]]
CompletedByDeletion(k) == [keys EXCEPT ![k] = NoKey]
Completed(k) == [keys EXCEPT ![k].state = "completed"]
Abandoned(k) == IF k \in Keys /\ keys[k].state = "pending" THEN [keys EXCEPT ![k] = NoKey] ELSE keys

Genesis == <<>>
Hash(e, prev) == <<e.at, e.what, prev>>

\* #rebuildAuditChain
Rebuilt(log) ==
  LET h[i \in 0 .. Len(log)] == IF i = 0 THEN Genesis ELSE Hash(log[i], h[i - 1]) IN
  [i \in 1 .. Len(log) |-> [log[i] EXCEPT !.prev = h[i - 1], !.hash = h[i]]]

Expired(e) == e.at < day - Retention
Kept(log) ==
  LET k[i \in 0 .. Len(log)] ==
        IF i = 0 THEN <<>> ELSE IF Expired(log[i]) THEN k[i - 1] ELSE Append(k[i - 1], log[i]) IN
  k[Len(log)]
PrunedOnly(log) == Kept(log)
Pruned(log) == IF \E i \in DOMAIN log : Expired(log[i]) THEN Rebuilt(Kept(log)) ELSE log

\* appendAuditEntry
Logged(what) ==
  LET log == Pruned(audit)
      prev == IF log = <<>> THEN Genesis ELSE Last(log).hash
      e == [at |-> day, what |-> what, prev |-> prev, hash |-> Genesis] IN
  Append(log, [e EXCEPT !.hash = Hash(e, prev)])

\* verifyAuditChain
Verified(log) ==
  \A i \in DOMAIN log : LET prev == IF i = 1 THEN Genesis ELSE log[i - 1].hash IN
    log[i].prev = prev /\ log[i].hash = Hash(log[i], prev)

Audited(r) == r.key # "none" \/ r.op = "put"

----------------------------------------------------------------------------
(* Requests.                                                                  *)

\* These read the configuration before their body has arrived; a PUT of the
\* whole configuration holds what its client read with GET.
ReadsFirst(r) == r.op \in {"batch", "update", "put"}

\* Validation lets no other operation and no serial beyond 32 bits through.
ASSUME RequestsAssumption ==
  \A r \in Requests :
    /\ r.op \in {"create", "delete", "update", "import", "batch", "put"}
    /\ r.key \in Keys \cup {"none"} /\ (ReadsFirst(r) => r.key = "none")
    /\ r.op \in {"create", "import"} => r.serial \in Int /\ r.serial <= MaxSerial

Ask(c, r) ==
  /\ req[c].pc = "idle" /\ ReadsFirst(r) /\ hist.requests < MaxRequests
  /\ req' = [req EXCEPT ![c] = [pc |-> "holding", r |-> r, base |-> conf]]
  /\ hist' = [hist EXCEPT !.requests = @ + 1]
  /\ UNCHANGED <<conf, disk, keys, audit, day>>

Removed(r, base) == IF r.op \in {"delete", "update"} THEN DOMAIN base.zones \ DOMAIN Planned(base, r).zones ELSE {}
Racing(base) == (IF InFlight # {} THEN {"overlap"} ELSE {}) \cup (IF base # conf THEN {"stale"} ELSE {})
Going(h, r, base) == [h EXCEPT !.races = @ \cup Racing(base), !.acked = @ \ Removed(r, base)]
Writing(r, base) == [pc |-> "writing", r |-> r, next |-> Updated(base, r)]

Submit(c) ==
  /\ req[c].pc = "holding"
  /\ LET r == req[c].r
         base == req[c].base IN
     IF Acceptable(base, r)
     THEN /\ req' = [req EXCEPT ![c] = Writing(r, base)]
          /\ hist' = Going(hist, r, base)
     ELSE /\ req' = [req EXCEPT ![c] = Idle] /\ UNCHANGED hist
  /\ UNCHANGED <<conf, disk, keys, audit, day>>

\* A request that reads the configuration when it has its body, with no key.
Post(c, r) ==
  /\ req[c].pc = "idle" /\ ~ReadsFirst(r) /\ r.key = "none" /\ hist.requests < MaxRequests
  /\ Acceptable(conf, r)
  /\ req' = [req EXCEPT ![c] = Writing(r, conf)]
  /\ hist' = Going([hist EXCEPT !.requests = @ + 1], r, conf)
  /\ UNCHANGED <<conf, disk, keys, audit, day>>

\* IdempotencyService.execute up to the first await of the operation.
Started(r) == Unexpired[r.key].state = "none"
Execute(c, r) ==
  /\ req[c].pc = "idle" /\ r.key # "none" /\ hist.requests < MaxRequests
  /\ Started(r) /\ Acceptable(conf, r)
  /\ keys' = Reserved(r)
  /\ req' = [req EXCEPT ![c] = Writing(r, conf)]
  /\ hist' = Going([hist EXCEPT !.requests = @ + 1, !.orphans = @ \ {r.key}], r, conf)
  /\ UNCHANGED <<conf, disk, audit, day>>

\* Replays, conflicts and refusals change nothing but what has expired.
Sweep(c, r) ==
  /\ req[c].pc = "idle" /\ r.key # "none" /\ keys # Unexpired
  /\ ~Started(r) => Unexpired[r.key].fp = r
  /\ Started(r) => ~Acceptable(conf, r)
  /\ keys' = Unexpired
  /\ UNCHANGED <<conf, disk, req, audit, day, hist>>

----------------------------------------------------------------------------
(* writeJsonAtomic and what follows it.                                       *)

Rename(c) ==
  /\ req[c].pc = "writing"
  /\ disk' = req[c].next /\ req' = [req EXCEPT ![c].pc = "renamed"]
  /\ UNCHANGED <<conf, keys, audit, day, hist>>

WriteFailsLate(c) ==
  /\ req[c].pc = "writing" /\ hist.faults < MaxFaults
  /\ conf' = req[c].next /\ keys' = Abandoned(req[c].r.key) /\ req' = [req EXCEPT ![c] = Idle]
  /\ hist' = [hist EXCEPT !.faults = @ + 1]
  /\ UNCHANGED <<disk, audit, day>>

WriteFails(c) ==
  /\ req[c].pc = "writing" /\ hist.faults < MaxFaults
  /\ keys' = Abandoned(req[c].r.key) /\ req' = [req EXCEPT ![c] = Idle]
  /\ hist' = [hist EXCEPT !.faults = @ + 1]
  /\ UNCHANGED <<conf, disk, audit, day>>

TakesEffect(h, r) == IF r.key = "none" THEN h ELSE [h EXCEPT !.effects[r.key] = @ + 1]
Acknowledged(h, r) == IF r.op = "create" THEN [h EXCEPT !.acked = @ \cup {r.zone}] ELSE h

Apply(c) ==
  /\ req[c].pc = "renamed"
  /\ LET r == req[c].r
         next == req[c].next IN
     /\ conf' = next
     /\ audit' = IF Audited(r) THEN Logged(hist.requests) ELSE audit
     /\ keys' = IF r.key = "none" THEN keys ELSE Completed(r.key)
     /\ hist' = Acknowledged(TakesEffect(hist, r), r)
  /\ req' = [req EXCEPT ![c] = Idle]
  /\ UNCHANGED <<disk, day>>

\* The audit entry or the completion of the key fails: the configuration has
\* changed, the client gets an error and the key is given up, unless the
\* storage is closed and that fails too.
ApplyFails(c) ==
  /\ req[c].pc = "renamed" /\ Audited(req[c].r) /\ hist.faults < MaxFaults
  /\ conf' = req[c].next /\ req' = [req EXCEPT ![c] = Idle]
  /\ LET k == req[c].r.key
         failed == [TakesEffect(hist, req[c].r) EXCEPT !.faults = @ + 1, !.excused = @ \cup {k}] IN
     \E logged \in {TRUE, FALSE}, freed \in {TRUE, FALSE} :
       /\ audit' = IF logged THEN Logged(hist.requests) ELSE audit
       /\ keys' = IF freed THEN Abandoned(k) ELSE keys
       /\ hist' = IF freed THEN failed ELSE [failed EXCEPT !.orphans = @ \cup {k}]
  /\ UNCHANGED <<disk, day>>

\* The process dies and ConfigStore.load() reads the file.
Restart ==
  /\ hist.crashes < MaxCrashes
  /\ conf' = disk /\ req' = [c \in Clients |-> Idle]
  /\ LET lost == {req[c].r.key : c \in InFlight} IN
     hist' = [hist EXCEPT !.crashes = @ + 1, !.excused = @ \cup lost, !.orphans = @ \cup lost]
  /\ UNCHANGED <<disk, keys, audit, day>>

\* No request lasts as long as its key.
NextDay ==
  /\ day < MaxDays /\ InFlight = {}
  /\ day' = day + 1
  /\ hist' = [hist EXCEPT !.excused = @ \cup {k \in Keys : keys[k].state # "none"}]
  /\ UNCHANGED <<conf, disk, req, keys, audit>>

Done == /\ hist.requests = MaxRequests /\ \A c \in Clients : req[c].pc = "idle"
        /\ UNCHANGED vars

Next ==
  \/ \E c \in Clients : Submit(c) \/ Rename(c) \/ WriteFails(c) \/ Apply(c) \/ ApplyFails(c)
  \/ \E c \in Clients, r \in Requests : Ask(c, r) \/ Post(c, r) \/ Execute(c, r) \/ Sweep(c, r)
  \/ Restart \/ NextDay \/ Done

Spec == Init /\ [][Next]_vars

----------------------------------------------------------------------------
(* Properties.                                                                *)

\* The operation of a key takes effect once, however often the request is
\* repeated and whatever runs at the same time, unless an attempt failed or
\* died after its effect or the key had a day to expire.
AtMostOnce == \A k \in Keys \ hist.excused : hist.effects[k] <= 1

\* A key that is still processing belongs to a request that is, except after
\* a crash or when giving it up failed: nobody waits a day for a 409 to end.
PendingHasOwner ==
  \A k \in Keys \ hist.orphans : keys[k].state = "pending" => \E c \in InFlight : req[c].r.key = k

\* The audit chain verifies (verifyAuditChain), pruned or not.
ChainVerifies == Verified(audit)

\* A zone that was answered 201 is in the file and in memory until a request
\* removes it, through crashes and failures, as long as no two changes overlap
\* and none was made from a configuration that had changed meanwhile.
AckedIsKept == hist.races = {} => \A z \in hist.acked : z \in DOMAIN conf.zones /\ z \in DOMAIN disk.zones

\* When nothing is being written the file says what memory says.
FileIsMemory == InFlight = {} /\ "overlap" \notin hist.races => disk = conf

\* Memory, the file and the table of keys agree between requests.
Consistent == TypeOK /\ PendingHasOwner /\ FileIsMemory

\* What secondaries rely on: the serial of a zone never goes back while the
\* zone exists, and grows when what the zone answers changes, even when the
\* change is the creation, renaming or import of another zone.
SerialsMove ==
  [][ "overlap" \notin hist'.races =>
      \A z \in DOMAIN conf.zones \cap DOMAIN conf'.zones :
        /\ conf'.zones[z].serial >= conf.zones[z].serial
        /\ Authority(conf, z) # Authority(conf', z) => conf'.zones[z].serial > conf.zones[z].serial ]_vars
=============================================================================
