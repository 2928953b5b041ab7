# TLA+ models of s12ryt-nodejs-dns-server

The repository is a single-process Node.js server: DNS over UDP, TCP and HTTPS,
a reverse proxy with several upstreams, a managed Cloudflare tunnel, an
administration API with configuration, backups and identities, and a bootstrap
that downloads and starts the runtime. It runs on one event loop, so a callback
is never interrupted; what makes it hard is everything that happens *between*
two callbacks: an upstream answering after the breaker changed, a reload while a
request waits, a pause while a refresh is being written, a crash between two
renames. The modules of this directory model those steps. Section 1 names the
parts and their hazards, 2 how the modules fit, 3 their state and actions, 4 the
runs, 5 the proofs, 6 where the code differs from what is said of it, 7 what is
not modelled.

## 1. Inventory

Each part: its state; its operations; what is hard; what makes it correct.

### Traffic

| part | state | operations | hard | correct when |
|---|---|---|---|---|
| Upstream pool (`services/proxy-routes.js`, class `UpstreamPool`) | per upstream: breaker state, consecutive failures, open-until, half-open mark, draining, active verdict, round-robin credit | `next`, `markFailure`, `markSuccess`, `setDraining`, `recordActiveProbe` | reports arrive late and out of order, from three callers | one probe per half-open phase, back-off respected, no upstream starved, fields consistent |
| Route table (same file, `ProxyRoutes`) | hosts, sites, locations with two pools each, draining sites | `resolve`, `resolveFallback`, `replace`, `setSiteDraining` | a reload while requests hold resolutions of the old table | a report reaches the object it is about; draining survives a reload |
| HTTP proxy (`services/proxy-server.js`) | active requests, attempts, the response's head and end, drain timers | admission, attempt, retry, degradation to HTTP/1.1, drain, abort | callbacks of several attempts of one request, body delays, drains between attempts | each request answered once, unsafe methods sent once, attempts in sequence |
| WebSocket proxy and draining (same file) | open connections and counts per site, drain timers | upgrade, close, idle timeout, drain, resume, abort | the limit is read when the upgrade is requested and counted when it is answered; two sockets close one after the other; a timer of an earlier drain | limit respected, drained sites empty after the grace period |
| Proxy cache (`services/proxy-cache.js`) | index and byte count in memory, index file and body files on disk | `start`, `get`, `put`, `configure`, `clear`, `close`, serialised by a promise queue | crash between body and index, identical bodies, restart | what is served was stored whole, the byte count is the sum of the entries |
| Health monitor (`services/proxy-health.js`) | timers per target | `start`, `pause`, `close`, probe loops | pause and start while a probe is out; reload replaces the targets | one loop per configured upstream |
| HTTP/2 pool, access lists, rate limits (`proxy-http2.js`, `proxy-security.js`) | sessions, downgrade marks, token buckets | request, close; consume | reuse of a closing session; buckets at their limit | a request never gets a dead session; the limit holds over every window |
| Resolver (`dns/resolver.js`, `upstream-doh.js`, `upstream-health.js`) | live list of upstreams, statistics | `resolve` with a CNAME chase and failover | the list is replaced while a query awaits an upstream | every query is answered, chases are bounded |
| DNS cache (`dns/cache.js`) | map in recency order | `get`, `set`, `clear` | expiry and eviction at the limit | never an expired answer, never more than the limit |
| Zones, records, policies (`dns/zones.js`, `records.js`, `policy.js`) | indexes | lookup, `replace` | priorities, wildcards, time windows | lookup agrees with its definition |
| Policy subscriptions (`dns/policy-subscriptions.js`) | configured subscriptions, cached lists, timers, refreshes under way | `start`, `pause`, `replace`, `refresh`, timers | a refresh that outlives the configuration it was started for | published rules belong to configured subscriptions; last known good kept |
| Codec, zone files, listeners (`dns/message.js`, `zone-file.js`, `services/dns-server.js`, `doh-server.js`) | buffers | parse, encode, frame | name compression pointers, partial TCP frames | total on every input |

### Administration

| part | state | operations | hard | correct when |
|---|---|---|---|---|
| Configuration store (`admin/config-store.js`, `atomic-file.js`) | value in memory and on disk, listeners, SOA serials | `load`, `update`, `subscribe` | two updates in flight, disk before memory | no update lost, serials never go back |
| Idempotency (`admin/idempotency-service.js`) | reservations in SQLite | `execute` | the same key twice, failure after a side effect, restart | an operation is carried out once per key |
| Audit (`admin/audit-service.js`) | hash chain in SQLite | record, prune, verify | pruning rebuilds the chain | verification accepts exactly untouched chains |
| Identities (`admin/identity-manager.js`, `access-control.js`, `auth-manager.js`) | users, sessions, tokens, failed logins | login, invite, update, revoke | a user disabled while a login awaits the hash | sessions end with the rights they stand for, an owner remains |
| Backups and recovery (`backup/manager.js`, `recovery/manager.js`, `runtime.js`) | archives, staging and rollback directories, crash marker, maintenance flag | create, restore, recover, enter/reload/exit maintenance | a crash or an error between two file replacements | after a restore, a rollback or a recovery the files are all new or all old |
| Backup scheduler (`backup/scheduler.js`) | timer, running flag | start, pause, run | pause and start during a run | a daily backup is armed or running, and one loop of them is |
| Tunnel (`tunnel/manager.js`) | child process, status, token | configure, start, stop, replacement of the stored token | concurrent starts, a token replaced during a start, an exit while stopping, a replacement that fails in the middle | not modelled |
| Webhooks and telemetry (`observability/*.js`) | buffered samples, delivery jobs | record, flush, deliver, retry | overlapping flushes, slow endpoints | every event delivered or dead-lettered, counted once |
| Admin server (`admin/server.js`, `api-v2.js`, `domains.js`) | none of its own | HTTP routes over the parts above | | |
| Storage (`storage/sqlite-store.js`) | SQLite tables | transactions | | modelled with the owners of its tables |
| Bootstrap (`index.js`) | active, pending and failed runtime metadata, runtime files | resolve, launch, promote, fall back, answer | crash between download, start and promotion; pieces of a connection during a query | the last runtime that worked is never lost, the fallback comes last |
| Metrics, logs, diagnostics, benchmarks, web console, scripts | | | no protocol | not modelled |

How they interact. `runtime.js` builds the parts and hands the *same* route
table, record store and upstream list to the services; `ConfigStore.update`
calls its listeners, which replace the contents of those shared objects under
requests that are under way. The restore of a backup puts the process in
maintenance mode: it pauses the scheduler, the subscriptions and the health
monitor, closes the listeners, and starts everything again. Proxy, health
monitor and administration all call one `UpstreamPool`.

## 2. How the modules fit

Every module stands for one component or for components that are only
interesting together. The order in which they were chosen is that of the damage
a mistake would do.

1. `UpstreamPool`, `PoolCalls`, `ProxyRequests`: the pools, and the requests
   that use them. `ProxyRequests` composes two pools with the requests. The names
   of the two are kept apart, so that `PoolProofs` can speak of both.
2. `ProxyCache` implements `LossyCache`, an abstract cache that may forget.
3. `Restore` composes the runtime, the configuration file and the database with
   its write-ahead log, the backups, their scheduler and crash recovery.
4. `AdminApi` composes the configuration store, the zones with their serials,
   idempotency keys and the audit chain.
5. `Identities`: users, sessions, invitations and roles under concurrent
   requests.
6. `DnsResolver` composes listeners, policies, zones, records, cache and
   upstreams.
7. `PolicySubscriptions`, `Telemetry`, `Draining`, `Bootstrap`: a component each.

A run checks several properties of one state space. Properties that say whether
the parts of a module's state agree are conjoined under one name (`Consistent`,
`StorageIsTrue`, `ActiveIsGood`, `CountsAgree`, `GraceIsExact`, `Accounted`,
`Released`); most of their parts have names and comments of their own.

## 3. Modules

| module | models | state and actions |
|---|---|---|
| `UpstreamPool` | `class UpstreamPool`, normalised upstreams, what `replace` keeps | operators on a pool value: `Select` is everything `next()` does (promotion, probe, smooth weighted round robin), `Failed`, `Succeeded`, `Drained`, `ProbedHealthy`, `ProbedUnhealthy`, `Rebuilt`; `Ticked` is one tick of `now()` |
| `PoolCalls` | one pool and its callers in any order | `Next_`, `MarkFailure`, `MarkSuccess`, `SetDraining`, `RecordActiveProbe`, `Replace`, `PoolTick` |
| `ProxyRequests` | `selectRoute`, `handleHttpRequest`, `attempt`, `nextAttempt`, site drains and reloads for one location with a primary and a fallback pool | `Refuse`, `Admit`, `AnswerEarly`, `Send`, `AnswerOk`, `AnswerRetryable`, `Fails`, `BodyEnds`, `ClientLeaves`, `DrainSite`, `ReplaceRoutes`, `Tick` |
| `Draining` | the connections of a site: upgrades, the connection limit, both sockets of a WebSocket, drains of the site and of upstreams, `close` | per connection `Refused`, `Request`, `Moves`, `Ends`, `Upgrade`, `Upgraded`, `Unanswered`, `DialFails`, `ClientCloses`, `ServerCloses`, `TimesOut`; `DrainSite`, `ResumeSite`, `AbortSite`, `SiteTimer`, `DrainUpstream`, `ResumeUpstream`, `UpTimer`, `Replace`, `Close` |
| `ProxyCache` | `class ProxyCache`: memory, index file and body files at the grain of its awaits | `Start`, `Put`, `Get`, `Configure`, `Clear`, `Close` begin an operation; `InstallEntry`, `Evict`, `EvictDone`, `ClearNext`, `ScanEnds`, `ScanDrops`, `ScanHits`, `ScanMisses`, `Persisted`, `PersistFails` carry it on; `Tick`, `ProcessEnds` |
| `LossyCache` | what a cache promises: it forgets at will, never invents, never resurrects | `Accept`, `Serve`, `Confirm`, `ConfirmClear`, `Forget` |
| `PolicySubscriptions` | `class PolicySubscriptionManager` and the policy store, for one id | `Start`, `Pause`, `Replace`, `ManualRefresh`, `Close` are calls; `MkdirDone`, `FileRead`, `StartDone`, `ReplaceDone` what start and replace do after each await; `TimerFires`, `RefreshSucceeds`, `RefreshFails` |
| `DnsResolver` | a question from its arrival over UDP, DoH or TCP to its answer | `Ask`, `UpstreamEnds` (an answer, a failure that lets the next upstream be tried, or one that ends the question); `Data`, `Frame`, `FrameEnds`, `Disconnect` of a TCP connection; `Reconfigure`, `Tick`. `Walk` goes through policies, zones and records, a `Hop` per level of `resolveInternal`, with `FromPolicy`, `FromRecords`, `LocalData`; `FromCache` and `AskUpstream` go on from there, `Wrapped` is the way back up |
| `Restore` | the files of the data directory and all that reads, writes, copies or replaces them | `WriteConfig`, `WriteLog`, `WriteDatabase`, `Checkpoint`; backups `FireTimer`, `AskForBackup`, `HashFiles`, `ZipFiles`, `BackupFails`, `DeleteBackup`; a restore `Inspect`, `SnapshotOne`, `EnterReads`, `EnterMarks`, `EnterCloses`, `EnterFails`, `ApplyClears`, `ApplyDrops`, `ApplyOne`, `ApplyFails`, `Reload`, `ReloadFails`, `UndoClears`, `UndoOne`, `UndoFails`, `Exit`, `ExitRefused`; the process `Recover`, `Begin`, `Serve`, `StartFails`, `StartCompletes`, `StopAsked`, `StopMarks`, `Stopped`, `Crash` |
| `AdminApi` | a request that changes zones, records or everything, from its key to its audit entry | `Ask` and `Submit` (a body that arrives after the configuration was read), `Post` and `Execute` (with a key), `Sweep` (expired keys), `Rename`, `WriteFails`, `Apply`, `ApplyFails`, `Restart`, `NextDay`, `Done` |
| `Identities` | requests that hash passwords or change users | `SetupBegins`/`SetupEnds`, `LoginBegins`/`LoginEnds`, `AcceptBegins`/`AcceptEnds` on either side of the hashing; `Authorize`, then `Perform` or `Refuse` when the body is there; `SecondWriteFails`, `Crash`; `Revoke`, `Logout`, `Tick` |
| `Telemetry` | events, the log, the samples and the webhook jobs | `Record`, `WriteLog`, `FlushBegins`, `FlushDrains`, `Answered`, `Retry`, `SetWebhook`, `Tick`; maintenance `CloseBegins`, `CloseDrains`, `LoggerCloses`, `StorageCloses`, `Reload`; `Crash` |
| `Bootstrap` | launches, their files, and the fallback's TCP connection | `Boot`, `Look`, `Offered`, `Invalid`, `Unresolved`, `WriteRuntime`, `WriteNative`, `WritePending`, `Starts`, `Fails`, `Promote`, `Clean`, `PromoteFails`, `Record`, `Forget`, `RecordFails`, `RollsBack`, `RollbackFails`, `FallbackStarts`, `Exit`, `Stop`, `Crash`, `Damage`; `Data`, `Resolved` |
| `MC...` | small instances for TLC | |
| `...Proofs` | lemmas about the operators; theorems | |

Correspondence. Every callback of the event loop is one action, with all it
does before it returns; a handler with awaits is one action per stretch between
two of them.

*Pools and proxy.* `openFor` is the time left until `openUntil`, in ticks.
A counter that is only compared with a threshold saturates there. A request
goes from `idle` to `admitted` (the route is chosen in `selectRoute`, *before*
the body is read) to `proxied`; `live[r]` holds the attempts whose upstream
stream is open, and an answer that was thrown away is `discarded` until its body
ends. A resolution that a reload made obsolete is `stale`: it reports to objects
no pool contains any more. `crashed` stands for an exception that leaves an
event handler: no handler for uncaught exceptions is installed. Three history
variables of a request are for the properties: `asked`, the upstreams it was
sent to; `sends`, how often an unsafe one was; `late`, how many of its attempts
failed after their answer was thrown away and went on by themselves.

*Draining.* Each end of a WebSocket is `up`, `destroyed` or `closed`: destroying
a socket only schedules its close event, and `finalize` runs with the first of
the two. `hist` keeps what the properties speak of and the program does not
store: whether two upgrades overlapped, whether the grace of this drain is over,
who was then still waiting for an upstream, and whether a timer ended something
that was not draining.

*Cache.* An operation is the record `op` until it returns, since the promise
queue of `#run` lets the next one begin only then; one awaited change of the disk
is one step, with the synchronous code after it. A body file is the pair of an
entry id and a body, as its name is made of the id and the digest.
`ImplementsLossyCache` maps what may still be served to the unexpired entries of
memory *and* of the index whose body is on disk: that is what a get can find now
or after a restart. It therefore fails when a completed clear or put could be
undone by a crash.

*Subscriptions.* Calls of start and replace wait in `awaiting`, because the
listener of configuration changes calls `replace` without awaiting it. A list is
told by the URL it came from, a timer by the subscription object it was armed
with, which may be an old one. The end of a refresh and the callbacks that
awaited it are one step: they run in the same turn of the event loop.

*Resolver.* The local data is walked without an await that lets anything else
run, so one step goes from a question to an answer or to a request on its way to
an upstream. `tasks[h].w` is that question with the aliases followed so far and
the index in the list of upstreams, which `Reconfigure` splices underneath. The
cache is a sequence in the order of the `Map`. A name is a sequence of labels,
a framed message two units: its length and its body. What an upstream answers is
any of `Responses`, a code with any records, aliases of its own among them; it
is passed on, or cached, as it came. The key of the cache has the DO bit.

*Restore.* A file is its content, a number, and an archive has the number of the
run that made it, in place of the time in its name. The database has two contents: that
of the main file and that of the write-ahead log, which only a checkpoint or
`close()` folds into it; a copy of the main file alone misses the log. Each file
that is copied, replaced or removed is a step. `pub` says whether the listeners
are on, off or `lost`: a reload that failed among them leaves some on their
ports. A crash while the rollback copies a file leaves it cut off, and `Loadable`
says what the next start makes of it. `left` holds rollback directories of dead
processes. `seen` remembers what failed, what raced, what overlapped and what was armed
twice, for the exceptions the properties name.

*API.* The only await between reading the configuration and replacing it is the
write of the file, which is two steps: the rename, and the continuation that
replaces the value in memory and calls the listeners. The hash of an audit entry
is the nested tuple of what it covers, a day is the unit of time. `hist.excused`
holds the keys about which nothing can be promised: an attempt failed after its
effect, the process died, or the key expired.

*Identities.* A change is authorised when its headers are there and made when
its body has arrived, with the identity of the first moment; both are states of
`req`. Setup, acceptance and the update of a user write two tables one after the
other: `SecondWriteFails` and `Crash` leave the first write alone. A session has
the role its user had when the login read it, which is before the password is
verified. `hist.spared` holds the sessions that no revocation reached: made by a
login that the change of the user overtook, or left by an update of which only
the first write was done.

*Telemetry.* Ages and waits are relative and stop counting where the code no
longer tells them apart. A logger whose queue became a rejected promise is
`poisoned`. `past.received` is what the receiver took, whatever the sender knows
of it.

*Bootstrap.* A file has the content of a release, none, or is damaged; two
releases may have one version, hence one file name. `hist.started` are the
releases that have been up, `hist.tried` those tried in this launch. Which
release migrates the schema is a constant; the refusal of a newer schema is that
of `storage/sqlite-store.js`.

## 4. Runs

| run | question | bounds and why they suffice |
|---|---|---|
| `pool_calls` | do any orders of calls break the breaker, the round robin or its fairness? | two upstreams of weights 2 and 1, thresholds 2 (a failure that does not open and one that does), one tick of back-off |
| `proxy_requests` | with requests that are sent once admitted, are marks taken back and requests answered? | a safe and an unsafe request, two primary upstreams and one fallback, a breaker that opens at once, `Slots` = 2 attempts alive (one discarded, one current) |
| `proxy_faults` | what survives every disturbance at once? | two primary upstreams, one of them `auto`, and a fallback; early answers, late errors, drains, reloads; stops are allowed since a crashed process does nothing |
| `proxy_cache` | do memory, index and files agree enough, whatever ends or fails? | two variants of a resource and a resource of a second location, bodies of 1 and 2 bytes against limits of 2 and 3, so that both limits evict; one clock tick, enough for an entry to expire; one failing disk operation; two starts of one object and any number of processes |
| `subscriptions` | do overlapping calls lose the timer, revive a paused manager, or leave an old list in place? | two URLs, enabled or not, two calls under way at a time, a cache file left by an earlier process |
| `restore` | is a restore all or nothing, and does the server come back, whatever dies or fails; does the scheduler keep one loop? | one restore against one write, two backups by the schedule and by an administrator, and a stop request; two different failing steps (an undo can only fail after something else did) and one crash, each anywhere; an archive that lacks one of the files, so that a file must disappear |
| `admin` | do keys act once, do changes survive, does the audit chain verify? | two requests at a time, three in all, of eight kinds: nested zones, a rename, imports with a serial at the limit, a batch, a full replacement; one failure, one crash, two days with a retention of one, so that the chain is pruned; six serials, two a day, so that a day's serials run out |
| `dns` | does local data come first and stay first, and is every upstream tried? | two handlers, two questions out of twelve and three on one TCP connection; chains of aliases through every source, a loop, a wildcard, a delegation, blocked types; upstreams that answer with an address, an alias back into a local zone, an alias to a name that does not exist, or a failure; a depth of 2 against a chain of 3; a cache of two entries; two upstreams replaced by one |
| `identities` | can the last owner go, a session outlive its rights, an invitation be lost? | two users, two sessions, two invitations for one name, a token; ten changes, four of them in a behaviour; one process end or failing second write; lives that end in one tick |
| `telemetry` | is every event counted once, every alert settled, the log in order? | an alert and a counted event, two overlapping flushes; one maintenance, crash, retry or change of the webhook; delays and a day of two units, so that a job is retried and then dies |
| `bootstrap` | is there always a release to go back to? | three releases: one version published twice, and one with a newer schema; three launches and two faults (crash, failed write, damage), so that a fault follows a fault; two pipelined queries in pieces of one to four units |
| `draining` | do the counters agree, and does the grace of a drain end what it should and nothing else? | two WebSockets and an HTTP request, two upstreams, a limit of one connection, three acts of administrators: drain, resume and drain again |

Deadlock is checked in `pool_calls`, `proxy_requests`, `proxy_cache`,
`subscriptions`, `admin` and `telemetry`; elsewhere the bounds, a crash or a
service that is closed really end a behaviour. Clients, handlers, sessions and
invitations are interchangeable in `admin`, `dns` and `identities`, whose runs
check no liveness; elsewhere weights and positions tell elements apart, or
liveness is checked on the full graph.

Some properties name exceptions. Each is a thing this code does, and section 6
says what happens then:

| property | excepts |
|---|---|
| `Consistent` of `Restore` (`ServesOutsideMaintenance`, `MarkerCoversSwap`) | a rollback that fails, or the reload at its end, as it does after a first reload that failed among the listeners; two operations that began at once. Whatever else fails (entering, a replacement, a first reload before the listeners, a start) is covered |
| `AllOrNothing` | a failed rollback, a write during the replacement, two operations that began at once |
| `MaintenanceEnds` | entering maintenance was what failed |
| `StartsAgain` | a crash in the rollback that cut off a file a start needs (`Loadable`) |
| `OneBackupLoop` | maintenance ended while a run it had not waited for was going on |
| `OneAttemptAtATime` | one attempt more for each that failed after its answer was thrown away |
| `UnsafeSentOnce` | an upstream with the protocol `auto` is sent the request twice, never three times, and no other upstream is |
| `HalfOpenResolves` | requests answered without being sent (`EarlyAnswers`) |
| `AnsweredIfNobodyRecovers` | breakers that keep becoming half-open |
| `Accounted` | the exact sum, once a cache object was started again |
| `SettledConfigurationIsServed` | the list of the old URL, until the next refresh |
| `AckedIsKept`, `SerialsMove`, `Consistent` of `AdminApi` | changes that overlap, since `ConfigStore.update` does not serialise them |
| `EveryUpstreamTried` | questions during which the list of upstreams changed |
| `SessionsRevoked` | sessions in `hist.spared`: left when only the first write of an update was done, or made by a login the update overtook |
| `LimitHeld`, `GraceEnds`, `AbortsOnlyDrains` | upgrades that wait for their upstreams together, or when the grace ends; sites that left the configuration |

### Fairness

`PoolCalls!FairPoolSpec`: requests keep arriving and time passes. `ProxyRequests`:
the HTTP server completes or gives up a body (`Send` or `AnswerEarly`), the
upstream request has a timeout, so that an attempt answers or fails, a response
body ends, and time passes. Nothing obliges a client to come, an operator to act
or a configuration to change, and no fairness picks *which* answer comes.
`AnsweredIfNobodyRecovers` adds its own premise: from some moment on no failure
counter is reset and no breaker becomes half-open; without it (`Answered`) TLC
finds two dead upstreams whose breakers take turns in being half-open and a
request that is retried for ever. `NoStarvation`
assumes in the same way that reloads come to an end.
`PolicySubscriptions!ListsFairSpec`: the file system answers, an armed timer fires, a
fetch succeeds or fails (`fetch` has its own timeouts), and a list that is asked
for again and again is delivered in the end; nothing obliges anybody to call
start, replace, pause or close.

`Restore`: a restore and a start or stop that is under way go on
(`RestoreStep`, `ProcessStep`), and a process that is down is started again, as
the container's restart policy does. No backup, write, crash or failure has to
happen, and none is kept from happening. `Telemetry`: log writes settle, a post
is answered or times out (either, at every attempt), the timer fires again,
maintenance that began goes on, and time passes; an alert settles because it ages
into a dead letter, not because a receiver is assumed to answer. `Draining`: the
timer of a drain fires, a destroyed socket closes, and a WebSocket that lost one
end is idle until its time-out. `ProxyCache`, `AdminApi`, `Identities`,
`DnsResolver` and `Bootstrap` have safety properties only and no fairness.

## 5. Proofs

What the eight proof modules show holds for every value of the constants: any
number of upstreams, requests, clients, users, releases, archives and
connections, and any bound on faults, crashes and time.

| module | theorems | stated by |
|---|---|---|
| `PoolProofs` | of `PoolCalls`: types, consistent breakers, one probe per phase, credits cancel, back-off respected; of `ProxyRequests`: a consistent state, attempts follow one another, unsafe requests are sent once | `OneProbePerPhase`, `BackoffRespected` of run `pool_calls`; `Consistent`, `OneAttemptAtATime`, `UnsafeSentOnce` of `proxy_faults` |
| `ProxyCacheProofs` | the cache implements `LossyCache`; its account of itself is right | `ImplementsLossyCache`, `Accounted` of `proxy_cache` |
| `RestoreProofs` | marker, mode and services agree; a restore is all or nothing; the scheduler has one loop | `Consistent`, `AllOrNothing`, `OneBackupLoop` of `restore` |
| `AdminApiProofs` | a key acts once, a pending key has an owner; memory and file agree, acknowledged changes are kept, serials never go back; the audit chain verifies | `AtMostOnce`, `Consistent`, `AckedIsKept`, `SerialsMove`, `ChainVerifies` of `admin` |
| `IdentitiesProofs` | types, an owner remains, sessions are revoked, no invitation is lost, accounts are kept | `OwnerRemains`, `SessionsRevoked`, `NoInvitationLost` of `identities` |
| `DnsProofs` | of `DnsResolver`: types and whole messages, every upstream is tried, answers lead from the question to its end, the cache is right, windows are runs; of `PolicySubscriptions`: types, a paused or closed manager is quiet, closing is final, an active one keeps refreshing | `Consistent`, `EveryUpstreamTried`, `AliasesLead`, `CacheIsRight`, `WindowsAreRuns` of `dns`; `QuietUnlessActive`, `KeepsRefreshing` of `subscriptions` |
| `BootstrapProofs` | the active release is good, the fallback is last, candidates are settled, queries are answered once and in order | `ActiveIsGood`, `FallbackIsLast`, `AnsweredOnce` of `bootstrap` |
| `ClosingProofs` | of `Draining`: the counters agree and the limit holds, timers end only what drains, a grace that is over has ended what was there; of `Telemetry`: the storage says what happened, the log keeps the order of events | `CountsAgree`, `GraceIsExact` of `draining`; `StorageIsTrue`, `LogInOrder` of `telemetry` |

Proved and in no run of its own: `CallsTypeOK`, `BreakerConsistent` and
`CreditsCancel` of `PoolCalls`, `ListsTypeOK` and `ClosedStaysClosed` of
`PolicySubscriptions`, `TypeOK` and `AccountsKept` of `Identities`,
`PendingIsSettled` of `Bootstrap`.

The arguments.

*Operators of `UpstreamPool`* (first part of `PoolProofs`), from
`ThresholdAssumption` alone. The recursive sum has its equations
(`RunningSumsExist`, `PrefixSumIs`): the induction is carried by a least
counterexample, taken from the well-foundedness of the naturals. The round
robin picks a member of its set and keeps the sum of the credits
(`GreatestCredit`, `SumPreserved`, `RoundRobinStep`); each operation keeps a
*good* pool good (`FailedGood` and its siblings, `SelectStep`).

*`PoolCalls`.* The properties are not inductive by themselves. `IInv` adds
`MarkIsTheCount` (the boolean `halfOpenInFlight` is exactly the number of probes
admitted in this phase, though reports about other requests may clear it) and
`ClockIsTheWait` (an open breaker's remaining time and the time since the last
reported failure add up to `openMs`, and a half-open one has waited in full).
`OneProbePerPhase` follows from the first, `BackoffRespected` from both.

*`ProxyRequests`*, from `RequestAssumption`. `WellFormed` says that both pools
are good and that a resolution which no reload made obsolete names an upstream
its pool has (`Known`), so that a late report never reaches a record that is not
there. What the four callbacks of an attempt have in common is proved once
(`OutcomeMeans`): an attempt becomes another one, or its answer is thrown away
and one attempt begins, and another send is counted only where the method or the
protocol allows it. From that, `Following` (the attempts in front of an upstream or
the client are one, and one more for each that failed late; an admitted request
has none) and `Unrepeated` (an unsafe request has one attempt, in the first slot;
it was sent once to that attempt's upstream, and a second time exactly if the
attempt is the one over HTTP/1.1, which an upstream with another protocol than
`auto` never gets) are inductive. Both theorems hold with late errors, `auto`
upstreams, drains and reloads alike.

*`ProxyCache`*, from `ResponsesAssumption`, `SizesAssumption` and
`TimesAssumption`. For the refinement, `RInv` says what the operation under way
knows: an answer it found is still servable (`Found`), once `put` has installed
its entry no other body is left for the id (`Replaced`), a clear has emptied the memory (`Emptied`). Every step
then only shrinks what can be served, which is `Forget`, or is one of `Accept`,
`Serve`, `Confirm`, `ConfirmClear`. For `Accounted`, `AInv` adds that no byte
in use is uncounted, and none counted twice until a second start (`Counted`),
that a cache that is not started holds nothing the index lacks (`Saved`), that
limits hold outside an eviction
(`Within`, `Admitted`), and that the newcomer is the newest entry (`Newest`): the
eviction of the oldest spares it (`SparesNewest`).

*`Restore`*, from `BackupsAssumption` (the archives that are there at first have
no future run number). `IInv` says that a process that does not serve
has neither a restore under way nor an open database (`Unused`), that none can
begin while it starts, since the marker then says "startup" (`Starting`); that,
unless two operations began at once, whoever is inside maintenance is there
alone and the marker says so (`Alone`); that, as long as no rollback has
failed and no two operations began at once, a process outside maintenance has its
database, services and scheduler (`Serving`), and a restore has its database open
before it reloads and its services back before it leaves (`Withdrawn`); and how far a replacement has come (`Placed`): of the
files in their order, those before position `k` are the archive's or the
snapshot's, and the files that are to be absent are. `AllOrNothing` is `Placed`
at the last position. `OneBackupLoop` has an invariant of its own (`Looped`): a
process that ended has no timer, a scheduled backup belongs to a run, and the one
timer is the one the scheduler knows, hence cancels when it is paused
(`LoopsOf`).

*`AdminApi`*, from `KeysAssumption`, `RequestsAssumption`, `SerialsAssumption`
and `FirstConfAssumption`. For the keys, `IInv` says who owns one: a request in
flight with a key holds it in the table (`Owned`), no two hold the same one
(`Single`), a key nobody is excused for is of today (`Fresh`), so that it is not
taken for expired, and its effects are one if it is completed and none otherwise
(`Counted`). For the configuration, `CInv` says that without overlap at most one
change is under way, that the file is what the memory holds or what that change
has renamed into place, and that it moves the serials of memory (`Alone`); that
what was acknowledged is in memory and in what is being written
(`AckedEverywhere`), hence in the file; and that the audit entries are linked (`Chain`), also after a
prune has rebuilt the chain.

*`DnsResolver`*, from `ResolverAssumption` (lists are sequences, a record and a
question have their fields, lives and bounds are numbers; nothing is assumed
about what rules, zones and records say). `ResolverInv` says that a handler that
waits has a walk every level of which passed it on (`Passed`) and, unless the
list changed since, has been through the upstreams before its index (`TaskOK`);
that the entries of the cache are in the order of their last use, which `seen`
remembers, and hold what was stored (`HeldOK`); that what is pending on the
connection is what was sent and not yet taken (`StreamOK`); and that the answer
going out leads (`OutOK`).

- Answers. Every `Hop` appends a level whose records have the name asked there
  and an alias to the next name, none of them visited before (`Leading`,
  `HopIs`, `WalkIs`), so the chain has at most `MaxDepth` levels. On the way back
  `Wrap` puts each level's records in front, which keeps that the records of a
  name are together and lead on (`LeadsOn`, `WrappedLeads`). What an upstream
  answered, aliases of its own included, is passed on unchanged at the end: the
  walk is proved of an answer with a mark in its place (`MarkedFurther`,
  `WrapAlike`), and the section follows the records in front of it
  (`SectionLeads`).
- Cache. An entry that is used moves to the end of the `Map` and of the history
  alike (`UseKeeps`); expiry thins both (`Thins`); what an insertion at the limit
  drops is the front, hence what was used before all that stays (`StoreKeeps`).
- Connection. A step takes two units from the front of `pending` or appends to
  its end (`FrameStream`, `DataStream`), whoever waits meanwhile.
- Windows. The day and the minute of a time are its quotient and remainder, which
  are unique (`DivisionUnique`). Going back by less than a day stays in the day or
  crosses one midnight (`Back`), the two cases of `scheduleMatches` (`WindowIs`).

*`PolicySubscriptions`*, from `NoneAssumption` (the marker for "no list" is
no URL): the conjunction of its properties (`ListsInv`) is inductive. That a refresh re-arms
the timer needs that an active manager is not closed, and that an active manager
without a timer has a start under way needs that only start activates it.

*`Identities`*, from `RolesAssumption` (no custom role has the permissions of
owners), `OpsAssumption` and `BoundsAssumption`: the three safety properties with
the shape of the tables are inductive. The argument for the last owner is in
`UpdateUserKeeps`: the count of other owners is taken in the step that writes, so
two updates that were authorised together still see one another. For
`SessionsRevoked`, a session that is neither revoked nor spared has an enabled
user with the role it was made for: an update that changes either revokes the
user's sessions with its second write, or spares them when only the first is done,
and a session made from a reading of the user that no longer holds is spared from
the start. `AccountsKept` is an
action property, from the same invariant.

*`Bootstrap`*, from `ReleasesAssumption`: `IInv` adds where a candidate may
be pending (`Settling`), that what is promoted was started in this launch
(`Started`), and that the active release was tried once the launch has passed
looking for it (`Tried`). That a download leaves the active files alone rests on
`NamesAreApart`, that the names of files tell contents, runtimes and natives
apart, and on `VerifiedIsKept`. For `AnsweredOnce` the bytes that wait and the
queries answered always make up a whole number of messages, however the pieces
were cut.

*`Draining`*, from `DrainingAssumption`: `ConnectionsCounted` ties the counter to the
cardinality of the registered connections, which needs the facts about finite
sets of `FiniteSetTheorems`; `Limited` adds that there is room for an upgrade
that waits; `Timers` that a timer belongs to something that drains; `Over` that a
drain whose grace is over leaves nothing up that was there.

*`Telemetry`*, from `TelemetryAssumption` and for any order in which the jobs
that are due are posted: an event happens once and only what happened has a job
(`Once`); what happened is counted in one of three places, the samples in
memory, those stored or those lost (`Sums`); what a flush has listed are jobs,
and those it takes for expired are (`Listed`); a delivered job was received and
a dead letter is a day old (`Settled`); the queue is in the order of events, and
what is written of a logger is ahead of what it has yet to write (`Ordered`).

Where an argument goes through the positions of a list, it is put as a statement
about the least position where it fails, and a recursive function is reached
through the equation that defines it, since induction rules that take an operator
cannot be used with these provers. For the same reason the modules select from a
sequence by a set (`Kept` of `DnsResolver`) and not by a predicate.

Model-checked only: liveness under fairness (`NoStarvation`, `HalfOpenResolves`,
`AnsweredIfNobodyRecovers`, `SettledConfigurationIsServed`, `MaintenanceEnds`,
`StartsAgain`, `AlertsSettle`, `Released`), which is out
of the prover's reach. Every invariant and every action property the runs check is also
a theorem.

## 6. Divergences

What was met while the code was translated and differs from a document, a test
or an evident intention. Each follows from the modules as they are: where a
property is named, it is defined in the module and TLC refutes it when it is
added to the configuration of the run, with the constants named here where that
configuration leaves the case out. No run checks these, since the models
follow the code; the statements of other properties exclude exactly these cases.
Lines are of the file last named.

Proxy (`services/proxy-server.js`; `agent/question.md:212-214`)

1. A request that is given the half-open probe and then refused by the access
   list, the rate limit or the body limit, or answered from the cache (353),
   leaves `halfOpenInFlight` set: the upstream gets no request again until a
   reload. `HalfOpenResolves` fails with `EarlyAnswers`. An upgrade refused at
   the connection limit does the same.
2. A retry while its site is draining throws in a callback (400), which ends the
   process: `NoCrash` with `SiteDrains`.
3. An upstream with the default protocol `auto` is sent unsafe requests twice,
   when HTTP/2 fails after the request was written (473), although "avoiding
   repeated writes" is why unsafe requests are not retried. `UnsafeSentOnce` bounds
   it: twice, and only to an upstream with `auto`.
4. The fallback is used while a primary upstream is available, since a retry asks
   the fallback as soon as the round robin names the upstream that just failed
   (401): `FallbackIsLastResort` in `proxy_requests` with
   `TwoOneWeights` and a failure threshold of 2; "only when the whole main pool is
   unavailable".
5. Retries may circle for ever between upstreams that become half-open in turn:
   `Answered`.
6. An upstream that is reset after its retryable answer was thrown away (472)
   starts a second attempt beside the running one, which `OneAttemptAtATime` bounds
   by one for each such failure (`late`); and a success reported late closes an
   open breaker before `openMs` are over.

Draining (`services/proxy-server.js`; `agent/question.md:214-217`)

7. Draining an upstream aborts HTTP requests after the grace but never its
   WebSockets (641-649).
8. Upgrades that wait for their upstream at the same time exceed
   `maxConnections`: the limit is read at 539 and counted at 565. The excuse in
   `LimitHeld`.
9. An upgrade that waits for its upstream when the grace ends comes to life
   afterwards and stays: the excuse in `GraceEnds`.
10. A site that is taken out of the configuration and put back keeps the timer of
    its old drain, which aborts it undrained (`services/proxy-routes.js:459`): the
    excuse in `AbortsOnlyDrains`.
11. An upstream that answers an upgrade with an ordinary response leaves the
    client without an answer and a probe in flight: `hung` in `Draining`.

Cache (`services/proxy-cache.js`; `agent/question.md:141`)

12. A cache that is closed and started again, as a restore does, counts its
    entries twice (115): the usage shown is wrong and eviction starts early, in
    the end emptying the cache at every put. `UsageIsReal`.
13. Body files of entries that expired while the process was down are never
    removed (110), so the directory outgrows the hard limit: `DiskWithinLimit`.
14. Two puts of the same body remove the file they share, though both report
    success.

Subscriptions (`dns/policy-subscriptions.js`;
`tests/unit/policy-subscriptions.test.js:130`)

15. A refresh under way when the subscription's URL is replaced publishes the old
    list (258), and the new one waits for the next interval:
    `PublishedIsConfigured`.
16. A timer callback may arm the timer of an old subscription object, with its
    old interval; a replace under way when the manager is paused for a restore
    starts it again.

Restore and recovery (`backup/manager.js`, `recovery/manager.js`)

17. Recovery after a crash in the middle of a replacement deletes the rollback
    snapshot (`recovery/manager.js:92`), the last whole copy, although "a failed
    recovery must not overwrite the last usable data" (`agent/question.md:235`):
    `LastUsableDataKept`.
18. The rollback snapshot is taken before maintenance begins and without the
    write-ahead log (`backup/manager.js:349`), so that a rollback may bring back
    older files than those "before maintenance was entered" (`README.md:64`):
    `RollbackRestoresEntry`.

19. `begin` reads the marker, awaits, and then writes it
    (`recovery/manager.js:44-52`): of two operations that begin at once both pass,
    each enters and leaves maintenance under the other, and services may be missing
    afterwards. The exception `overlap`.
20. A reload that fails among the listeners has bound some of their ports and
    keeps no handle of them (`runtime.js:350-358`): the rollback restores the files,
    but its own reload finds the ports taken, and maintenance ends without
    services, although "when replacing any file fails, it is restored
    automatically" and services come back (`README.md:64`). The exception `again`.
21. A scheduled backup that is still running when the scheduler is paused arms the
    timer again when it ends, and the start after maintenance arms another
    (`backup/scheduler.js:75`): two loops of backups from then on. The exception
    `doubled` of `OneBackupLoop`.
22. A crash while a rollback copies `admin.json` leaves half a file, and if the
    table of users is empty every later start tries to import it and fails
    (`runtime.js:392`; `admin/identity-manager.js:66` and `326-333`). `Loadable`,
    which `StartsAgain` excepts.

Telemetry (`observability/structured-logger.js:20-42`)

23. A failed log write leaves the logger's queue rejected; closing the pipeline
    then rejects (`telemetry-pipeline.js:107`, `runtime.js:335`), so that
    maintenance is entered halfway and never left (`backup/manager.js:350`):
    `MaintenanceEntered`. A test is named "isolates failures"
    (`tests/unit/telemetry-pipeline.test.js:36`).
24. A flush that ends late may overwrite the row of a job another one delivered,
    which is then delivered twice.

DNS (`dns/zones.js:128-133`)

25. `resolve` throws for query types it does not know, so that a question of such
    a type gets no answer (over DoH a 400) and is never forwarded, also where no zone is
    concerned; "misses are forwarded" (`agent/question.md:33`).

Administration

26. `ConfigStore.update` does not serialise its callers: of two overlapping
    updates one is lost, in memory or on disk, and a serial may go back
    (`admin/config-store.js:206-226`; `agent/question.md:191-192`). The excuses
    "overlap" and `races` in `AdminApi`.
27. A session ends eight hours after it was made, however busy, since `expiresAt`
    is never moved (`admin/identity-manager.js:120-131`); the document says eight
    hours idle (`agent/question.md:51`).

Bootstrap (`index.js`; `docs/deployment.md:46`)

28. When a candidate is up and its promotion cannot be written, the rollback
    starts a second application in the same process (364-368), whose ports are
    taken: the launch reports failure while the candidate serves.
29. A candidate that migrated the database before it failed makes the rollback
    refuse to start ("returns to last-known-good by itself", but see line 52).
30. An invalid manifest ends the launch even when a verified active release is
    there.

Resolver (`dns/resolver.js:195`)

31. A change of configuration splices the list of upstreams while a question goes
    through it by index: an upstream is skipped or asked twice, so that SERVFAIL
    may come although an upstream that stayed in the list was never asked. The
    excuse of `EveryUpstreamTried`.

Identities (`admin/identity-manager.js`; `README.md:156`)

32. An update is two writes, the user's and the revocation of the sessions
    (221-222). When only the first is done, the sessions stay valid, and the same
    update made again finds the role unchanged and, unless it disables, revokes
    nothing; "disabling a user or changing the role revokes existing sessions". The
    exception `spared`.
33. A login whose user is disabled or given another role while the password is
    verified (110-117) gets its session after the revocation; it comes to life when
    the user is enabled again. The exception `spared`.

## 7. Not modelled

Whole parts. The health monitor's probe loops, the HTTP/2 session pool, access
lists and rate limits (what the proxy sees of them are actions of
`ProxyRequests` and `PoolCalls`). The tunnel manager, which shares no state with
the rest but its token in `config.json`, although its starts, stops and
replacements overlap: two calls of `start` while the binary is being fetched both
pass the check at `tunnel/manager.js:68` and start a child each, and a child that
cannot be run keeps every later `stop` waiting (111). The metrics server and the
diagnostics archive, which only read. Benchmarks, the web console, build and
release scripts.

Of what is modelled.

- Proxy: header and path rewriting, compression, shadow traffic (it never touches
  the pools), host matching, TLS, and an upstream body that is cut off
  (`BodyEnds` happens in the end).
- Cache: which headers make a response cacheable, temporary files left by a
  crash, a clock that moves during an operation or backwards.
- Subscriptions: the syntax of lists, several ids (they share nothing but the
  published rules), the local rules next to them.
- Resolver: the bytes of messages, matching of client networks, the local block
  lists, size and count limits of the listeners, TLS.
- Restore: the inside of an archive, its verification and staging, which
  touch no shared state; the weekly archive, made like the daily one; migrations.
- API: validation of what is stored, routing, queries, event streams; the
  settings of single services, which use the same store.
- Identities: the rate limit of logins and the import of the older
  administrator's file.
- Telemetry: the content of events, samples and logs.
- Bootstrap: UDP and DoH of the fallback, a checkout with its own sources.
