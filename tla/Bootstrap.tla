----------------------------- MODULE Bootstrap ------------------------------
(* The single-file bootstrap, index.js: it downloads a release next to the    *)
(* active one, starts it, promotes it when it is up, and otherwise starts the *)
(* active one again or serves DNS itself.  The process may die between any    *)
(* two awaits, a file may be damaged from outside, a write may fail; a        *)
(* release may migrate the database before it fails, and an older release     *)
(* refuses a newer schema (storage/sqlite-store.js).                          *)
(*                                                                            *)
(* A checkout with its own src/main.js starts that and needs none of this.    *)
EXTENDS Naturals, FiniteSets, Sequences, SequencesExt

CONSTANTS Releases,                        \* what a manifest may offer
          Version, Code, Native, Schema,   \* per release: version, the contents of its two files, its schema
          Queries, HasRecord,              \* questions on one TCP connection of the fallback; those config.json answers
          MaxBoots, MaxFaults              \* bounds

ASSUME ReleasesAssumption ==
  /\ "none" \notin Releases /\ Schema \in [Releases -> Nat]
  /\ \A r \in Releases : Code[r] \notin {"none", "damaged"} /\ Native[r] \notin {"none", "damaged"}

VARIABLES files,                     \* runtime and native files
          active, pending, failed,   \* active.json, pending.json, failed.json: the release they name
          schema,                    \* of the database
          pc, candidate, source, previous,   \* launch
          running,                   \* applications started in this process
          tcp,                       \* the fallback's connection
          hist                       \* history: boots, faults, damage, releases that have started, tried in this boot

vars == <<files, active, pending, failed, schema, pc, candidate, source, previous, running, tcp, hist>>
launch == <<candidate, source, previous>>
disk == <<files, active, pending, failed, schema>>

FileByVersion(r) == <<"runtime", Version[r], "cjs">>
FileOf(r) == <<"runtime", Version[r], Code[r]>>
NativeOf(r) == <<"native", Native[r]>>
Names == {FileOf(r) : r \in Releases} \cup {NativeOf(r) : r \in Releases}

\* verifiedMetadata: both files have the hashes the metadata names.
Verified(r) == r \in Releases /\ files[FileOf(r)] = Code[r] /\ files[NativeOf(r)] = Native[r]

NoStream == [sent |-> 0, bytes |-> 0, waiting |-> {}, answers |-> <<>>]

Init ==
  /\ files = [n \in Names |-> "none"] /\ active = "none" /\ pending = "none" /\ failed = "none" /\ schema = 0
  /\ pc = "off" /\ candidate = "none" /\ source = "none" /\ previous = FALSE
  /\ running = {} /\ tcp = NoStream
  /\ hist = [boots |-> 0, faults |-> 0, damaged |-> FALSE, started |-> {}, tried |-> {}]

Fault == hist.faults < MaxFaults /\ hist' = [hist EXCEPT !.faults = @ + 1]

----------------------------------------------------------------------------
(* Resolving a runtime.                                                       *)

Boot ==
  /\ pc = "off" /\ hist.boots < MaxBoots
  /\ pc' = "look" /\ hist' = [hist EXCEPT !.boots = @ + 1, !.tried = {}]
  /\ candidate' = "none" /\ source' = "none" /\ previous' = FALSE
  /\ UNCHANGED <<disk, running, tcp>>

Look ==
  /\ pc = "look" /\ previous' = Verified(active) /\ pc' = "manifest"
  /\ UNCHANGED <<disk, candidate, source, running, tcp, hist>>

\* The manifest is valid, or invalid and the launch rejected, or not to be had.
Offered(r) ==
  /\ pc = "manifest" /\ candidate' = r /\ source' = "download" /\ pc' = "runtime"
  /\ UNCHANGED <<disk, previous, running, tcp, hist>>
Invalid ==
  /\ pc = "manifest" /\ pc' = "rejected"
  /\ UNCHANGED <<disk, launch, running, tcp, hist>>
\* No network, no binding for this platform, a wrong hash or a full disk.
Unresolved ==
  /\ pc \in {"manifest", "runtime", "native", "pending"}
  /\ candidate' = (IF Verified(active) THEN active ELSE "none") /\ source' = "cache"
  /\ pc' = IF Verified(active) THEN "start" ELSE "fallback"
  /\ UNCHANGED <<disk, previous, running, tcp, hist>>

WriteRuntime ==
  /\ pc = "runtime" /\ pc' = "native"
  /\ files' = [files EXCEPT ![FileOf(candidate)] = Code[candidate]]
  /\ UNCHANGED <<active, pending, failed, schema, launch, running, tcp, hist>>
WriteNative ==
  /\ pc = "native" /\ pc' = "pending"
  /\ files' = [files EXCEPT ![NativeOf(candidate)] = Native[candidate]]
  /\ UNCHANGED <<active, pending, failed, schema, launch, running, tcp, hist>>
WritePending ==
  /\ pc = "pending" /\ pc' = "start" /\ pending' = candidate
  /\ UNCHANGED <<files, active, failed, schema, launch, running, tcp, hist>>

----------------------------------------------------------------------------
(* Starting it.                                                               *)

\* A release that can open the database migrates it; the addresses are taken by
\* an application that runs already.
CanOpen(r) == Verified(r) /\ schema <= Schema[r]
StartsAt(p, r, then) ==
  /\ pc = p /\ CanOpen(r) /\ running = {}
  /\ schema' = Schema[r] /\ running' = {r} /\ pc' = then
  /\ hist' = [hist EXCEPT !.started = @ \cup {r}, !.tried = @ \cup {r}]
  /\ UNCHANGED <<files, active, pending, failed, launch, tcp>>
FailsAt(p, r, then) ==
  /\ pc = p /\ pc' = then
  /\ schema' \in {schema} \cup {Schema[s] : s \in {t \in {r} : CanOpen(t)}}
  /\ hist' = [hist EXCEPT !.tried = @ \cup {r}]
  /\ UNCHANGED <<files, active, pending, failed, launch, running, tcp>>

AfterStart == IF source = "download" THEN "promote" ELSE "up"
AfterFailureAnyway == "fallback"
AfterFailure == IF source = "download" THEN "record" ELSE "fallback"
Starts == StartsAt("start", candidate, AfterStart)
Fails == FailsAt("start", candidate, AfterFailure)

\* promoteRuntime
MayPromote == Verified(pending) /\ pending = candidate
Promote ==
  /\ pc = "promote" /\ MayPromote
  /\ active' = pending /\ pc' = "clean"
  /\ UNCHANGED <<files, pending, failed, schema, launch, running, tcp, hist>>
Clean ==
  /\ pc = "clean" /\ pending' = "none" /\ pc' = "up"
  /\ UNCHANGED <<files, active, failed, schema, launch, running, tcp, hist>>
\* The files no longer verify, or the disk fails: handled like a failed start.
PromoteFails ==
  /\ pc \in {"promote", "clean"} /\ pc' = "record"
  /\ IF pc = "promote" /\ ~MayPromote THEN UNCHANGED hist ELSE Fault
  /\ UNCHANGED <<disk, launch, running, tcp>>

\* recordFailedRuntime writes failed.json and removes pending.json; then the
\* rollback.
Record ==
  /\ pc = "record" /\ failed' = candidate /\ pc' = "forget"
  /\ UNCHANGED <<files, active, pending, schema, launch, running, tcp, hist>>
Forget ==
  /\ pc = "forget" /\ pending' = "none"
  /\ pc' = IF previous /\ Verified(active) THEN "rollback" ELSE "fallback"
  /\ UNCHANGED <<files, active, failed, schema, launch, running, tcp, hist>>
RecordFails ==
  /\ pc \in {"record", "forget"} /\ Fault /\ pc' = "rejected"
  /\ UNCHANGED <<disk, launch, running, tcp>>
RollsBack == StartsAt("rollback", active, "up")
RollbackFails == FailsAt("rollback", active, "rejected")

FallbackStarts ==
  /\ pc = "fallback" /\ pc' = (IF running = {} THEN "serving" ELSE "rejected") /\ tcp' = NoStream
  /\ UNCHANGED <<disk, launch, running, hist>>

\* A rejected launch ends the process unless an application keeps it alive.
Exit ==
  /\ pc = "rejected" /\ running = {} /\ pc' = "off"
  /\ UNCHANGED <<disk, launch, running, tcp, hist>>
\* SIGTERM while something runs.
Stop ==
  /\ pc \in {"up", "serving"} /\ pc' = "off" /\ running' = {} /\ tcp' = NoStream
  /\ UNCHANGED <<disk, launch, hist>>

Crash ==
  /\ pc # "off" /\ Fault /\ pc' = "off" /\ running' = {} /\ tcp' = NoStream
  /\ UNCHANGED <<disk, launch>>
Damage(n) ==
  /\ hist.faults < MaxFaults /\ files[n] # "none"
  /\ files' = [files EXCEPT ![n] = "damaged"]
  /\ hist' = [hist EXCEPT !.faults = @ + 1, !.damaged = TRUE]
  /\ UNCHANGED <<active, pending, failed, schema, pc, launch, running, tcp>>

----------------------------------------------------------------------------
(* The fallback's TCP connection: a message is two pieces long.               *)

Answer(q) == IF q \in HasRecord THEN {"record"} ELSE {"upstream", "servfail"}

\* The loop of the data handler: the message at the front of what has come is
\* taken off and waited for.
TakenAgain(t) == IF t.bytes < 2 THEN t
                 ELSE [t EXCEPT !.waiting = @ \cup {(t.sent - t.bytes) \div 2 + 1}]
Taken(t) == IF t.bytes < 2 THEN t
            ELSE [t EXCEPT !.waiting = @ \cup {(t.sent - t.bytes) \div 2 + 1}, !.bytes = @ - 2]
Data(n) ==
  /\ pc = "serving" /\ tcp.sent + n <= 2 * Len(Queries)
  /\ tcp' = Taken([tcp EXCEPT !.bytes = @ + n, !.sent = @ + n])
  /\ UNCHANGED <<disk, pc, launch, running, hist>>
Resolved(k) ==
  /\ pc = "serving" /\ k \in tcp.waiting
  /\ \E a \in Answer(Queries[k]) :
       tcp' = Taken([tcp EXCEPT !.waiting = @ \ {k}, !.answers = Append(@, [query |-> k, from |-> a])])
  /\ UNCHANGED <<disk, pc, launch, running, hist>>

Next ==
  \/ Boot \/ Look \/ Invalid \/ Unresolved \/ (\E r \in Releases : Offered(r))
  \/ WriteRuntime \/ WriteNative \/ WritePending
  \/ Starts \/ Fails \/ Promote \/ Clean \/ PromoteFails
  \/ Record \/ Forget \/ RecordFails \/ RollsBack \/ RollbackFails \/ FallbackStarts
  \/ Exit \/ Stop \/ Crash \/ (\E n \in Names : Damage(n))
  \/ (\E n \in 1 .. 4 : Data(n)) \/ \E k \in 1 .. Len(Queries) : Resolved(k)

Spec == Init /\ [][Next]_vars

----------------------------------------------------------------------------
(* Properties.                                                                *)

Named == Releases \cup {"none"}

\* Types, for what is on disk and where the launch is.
TypeOK ==
  /\ files \in [Names -> {Code[r] : r \in Releases} \cup {Native[r] : r \in Releases} \cup {"none", "damaged"}]
  /\ active \in Named /\ pending \in Named /\ failed \in Named /\ schema \in Nat /\ candidate \in Named
  /\ pc \in {"runtime", "native", "pending", "start", "promote", "clean", "record", "forget"} => candidate \in Releases

\* active.json names a release that has been up: a candidate that failed, or
\* that a crash cut off, is never the one to go back to.
ActiveHasStarted == active # "none" => active \in hist.started

\* The last-known-good release stays whole: downloads, crashes and failed writes
\* leave its files as they were, also when a version is published again.
GoodIsKept == active # "none" /\ ~hist.damaged => Verified(active)

\* The release to go back to is there: it has been up and it is whole.
ActiveIsGood == TypeOK /\ ActiveHasStarted /\ GoodIsKept

\* The fallback serves only when there is no active release, or the active one
\* was tried in this launch.
FallbackIsLast == pc = "serving" /\ ~hist.damaged => active = "none" \/ active \in hist.tried

\* A candidate is settled by the launch that downloaded it: without faults, no
\* later launch finds one that was neither promoted nor recorded as failed.
PendingIsSettled == pc \in {"up", "serving"} /\ hist.faults = 0 => pending = "none"

\* The fallback answers each message of a connection once, from config.json
\* where that has the record, whatever pieces arrive while others are resolved.
AnsweredOnce ==
  /\ \A i, j \in DOMAIN tcp.answers : tcp.answers[i].query = tcp.answers[j].query => i = j
  /\ \A i \in DOMAIN tcp.answers : tcp.answers[i].from = "record" <=> Queries[tcp.answers[i].query] \in HasRecord
=============================================================================
