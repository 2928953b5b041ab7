-------------------------- MODULE BootstrapProofs ---------------------------
(* The release to go back to is whole and has been up, the fallback comes     *)
(* last, candidates are settled, and the fallback answers each message of a   *)
(* TCP connection once: for every set of releases and every number of         *)
(* launches, of faults and of messages.                                       *)
EXTENDS Bootstrap, TLAPS

Contents == {Code[r] : r \in Releases} \cup {Native[r] : r \in Releases} \cup {"none", "damaged"}
Chosen == {"runtime", "native", "pending", "start", "promote", "clean", "record", "forget"}
History == [boots : Nat, faults : Nat, damaged : BOOLEAN, started : SUBSET Releases, tried : SUBSET Named]

Types ==
  /\ files \in [Names -> Contents]
  /\ active \in Named /\ pending \in Named /\ failed \in Named /\ candidate \in Named
  /\ schema \in Nat /\ previous \in BOOLEAN /\ hist \in History
  /\ pc \in Chosen => candidate \in Releases

\* A candidate is promoted after it was up; what is started without a download
\* is the active release.
Started ==
  /\ pc = "promote" => candidate \in hist.started /\ candidate \in hist.tried
  /\ pc \in {"runtime", "native", "pending"} => source = "download"
  /\ pc = "start" /\ source # "download" => candidate = active

\* Once the launch has looked, an active release that it did not find has been
\* tried by it, and so has any that is active when the fallback is due.
Tried ==
  ~hist.damaged =>
    /\ pc \notin {"off", "look"} /\ ~previous => active = "none" \/ active \in hist.tried
    /\ pc \in {"fallback", "serving"} => active = "none" \/ active \in hist.tried

\* Where a candidate may be pending.
Settling ==
  hist.faults = 0 /\ pending # "none" =>
    pc \in {"promote", "clean", "record", "forget"} \/ (pc = "start" /\ source = "download")

IInv == Types /\ ActiveHasStarted /\ GoodIsKept /\ Started /\ Tried /\ Settling

----------------------------------------------------------------------------
(* Files.                                                                     *)

LEMMA NamesAreApart ==
  ASSUME NEW r \in Releases, NEW s \in Releases
  PROVE  /\ FileOf(r) \in Names /\ NativeOf(r) \in Names
         /\ FileOf(r) = FileOf(s) => Code[r] = Code[s]
         /\ NativeOf(r) = NativeOf(s) => Native[r] = Native[s]
         /\ FileOf(r) # NativeOf(s)
BY DEF FileOf, NativeOf, Names

\* Writing the files of one release leaves those of every whole one as they are.
LEMMA RuntimeWriteKeeps ==
  ASSUME Types, NEW c \in Releases, NEW r, Verified(r),
         files' = [files EXCEPT ![FileOf(c)] = Code[c]]
  PROVE  Verified(r)'
<1>1. r \in Releases /\ files[FileOf(r)] = Code[r] /\ files[NativeOf(r)] = Native[r]
  BY DEF Verified
<1>2. files'[FileOf(r)] = Code[r] /\ files'[NativeOf(r)] = Native[r]
  BY <1>1, NamesAreApart DEF Types
<1> QED BY <1>1, <1>2 DEF Verified, FileOf, NativeOf

LEMMA NativeWriteKeeps ==
  ASSUME Types, NEW c \in Releases, NEW r, Verified(r),
         files' = [files EXCEPT ![NativeOf(c)] = Native[c]]
  PROVE  Verified(r)'
<1>1. r \in Releases /\ files[FileOf(r)] = Code[r] /\ files[NativeOf(r)] = Native[r]
  BY DEF Verified
<1>2. files'[FileOf(r)] = Code[r] /\ files'[NativeOf(r)] = Native[r]
  BY <1>1, NamesAreApart DEF Types
<1> QED BY <1>1, <1>2 DEF Verified, FileOf, NativeOf

LEMMA VerifiedIsKept ==
  ASSUME UNCHANGED files
  PROVE  \A r : Verified(r)' = Verified(r)
BY DEF Verified, FileOf, NativeOf

LEMMA InitHolds == Init => IInv
<1> SUFFICES ASSUME Init PROVE IInv
  OBVIOUS
<1>1. files \in [Names -> Contents]
  BY DEF Init, Contents
<1>2. hist \in History
  BY DEF Init, History
<1>3. Types
  BY <1>1, <1>2 DEF Init, Types, Named, Chosen
<1> QED BY <1>3 DEF Init, IInv, ActiveHasStarted, GoodIsKept, Started, Tried, Settling

----------------------------------------------------------------------------
(* What the history remembers.                                                *)

LEMMA FaultCounts ==
  ASSUME Types, Fault
  PROVE  /\ hist' \in History /\ hist'.faults > 0 /\ hist'.damaged = hist.damaged
         /\ hist'.started = hist.started /\ hist'.tried = hist.tried
BY DEF Types, Fault, History

\* The members of IInv that speak of the active release hold if it, its files
\* and the history are left alone.
LEMMA ActiveStays ==
  ASSUME IInv, UNCHANGED <<active, files>>,
         hist'.started = hist.started, hist'.damaged = hist.damaged
  PROVE  ActiveHasStarted' /\ GoodIsKept'
BY VerifiedIsKept DEF IInv, ActiveHasStarted, GoodIsKept

----------------------------------------------------------------------------
(* Resolving a runtime.                                                       *)

LEMMA BootKeeps == ASSUME IInv, Boot PROVE IInv'
<1>1. /\ hist' \in History /\ hist'.faults = hist.faults /\ hist'.damaged = hist.damaged
      /\ hist'.started = hist.started /\ hist'.tried = {}
  <2>1. hist' = [[hist EXCEPT !.boots = @ + 1] EXCEPT !.tried = {}]
    BY DEF Boot
  <2>2. [hist EXCEPT !.boots = @ + 1] \in History
    BY DEF IInv, Types, History
  <2> QED BY <2>1, <2>2 DEF IInv, Types, History
<1>2. Types'
  BY <1>1 DEF IInv, Types, Boot, Chosen, Named, disk
<1>3. ActiveHasStarted' /\ GoodIsKept'
  BY <1>1, ActiveStays DEF Boot, disk
<1>4. Started' /\ Tried' /\ Settling'
  BY <1>1 DEF IInv, Started, Tried, Settling, Boot, disk
<1> QED BY <1>2, <1>3, <1>4 DEF IInv

LEMMA LookKeeps == ASSUME IInv, Look PROVE IInv'
<1>1. Types'
  BY DEF IInv, Types, Look, Chosen, Verified, disk
<1>2. ActiveHasStarted' /\ GoodIsKept'
  BY ActiveStays DEF Look, disk
<1>3. Started' /\ Settling'
  BY DEF IInv, Started, Settling, Look, disk
<1>4. Tried'
  BY DEF IInv, Tried, GoodIsKept, Look, disk
<1> QED BY <1>1, <1>2, <1>3, <1>4 DEF IInv

LEMMA ResolvingKeeps ==
  ASSUME IInv, Invalid \/ Unresolved \/ \E r \in Releases : Offered(r)
  PROVE  IInv'
<1>1. UNCHANGED <<files, active, pending, failed, schema, previous, hist>>
  BY DEF Invalid, Unresolved, Offered, disk, launch
<1>2. ActiveHasStarted' /\ GoodIsKept'
  BY <1>1, ActiveStays
<1>3. CASE Invalid
  <2>1. Types'
    BY <1>1, <1>3 DEF IInv, Types, Invalid, Chosen, launch
  <2>2. Started' /\ Tried' /\ Settling'
    BY <1>1, <1>3 DEF IInv, Started, Tried, Settling, Invalid, launch
  <2> QED BY <1>2, <2>1, <2>2 DEF IInv
<1>4. CASE Unresolved
  <2>1. Types'
    BY <1>1, <1>4 DEF IInv, Types, Unresolved, Chosen, Verified, Named
  <2>2. Started' /\ Settling'
    BY <1>1, <1>4 DEF IInv, Started, Settling, Unresolved
  <2>3. Tried'
    BY <1>1, <1>4 DEF IInv, Tried, GoodIsKept, Unresolved
  <2> QED BY <1>2, <2>1, <2>2, <2>3 DEF IInv
<1>5. CASE \E r \in Releases : Offered(r)
  <2>1. Types'
    BY <1>1, <1>5 DEF IInv, Types, Offered, Chosen, Named
  <2>2. Started' /\ Tried' /\ Settling'
    BY <1>1, <1>5 DEF IInv, Started, Tried, Settling, Offered
  <2> QED BY <1>2, <2>1, <2>2 DEF IInv
<1> QED BY <1>3, <1>4, <1>5

LEMMA WritesKeep ==
  ASSUME IInv, WriteRuntime \/ WriteNative \/ WritePending
  PROVE  IInv'
<1>1. UNCHANGED <<active, failed, schema, candidate, source, previous, hist>> /\ candidate \in Releases
  BY DEF IInv, Types, Chosen, WriteRuntime, WriteNative, WritePending, launch
<1>2. Code[candidate] \in Contents /\ Native[candidate] \in Contents
  BY <1>1 DEF Contents
<1>3. files' \in [Names -> Contents]
  BY <1>1, <1>2, NamesAreApart DEF IInv, Types, WriteRuntime, WriteNative, WritePending
<1>4. Types'
  BY <1>1, <1>3 DEF IInv, Types, Named, WriteRuntime, WriteNative, WritePending
<1>5. Verified(active) => Verified(active)'
  <2>1. CASE WriteRuntime
    <3>1. files' = [files EXCEPT ![FileOf(candidate)] = Code[candidate]] /\ active' = active
      BY <2>1 DEF WriteRuntime
    <3>2. \A r : Verified(r) => r \in Releases /\ files'[FileOf(r)] = Code[r] /\ files'[NativeOf(r)] = Native[r]
      BY <1>1, <3>1, RuntimeWriteKeeps DEF IInv, Verified
    <3> QED BY <3>1, <3>2 DEF Verified
  <2>2. CASE WriteNative
    <3>1. files' = [files EXCEPT ![NativeOf(candidate)] = Native[candidate]] /\ active' = active
      BY <2>2 DEF WriteNative
    <3>2. \A r : Verified(r) => r \in Releases /\ files'[FileOf(r)] = Code[r] /\ files'[NativeOf(r)] = Native[r]
      BY <1>1, <3>1, NativeWriteKeeps DEF IInv, Verified
    <3> QED BY <3>1, <3>2 DEF Verified
  <2>3. CASE WritePending
    BY <1>1, <2>3, VerifiedIsKept DEF WritePending, Verified
  <2> QED BY <2>1, <2>2, <2>3
<1>6. ActiveHasStarted' /\ GoodIsKept'
  BY <1>1, <1>5 DEF IInv, ActiveHasStarted, GoodIsKept
<1>7. Started' /\ Tried' /\ Settling'
  BY <1>1 DEF IInv, Started, Tried, Settling, WriteRuntime, WriteNative, WritePending
<1> QED BY <1>4, <1>6, <1>7 DEF IInv

----------------------------------------------------------------------------
(* Starting it.                                                               *)

\* A start adds to the releases that have been up, only.
LEMMA StartsAtDoes ==
  ASSUME IInv, NEW p, NEW r, NEW then, StartsAt(p, r, then)
  PROVE  /\ hist' \in History /\ hist'.faults = hist.faults /\ hist'.damaged = hist.damaged
         /\ hist'.started = hist.started \cup {r} /\ hist'.tried = hist.tried \cup {r}
         /\ ActiveHasStarted' /\ GoodIsKept' /\ schema' \in Nat /\ r \in Releases
         /\ UNCHANGED <<files, active, pending, failed, candidate, source, previous>>
<1>1. r \in Releases
  BY DEF StartsAt, CanOpen, Verified
<1>2. /\ hist' \in History /\ hist'.faults = hist.faults /\ hist'.damaged = hist.damaged
      /\ hist'.started = hist.started \cup {r} /\ hist'.tried = hist.tried \cup {r}
  BY <1>1 DEF IInv, Types, History, StartsAt, Named
<1>3. UNCHANGED <<files, active, pending, failed, candidate, source, previous>> /\ schema' \in Nat
  BY <1>1, ReleasesAssumption DEF StartsAt, launch
<1>4. ActiveHasStarted' /\ GoodIsKept'
  BY <1>2, <1>3, VerifiedIsKept DEF IInv, ActiveHasStarted, GoodIsKept
<1> QED BY <1>1, <1>2, <1>3, <1>4

LEMMA FailsAtDoes ==
  ASSUME IInv, NEW p, NEW r \in Named, NEW then, FailsAt(p, r, then)
  PROVE  /\ hist' \in History /\ hist'.faults = hist.faults /\ hist'.damaged = hist.damaged
         /\ hist'.started = hist.started /\ hist'.tried = hist.tried \cup {r}
         /\ ActiveHasStarted' /\ GoodIsKept' /\ schema' \in Nat
         /\ UNCHANGED <<files, active, pending, failed, candidate, source, previous>>
<1>1. /\ hist' \in History /\ hist'.faults = hist.faults /\ hist'.damaged = hist.damaged
      /\ hist'.started = hist.started /\ hist'.tried = hist.tried \cup {r}
  BY DEF IInv, Types, History, FailsAt
<1>2. UNCHANGED <<files, active, pending, failed, candidate, source, previous>>
  BY DEF FailsAt, launch
<1>3. schema' \in Nat
  BY ReleasesAssumption DEF IInv, Types, FailsAt, CanOpen, Verified
<1>4. ActiveHasStarted' /\ GoodIsKept'
  BY <1>1, <1>2, ActiveStays
<1> QED BY <1>1, <1>2, <1>3, <1>4

LEMMA StartsKeeps == ASSUME IInv, Starts PROVE IInv'
<1>1. StartsAt("start", candidate, AfterStart)
  BY DEF Starts
<1>2. pc = "start" /\ pc' = IF source = "download" THEN "promote" ELSE "up"
  BY <1>1 DEF StartsAt, AfterStart
<1>3. Types'
  BY <1>1, <1>2, StartsAtDoes DEF IInv, Types, Chosen
<1>4. Started' /\ Tried' /\ Settling'
  BY <1>1, <1>2, StartsAtDoes DEF IInv, Started, Tried, Settling
<1> QED BY <1>1, <1>3, <1>4, StartsAtDoes DEF IInv

LEMMA FailsKeeps == ASSUME IInv, Fails PROVE IInv'
<1>1. FailsAt("start", candidate, AfterFailure) /\ candidate \in Releases /\ candidate \in Named
  BY DEF IInv, Types, Fails, FailsAt, Chosen
<1>2. pc = "start" /\ pc' = IF source = "download" THEN "record" ELSE "fallback"
  BY <1>1 DEF FailsAt, AfterFailure
<1>3. Types'
  BY <1>1, <1>2, FailsAtDoes DEF IInv, Types, Chosen
<1>4. Started' /\ Settling'
  BY <1>1, <1>2, FailsAtDoes DEF IInv, Started, Settling
<1>5. Tried'
  BY <1>1, <1>2, FailsAtDoes DEF IInv, Tried, Started
<1> QED BY <1>1, <1>3, <1>4, <1>5, FailsAtDoes DEF IInv

LEMMA PromoteKeeps == ASSUME IInv, Promote PROVE IInv'
<1>1. UNCHANGED <<files, pending, failed, schema, candidate, source, previous, hist>>
  BY DEF Promote, launch
<1>2. pc = "promote" /\ pc' = "clean" /\ active' = candidate /\ Verified(candidate)
  BY DEF Promote, MayPromote
<1>3. Types'
  BY <1>1, <1>2 DEF IInv, Types, Chosen
<1>4. ActiveHasStarted' /\ GoodIsKept'
  BY <1>1, <1>2, VerifiedIsKept DEF IInv, Started, ActiveHasStarted, GoodIsKept, Verified
<1>5. Started' /\ Tried' /\ Settling'
  BY <1>1, <1>2 DEF IInv, Started, Tried, Settling
<1> QED BY <1>3, <1>4, <1>5 DEF IInv

LEMMA CleanKeeps == ASSUME IInv, Clean PROVE IInv'
<1>1. UNCHANGED <<files, active, failed, schema, candidate, source, previous, hist>>
  BY DEF Clean, launch
<1>2. Types'
  BY <1>1 DEF IInv, Types, Chosen, Named, Clean
<1>3. Started' /\ Tried' /\ Settling'
  BY <1>1 DEF IInv, Started, Tried, Settling, Clean
<1> QED BY <1>1, <1>2, <1>3, ActiveStays DEF IInv

LEMMA RecordKeeps == ASSUME IInv, Record PROVE IInv'
<1>1. UNCHANGED <<files, active, pending, schema, candidate, source, previous, hist>>
  BY DEF Record, launch
<1>2. Types'
  BY <1>1 DEF IInv, Types, Chosen, Named, Record
<1>3. Started' /\ Tried' /\ Settling'
  BY <1>1 DEF IInv, Started, Tried, Settling, Record
<1> QED BY <1>1, <1>2, <1>3, ActiveStays DEF IInv

LEMMA ForgetKeeps == ASSUME IInv, Forget PROVE IInv'
<1>1. UNCHANGED <<files, active, failed, schema, candidate, source, previous, hist>>
  BY DEF Forget, launch
<1>2. Types'
  BY <1>1 DEF IInv, Types, Chosen, Named, Forget
<1>3. Started' /\ Settling'
  BY <1>1 DEF IInv, Started, Settling, Forget
<1>4. Tried'
  BY <1>1 DEF IInv, Tried, GoodIsKept, Forget
<1> QED BY <1>1, <1>2, <1>3, <1>4, ActiveStays DEF IInv

LEMMA RollbackKeeps == ASSUME IInv, RollsBack \/ RollbackFails PROVE IInv'
<1>1. CASE RollsBack
  <2>1. StartsAt("rollback", active, "up") /\ pc = "rollback" /\ pc' = "up"
    BY <1>1 DEF RollsBack, StartsAt
  <2>2. Types'
    BY <2>1, StartsAtDoes DEF IInv, Types, Chosen
  <2>3. Started' /\ Tried' /\ Settling'
    BY <2>1, StartsAtDoes DEF IInv, Started, Tried, Settling
  <2> QED BY <2>1, <2>2, <2>3, StartsAtDoes DEF IInv
<1>2. CASE RollbackFails
  <2>1. FailsAt("rollback", active, "rejected") /\ pc = "rollback" /\ pc' = "rejected" /\ active \in Named
    BY <1>2 DEF IInv, Types, RollbackFails, FailsAt
  <2>2. Types'
    BY <2>1, FailsAtDoes DEF IInv, Types, Chosen
  <2>3. Started' /\ Tried' /\ Settling'
    BY <2>1, FailsAtDoes DEF IInv, Started, Tried, Settling
  <2> QED BY <2>1, <2>2, <2>3, FailsAtDoes DEF IInv
<1> QED BY <1>1, <1>2

----------------------------------------------------------------------------
(* Failures, ends and damage.                                                 *)

LEMMA PromoteFailsKeeps == ASSUME IInv, PromoteFails PROVE IInv'
<1>1. UNCHANGED <<files, active, pending, failed, schema, candidate, source, previous>> /\ pc' = "record" /\ pc \in {"promote", "clean"}
  BY DEF PromoteFails, disk, launch
<1>2. /\ hist' \in History /\ hist'.damaged = hist.damaged
      /\ hist'.started = hist.started /\ hist'.tried = hist.tried
  BY FaultCounts DEF PromoteFails, IInv, Types
<1>3. Types'
  BY <1>1, <1>2 DEF IInv, Types, Chosen
<1>4. Started' /\ Settling'
  <2>1. pc' = "record"
    BY <1>1
  <2> QED BY <2>1 DEF Started, Settling
<1>5. Tried'
  <2>1. pc \notin {"off", "look"} /\ pc' \notin {"fallback", "serving"}
    BY <1>1
  <2> QED BY <1>1, <1>2, <2>1 DEF IInv, Tried
<1> QED BY <1>1, <1>2, <1>3, <1>4, <1>5, ActiveStays DEF IInv

LEMMA FaultsKeep == ASSUME IInv, RecordFails \/ Crash PROVE IInv'
<1>1. UNCHANGED <<files, active, pending, failed, schema, candidate, source, previous>> /\ pc' \in {"rejected", "off"}
  BY DEF RecordFails, Crash, disk, launch
<1>2. /\ hist' \in History /\ hist'.faults > 0 /\ hist'.damaged = hist.damaged
      /\ hist'.started = hist.started /\ hist'.tried = hist.tried
  BY FaultCounts DEF RecordFails, Crash, IInv
<1>3. Types'
  BY <1>1, <1>2 DEF IInv, Types, Chosen
<1>4. Started' /\ Settling'
  BY <1>1, <1>2 DEF Started, Settling, History
<1>5. Tried'
  <2>1. CASE pc' = "off"
    BY <2>1 DEF Tried
  <2>2. CASE RecordFails
    BY <1>1, <1>2, <2>2 DEF IInv, Tried, RecordFails
  <2> QED BY <2>1, <2>2 DEF Crash
<1> QED BY <1>1, <1>2, <1>3, <1>4, <1>5, ActiveStays DEF IInv

LEMMA EndsKeep == ASSUME IInv, FallbackStarts \/ Exit \/ Stop PROVE IInv'
<1>1. UNCHANGED <<files, active, pending, failed, schema, candidate, source, previous, hist>>
  BY DEF FallbackStarts, Exit, Stop, disk, launch
<1>2. Types'
  BY <1>1 DEF IInv, Types, Chosen, FallbackStarts, Exit, Stop
<1>3. Started' /\ Tried' /\ Settling'
  BY <1>1 DEF IInv, Started, Tried, Settling, FallbackStarts, Exit, Stop
<1> QED BY <1>1, <1>2, <1>3, ActiveStays DEF IInv

LEMMA DamageKeeps == ASSUME IInv, NEW n \in Names, Damage(n) PROVE IInv'
<1>1. UNCHANGED <<active, pending, failed, schema, pc, candidate, source, previous>>
  BY DEF Damage, launch
<1>2. hist' \in History /\ hist'.faults > 0 /\ hist'.damaged /\ hist'.started = hist.started /\ hist'.tried = hist.tried
  <2>1. hist' = [[hist EXCEPT !.faults = @ + 1] EXCEPT !.damaged = TRUE]
    BY DEF Damage
  <2>2. [hist EXCEPT !.faults = @ + 1] \in History /\ hist.faults \in Nat
    BY DEF IInv, Types, History
  <2>3. hist' \in History /\ hist'.damaged
    BY <2>1, <2>2 DEF History
  <2>4. hist'.faults = hist.faults + 1 /\ hist'.started = hist.started /\ hist'.tried = hist.tried
    BY <2>1 DEF IInv, Types, History
  <2> QED BY <2>2, <2>3, <2>4
<1>3. files' \in [Names -> Contents]
  BY DEF IInv, Types, Damage, Contents
<1>4. Types'
  BY <1>1, <1>2, <1>3 DEF IInv, Types
<1> QED BY <1>1, <1>2, <1>4 DEF IInv, ActiveHasStarted, GoodIsKept, Started, Tried, Settling, History

LEMMA ConnectionKeeps ==
  ASSUME IInv, UNCHANGED <<disk, pc, launch, hist>>
  PROVE  IInv'
<1>1. UNCHANGED <<files, active, pending, failed, schema, pc, candidate, source, previous, hist>>
  BY DEF disk, launch
<1> QED BY <1>1, ActiveStays DEF IInv, Types, Started, Tried, Settling

----------------------------------------------------------------------------
LEMMA StepKeeps == IInv /\ [Next]_vars => IInv'
<1> SUFFICES ASSUME IInv, [Next]_vars PROVE IInv'
  OBVIOUS
<1>1. CASE Boot
  BY <1>1, BootKeeps
<1>2. CASE Look
  BY <1>2, LookKeeps
<1>3. CASE Invalid \/ Unresolved \/ \E r \in Releases : Offered(r)
  BY <1>3, ResolvingKeeps
<1>4. CASE WriteRuntime \/ WriteNative \/ WritePending
  BY <1>4, WritesKeep
<1>5. CASE Starts
  BY <1>5, StartsKeeps
<1>6. CASE Fails
  BY <1>6, FailsKeeps
<1>7. CASE Promote
  BY <1>7, PromoteKeeps
<1>8. CASE Clean
  BY <1>8, CleanKeeps
<1>9. CASE PromoteFails
  BY <1>9, PromoteFailsKeeps
<1>10. CASE Record \/ Forget
  BY <1>10, RecordKeeps, ForgetKeeps
<1>11. CASE RollsBack \/ RollbackFails
  BY <1>11, RollbackKeeps
<1>12. CASE RecordFails \/ Crash
  BY <1>12, FaultsKeep
<1>13. CASE FallbackStarts \/ Exit \/ Stop
  BY <1>13, EndsKeep
<1>14. CASE \E n \in Names : Damage(n)
  BY <1>14, DamageKeeps
<1>15. CASE (\E n \in 1 .. 4 : Data(n)) \/ \E k \in 1 .. Len(Queries) : Resolved(k)
  BY <1>15, ConnectionKeeps DEF Data, Resolved
<1>16. CASE UNCHANGED vars
  BY <1>16, ConnectionKeeps DEF vars, disk, launch
<1> QED BY <1>1, <1>2, <1>3, <1>4, <1>5, <1>6, <1>7, <1>8, <1>9, <1>10, <1>11, <1>12, <1>13, <1>14, <1>15, <1>16 DEF Next

\* The whole invariant, for every set of releases.
THEOREM Invariance == Spec => []IInv
BY InitHolds, StepKeeps, PTL DEF Spec

\* The embedded fallback serves only when there is no active release or it was
\* tried (launch).
THEOREM FallbackComesLast == Spec => []FallbackIsLast
<1>1. IInv => FallbackIsLast
  BY DEF IInv, Tried, FallbackIsLast
<1> QED BY <1>1, Invariance, PTL

\* The release that active.json names has been up and stays whole through
\* downloads, crashes and failed writes (promoteRuntime, atomicWrite).
THEOREM ActiveStaysGood == Spec => []ActiveIsGood
<1>1. IInv => ActiveIsGood
  BY DEF IInv, Types, ActiveIsGood, TypeOK, Contents, Chosen
<1> QED BY <1>1, Invariance, PTL

\* Without faults, a launch settles the candidate it downloaded (launch,
\* recordFailedRuntime).
THEOREM CandidatesAreSettled == Spec => []PendingIsSettled
<1>1. IInv => PendingIsSettled
  BY DEF IInv, Settling, PendingIsSettled
<1> QED BY <1>1, Invariance, PTL
----------------------------------------------------------------------------
(* The fallback's TCP connection.                                             *)

\* The first n messages of the connection have been taken off it; each waits
\* for its answer or has had it, and what was answered came from where the
\* record is.
Reply == [query : Nat, from : {"record", "upstream", "servfail"}]
Streams == [sent : Nat, bytes : Nat, waiting : SUBSET Nat, answers : Seq(Reply)]
Fits(t, n) ==
  /\ t \in Streams /\ t.sent - t.bytes = 2 * n
  /\ t.waiting \subseteq 1 .. n
  /\ \A i \in DOMAIN t.answers : t.answers[i].query \in (1 .. n) \ t.waiting
  /\ \A i, j \in DOMAIN t.answers : t.answers[i].query = t.answers[j].query => i = j
  /\ \A i \in DOMAIN t.answers : t.answers[i].from = "record" <=> Queries[t.answers[i].query] \in HasRecord

TInv == \E n \in Nat : Fits(tcp, n)

\* The message taken off next has not been taken before.
LEMMA TakenFits ==
  ASSUME NEW t, NEW n \in Nat, Fits(t, n)
  PROVE  \E m \in Nat : Fits(Taken(t), m)
<1>1. CASE t.bytes < 2
  BY <1>1 DEF Taken
<1>2. CASE ~(t.bytes < 2)
  <2> DEFINE k == (t.sent - t.bytes) \div 2 + 1
             u == [t EXCEPT !.waiting = @ \cup {k}]
             v == [u EXCEPT !.bytes = @ - 2]
  <2>1. t \in Streams /\ k = n + 1 /\ t.bytes - 2 \in Nat
    BY <1>2 DEF Fits, Streams
  <2>2. Taken(t) = v
    BY <1>2, <2>1 DEF Taken, Streams
  <2> HIDE DEF k
  <2>3. /\ u \in Streams /\ u.sent = t.sent /\ u.bytes = t.bytes
        /\ u.waiting = t.waiting \cup {n + 1} /\ u.answers = t.answers
    BY <2>1 DEF Streams
  <2> HIDE DEF u
  <2>4. /\ v \in Streams /\ v.sent = t.sent /\ v.bytes = t.bytes - 2
        /\ v.waiting = t.waiting \cup {n + 1} /\ v.answers = t.answers
    BY <2>1, <2>3 DEF Streams
  <2> HIDE DEF v
  <2>5. v.sent - v.bytes = 2 * (n + 1)
    BY <2>1, <2>4 DEF Fits, Streams
  <2>6. v.waiting \subseteq 1 .. n + 1
    BY <2>4 DEF Fits
  <2>7. \A i \in DOMAIN v.answers : v.answers[i].query \in (1 .. n + 1) \ v.waiting
    BY <2>4 DEF Fits
  <2>8. Fits(v, n + 1)
    BY <2>4, <2>5, <2>6, <2>7 DEF Fits
  <2> QED BY <2>2, <2>8
<1> QED BY <1>1, <1>2

LEMMA DataFits == ASSUME TInv, NEW n \in 1 .. 4, Data(n) PROVE TInv'
<1>1. PICK c \in Nat : Fits(tcp, c)
  BY DEF TInv
<1> DEFINE u == [tcp EXCEPT !.bytes = @ + n]
           v == [u EXCEPT !.sent = @ + n]
<1>2. /\ u \in Streams /\ u.sent = tcp.sent /\ u.bytes = tcp.bytes + n
      /\ u.waiting = tcp.waiting /\ u.answers = tcp.answers
  <2>1. tcp \in Streams
    BY <1>1 DEF Fits
  <2>2. tcp.bytes + n \in Nat
    BY <2>1 DEF Streams
  <2> QED BY <2>1, <2>2 DEF Streams
<1>3. tcp' = Taken(v)
  BY <1>1 DEF Data, Fits, Streams
<1> HIDE DEF u
<1>4. /\ v \in Streams /\ v.sent = tcp.sent + n /\ v.bytes = tcp.bytes + n
      /\ v.waiting = tcp.waiting /\ v.answers = tcp.answers
  BY <1>2 DEF Streams
<1> HIDE DEF v
<1>5. v.sent - v.bytes = tcp.sent - tcp.bytes
  BY <1>1, <1>4 DEF Fits, Streams
<1>6. Fits(v, c)
  BY <1>1, <1>4, <1>5 DEF Fits
<1> QED BY <1>3, <1>6, TakenFits DEF TInv

\* The answer to a message that waits is its first.
LEMMA ResolvedFits == ASSUME TInv, NEW k \in 1 .. Len(Queries), Resolved(k) PROVE TInv'
<1>1. PICK n \in Nat : Fits(tcp, n)
  BY DEF TInv
<1>2. PICK a \in Answer(Queries[k]) :
        tcp' = Taken([tcp EXCEPT !.waiting = @ \ {k}, !.answers = Append(@, [query |-> k, from |-> a])])
  BY DEF Resolved
<1> DEFINE e == [query |-> k, from |-> a]
           u == [tcp EXCEPT !.waiting = @ \ {k}]
           v == [u EXCEPT !.answers = Append(@, e)]
           m == Len(tcp.answers)
<1>3. k \in tcp.waiting /\ k \in 1 .. n
  BY <1>1 DEF Resolved, Fits
<1>4. e \in Reply /\ (e.from = "record" <=> Queries[k] \in HasRecord) /\ e.query = k
  BY <1>3 DEF Reply, Answer
<1>5. tcp' = Taken(v)
  BY <1>1, <1>2 DEF Fits, Streams
<1> HIDE DEF e
<1>6. /\ u \in Streams /\ u.sent = tcp.sent /\ u.bytes = tcp.bytes
      /\ u.waiting = tcp.waiting \ {k} /\ u.answers = tcp.answers
  BY <1>1 DEF Fits, Streams
<1> HIDE DEF u
<1>7. /\ v \in Streams /\ v.sent = tcp.sent /\ v.bytes = tcp.bytes
      /\ v.waiting = tcp.waiting \ {k} /\ v.answers = Append(tcp.answers, e)
  <2> DEFINE s == Append(tcp.answers, e)
  <2>1. tcp.answers \in Seq(Reply)
    BY <1>1 DEF Fits, Streams
  <2>2. s \in Seq(Reply)
    BY <1>4, <2>1
  <2>3. v = [u EXCEPT !.answers = s]
    BY <1>6 DEF Streams
  <2> HIDE DEF s, v
  <2>4. /\ v \in Streams /\ v.sent = tcp.sent /\ v.bytes = tcp.bytes
        /\ v.waiting = tcp.waiting \ {k} /\ v.answers = s
    BY <1>6, <2>2, <2>3 DEF Streams
  <2> QED BY <2>4 DEF s
<1> HIDE DEF v
<1>8. /\ m \in Nat /\ DOMAIN tcp.answers = 1 .. m /\ DOMAIN v.answers = 1 .. m + 1
      /\ \A i \in 1 .. m : v.answers[i] = tcp.answers[i]
      /\ v.answers[m + 1] = e
  BY <1>1, <1>4, <1>7 DEF Fits, Streams
<1> HIDE DEF m
<1>9. \A i \in 1 .. m : tcp.answers[i].query \in (1 .. n) \ tcp.waiting /\ tcp.answers[i].query # k
  BY <1>1, <1>3, <1>8 DEF Fits
<1>10. \A i \in 1 .. m + 1 : i \in 1 .. m \/ i = m + 1
  BY <1>8
<1>11. \A i \in DOMAIN v.answers : v.answers[i].query \in (1 .. n) \ v.waiting
  BY <1>3, <1>4, <1>7, <1>8, <1>9, <1>10
<1>12. \A i, j \in DOMAIN v.answers : v.answers[i].query = v.answers[j].query => i = j
  <2> SUFFICES ASSUME NEW i \in DOMAIN v.answers, NEW j \in DOMAIN v.answers, v.answers[i].query = v.answers[j].query
               PROVE  i = j
    OBVIOUS
  <2>1. (i \in 1 .. m \/ i = m + 1) /\ (j \in 1 .. m \/ j = m + 1)
    BY <1>8, <1>10
  <2>2. CASE i \in 1 .. m /\ j \in 1 .. m
    BY <1>1, <1>8, <2>2 DEF Fits
  <2>3. CASE i = m + 1 \/ j = m + 1
    BY <1>4, <1>8, <1>9, <2>1, <2>3
  <2> QED BY <2>1, <2>2, <2>3
<1>13. \A i \in DOMAIN v.answers : v.answers[i].from = "record" <=> Queries[v.answers[i].query] \in HasRecord
  BY <1>1, <1>4, <1>8, <1>10 DEF Fits
<1>14. Fits(v, n)
  BY <1>1, <1>7, <1>11, <1>12, <1>13 DEF Fits
<1> QED BY <1>5, <1>14, TakenFits DEF TInv

LEMMA NoStreamFits == Fits(NoStream, 0)
<1>1. NoStream \in Streams /\ DOMAIN NoStream.answers = {}
  BY DEF NoStream, Streams
<1> QED BY <1>1 DEF Fits, NoStream

LEMMA ConnectionSteps == TInv /\ [Next]_vars => TInv'
<1> SUFFICES ASSUME TInv, [Next]_vars PROVE TInv'
  OBVIOUS
<1>1. CASE tcp' = tcp
  BY <1>1 DEF TInv
<1>2. CASE tcp' = NoStream
  BY <1>2, NoStreamFits DEF TInv
<1>3. CASE (\E n \in 1 .. 4 : Data(n)) \/ \E k \in 1 .. Len(Queries) : Resolved(k)
  BY <1>3, DataFits, ResolvedFits
<1>4. CASE Boot \/ Look \/ Invalid \/ Unresolved \/ (\E r \in Releases : Offered(r)) \/ WriteRuntime \/ WriteNative
           \/ WritePending
  BY <1>1, <1>4 DEF Boot, Look, Invalid, Unresolved, Offered, WriteRuntime, WriteNative, WritePending
<1>5. CASE Starts \/ Fails \/ Promote \/ Clean \/ PromoteFails \/ Record \/ Forget \/ RecordFails \/ RollsBack \/ RollbackFails
  BY <1>1, <1>5 DEF Starts, Fails, StartsAt, FailsAt, Promote, Clean, PromoteFails, Record, Forget, RecordFails, RollsBack,
                    RollbackFails
<1>6. CASE FallbackStarts \/ Exit \/ Stop \/ Crash \/ \E n \in Names : Damage(n)
  BY <1>1, <1>2, <1>6 DEF FallbackStarts, Exit, Stop, Crash, Damage
<1>7. CASE UNCHANGED vars
  BY <1>1, <1>7 DEF vars
<1> QED BY <1>3, <1>4, <1>5, <1>6, <1>7 DEF Next

\* The fallback answers each message of a connection once and from
\* config.json where that has the record, in whatever pieces they come and
\* however many wait at a time.
THEOREM ConnectionsAreAnsweredOnce == Spec => []AnsweredOnce
<1>1. Init => TInv
  BY NoStreamFits DEF Init, TInv
<1>2. TInv => AnsweredOnce
  BY DEF TInv, Fits, AnsweredOnce
<1> QED BY <1>1, <1>2, ConnectionSteps, PTL DEF Spec
=============================================================================
