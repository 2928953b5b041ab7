----------------------------- MODULE ProxyCache -----------------------------
(***************************************************************************)
(* class ProxyCache of src/src/services/proxy-cache.js: the entries and    *)
(* the byte count in memory, index.json and the body files on disk.        *)
(*                                                                         *)
(* #run queues the operations, so one is under way at a time (op); inside  *)
(* an operation each awaited change of the disk is a step, and a crash may *)
(* come between any two.  A write through a temporary file and a rename is *)
(* one step: it happens or it does not.  A body file is <<id, body>>, its  *)
(* name being made of the id and the digest of the body.  Time stands      *)
(* still while an operation runs.                                          *)
(***************************************************************************)
EXTENDS Integers, Sequences, FiniteSets, SequencesExt, FiniteSetsExt

CONSTANTS
    Ids,            \* entry ids: one per base key and variant
    Bodies,         \* response bodies
    Responses,      \* <<id, body>>: what upstreams answer with
    Requests,       \* requests a get is made for
    KeyOf,          \* baseKey of an id
    RequestKey,     \* baseKey of a request
    Matches,        \* ids whose vary and variant agree with a request
    Locations,      \* locationKeys
    LocationOf,     \* locationKey of an id
    Size,           \* length of a body
    LocationLimit,  \* policy.maxBytes of a location
    Limits,         \* values of this.maxBytes
    Ttls,           \* ttlSeconds of a response, in clock ticks
    AbruptEnds,     \* may the process end in the middle of an operation?
    MaxTime,        \* bound: the clock stops there
    MaxStarts,      \* bound: starts of one ProxyCache object
    MaxFaults       \* bound: disk operations that fail

\* Responses belong to what is cached, sizes and limits are numbers of bytes,
\* a response is fresh for a while and there is a longest such time.
ASSUME ResponsesAssumption == Responses \subseteq Ids \X Bodies /\ LocationOf \in [Ids -> Locations]
ASSUME SizesAssumption ==
    /\ Size \in [Bodies -> Nat] /\ LocationLimit \in [Locations -> Nat]
    /\ Limits \subseteq Nat
ASSUME TimesAssumption ==
    /\ Ttls \subseteq Nat \ {0} /\ \E longest \in Ttls : \A ttl \in Ttls : ttl <= longest
    /\ MaxTime \in Nat /\ MaxStarts \in Nat /\ MaxFaults \in Nat

VARIABLES
    now,       \* this.now()
    mem,       \* #entries, in the insertion order of the Map
    bytes,     \* #bytes
    started,   \* #started
    maxBytes,  \* this.maxBytes
    index,     \* entries of index.json
    files,     \* body files in the directory
    op,        \* the operation at the head of #queue
    answer,    \* what the last operation returned
    starts,    \* history: how often this object was started
    faults     \* history: failed disk operations

disk == <<index, files>>
memory == <<mem, bytes>>
vars == <<now, mem, bytes, started, maxBytes, index, files, op, answer, starts, faults>>

Entry == [id: Ids, body: Bodies, expires: 1..(MaxTime + Max(Ttls)), used: 0..MaxTime]

Idle == [kind |-> "none"]

\* What an operation does next.
Stages == {"install", "evict", "clear", "scan", "dropped", "hit", "miss", "persist"}

Answered == INSTANCE LossyCache WITH may <- [i \in Ids |-> {}]

Init ==
    /\ now = 0
    /\ mem = <<>>
    /\ bytes = 0
    /\ started = FALSE
    /\ maxBytes \in Limits
    /\ index = <<>>
    /\ files = {}
    /\ op = Idle
    /\ answer = Answered!NoAnswer
    /\ starts = 0
    /\ faults = 0

-----------------------------------------------------------------------------
(* Entries.                                                                *)

Held(s) == {s[j].id : j \in DOMAIN s}
At(s, i) == CHOOSE j \in DOMAIN s : s[j].id = i
File(e) == <<e.id, e.body>>
Expired(e) == e.expires <= now
InLocation(s, l) == {j \in DOMAIN s : LocationOf[s[j].id] = l}

\* The size of the entries at positions J.
SizeOf(s, J) ==
    LET upTo[n \in 0..Len(s)] ==
            IF n = 0 THEN 0 ELSE upTo[n - 1] + IF n \in J THEN Size[s[n].body] ELSE 0
    IN  upTo[Len(s)]
Total(s) == SizeOf(s, DOMAIN s)

\* The entries at positions J, in their order.
Only(s, J) ==
    LET upTo[n \in 0..Len(s)] ==
            IF n = 0 THEN <<>> ELSE IF n \in J THEN Append(upTo[n - 1], s[n]) ELSE upTo[n - 1]
    IN  upTo[Len(s)]

\* The first of the entries at positions J in the order of lastAccess, ties
\* broken by the order of the Map (the sort is stable).
Oldest(J) ==
    CHOOSE j \in J : \A k \in J \ {j} :
        mem[j].used < mem[k].used \/ (mem[j].used = mem[k].used /\ j < k)

\* rm with force; a failure is swallowed and the file stays.
Unlink(e) ==
    \/ files' = files \ {File(e)} /\ faults' = faults
    \/ files' = files /\ faults < MaxFaults /\ faults' = faults + 1

\* Faulty variant: the byte count is not reduced.
RemoveUncounted(j) ==
    /\ mem' = RemoveAt(mem, j)
    /\ bytes' = bytes
    /\ Unlink(mem[j])

\* #remove(entry)
RemoveEntry(j) ==
    /\ mem' = RemoveAt(mem, j)
    /\ bytes' = bytes - Size[mem[j].body]
    /\ Unlink(mem[j])

\* Positions #evict(locationKey, locationMaxBytes) chooses its next victim
\* from: first the location's, then everybody's.
Overfull ==
    IF op.kind = "put" /\ SizeOf(mem, InLocation(mem, LocationOf[op.id])) > LocationLimit[LocationOf[op.id]]
    THEN InLocation(mem, LocationOf[op.id])
    ELSE IF bytes > maxBytes THEN DOMAIN mem
    ELSE {}

-----------------------------------------------------------------------------
(* The operations, up to their first awaited change of the disk.           *)

Ready == op = Idle

Begin(o) ==
    /\ Ready
    /\ op' = o
    /\ answer' = Answered!NoAnswer

\* Entries of the index that start() accepts: not expired, file readable.
Loadable(unreadable) ==
    Only(index, {j \in DOMAIN index : /\ ~Expired(index[j])
                                      /\ File(index[j]) \in files
                                      /\ index[j].id \notin unreadable})

\* Map.set keeps the position of a key that is already there.
SetAll(s, new) ==
    [j \in DOMAIN s |-> IF s[j].id \in Held(new) THEN new[At(new, s[j].id)] ELSE s[j]]
        \o Only(new, {j \in DOMAIN new : new[j].id \notin Held(s)})

Start ==
    /\ ~started
    /\ starts < MaxStarts
    /\ \E unreadable \in {{}} \union {{i} : i \in Held(index)} :
          /\ faults' = faults + Cardinality(unreadable)
          /\ faults' <= MaxFaults
          /\ mem' = SetAll(mem, Loadable(unreadable))
          /\ bytes' = bytes + Total(Loadable(unreadable))
    /\ started' = TRUE
    /\ starts' = starts + 1
    /\ Begin([kind |-> "start", stage |-> "evict"])
    /\ UNCHANGED <<now, maxBytes, disk>>

\* A response the policy, its headers and its size allow to be cached; one that
\* they do not returns false and changes nothing.
Put(i, b, ttl) ==
    /\ started
    /\ Size[b] <= LocationLimit[LocationOf[i]]
    /\ Size[b] <= maxBytes
    /\ files' = files \union {<<i, b>>}
    /\ Begin([kind |-> "put", stage |-> "install", id |-> i, body |-> b, ttl |-> ttl])
    /\ UNCHANGED <<now, memory, started, maxBytes, index, starts, faults>>

Configure(limit) ==
    /\ starts > 0
    /\ maxBytes' = limit
    /\ Begin([kind |-> "configure", stage |-> "evict"])
    /\ UNCHANGED <<now, memory, started, disk, starts, faults>>

Clear(where) ==
    /\ starts > 0
    /\ Begin([kind |-> "clear", stage |-> "clear", where |-> where])
    /\ UNCHANGED <<now, memory, started, maxBytes, disk, starts, faults>>

Close ==
    /\ started
    /\ Begin([kind |-> "close", stage |-> "persist"])
    /\ UNCHANGED <<now, memory, started, maxBytes, disk, starts, faults>>

\* A get that meets no entry of its key which is expired or matches returns
\* null and changes nothing.
Get(q) ==
    /\ started
    /\ \E j \in DOMAIN mem : KeyOf[mem[j].id] = RequestKey[q]
    /\ Begin([kind |-> "get", stage |-> "scan", request |-> q])
    /\ UNCHANGED <<now, memory, started, maxBytes, disk, starts, faults>>

-----------------------------------------------------------------------------
(* The steps of an operation under way.                                    *)

Stage(s) == op # Idle /\ op.stage = s
GoTo(s) == op' = [op EXCEPT !.stage = s]
Return(a) == op' = Idle /\ answer' = a
Steady == UNCHANGED <<now, started, maxBytes, starts>>

\* put(): the entry of the same id is removed, its file too, and the new one
\* takes its place.  When both bodies are equal the file is the new one's.
InstallEntry ==
    /\ Stage("install")
    /\ LET e == [id |-> op.id, body |-> op.body, expires |-> now + op.ttl, used |-> now]
       IN  IF op.id \in Held(mem)
           THEN LET j == At(mem, op.id)
                IN  /\ mem' = Append(RemoveAt(mem, j), e)
                    /\ bytes' = bytes - Size[mem[j].body] + Size[op.body]
                    /\ Unlink(mem[j])
           ELSE /\ mem' = Append(mem, e)
                /\ bytes' = bytes + Size[op.body]
                /\ UNCHANGED <<files, faults>>
    /\ GoTo("evict")
    /\ Steady
    /\ UNCHANGED <<index, answer>>

Evict ==
    /\ Stage("evict")
    /\ Overfull # {}
    /\ RemoveEntry(Oldest(Overfull))
    /\ Steady
    /\ UNCHANGED <<index, op, answer>>

\* configure() of a cache that is not started does not persist.
EvictDone ==
    /\ Stage("evict")
    /\ Overfull = {}
    /\ IF op.kind = "configure" /\ ~started THEN op' = Idle ELSE GoTo("persist")
    /\ Steady
    /\ UNCHANGED <<memory, disk, answer, faults>>

ClearNext ==
    /\ Stage("clear")
    /\ LET doomed == {j \in DOMAIN mem : LocationOf[mem[j].id] \in op.where}
       IN  IF doomed = {}
           THEN GoTo("persist") /\ UNCHANGED <<memory, files, faults>>
           ELSE RemoveEntry(Min(doomed)) /\ UNCHANGED op
    /\ Steady
    /\ UNCHANGED <<index, answer>>

\* The loop of get(): the next entry of the key that is expired or matches.
Relevant(q) ==
    {j \in DOMAIN mem : /\ KeyOf[mem[j].id] = RequestKey[q]
                        /\ Expired(mem[j]) \/ mem[j].id \in Matches[q]}

ScanEnds ==
    /\ Stage("scan")
    /\ Relevant(op.request) = {}
    /\ Return(Answered!NoAnswer)
    /\ Steady
    /\ UNCHANGED <<memory, disk, faults>>

ScanDrops ==
    /\ Stage("scan")
    /\ Relevant(op.request) # {}
    /\ LET j == Min(Relevant(op.request))
       IN  /\ Expired(mem[j])
           /\ RemoveEntry(j)
    /\ GoTo("dropped")
    /\ Steady
    /\ UNCHANGED <<index, answer>>

Touched(j) == [mem EXCEPT ![j].used = now]

ScanHits ==
    /\ Stage("scan")
    /\ Relevant(op.request) # {}
    /\ LET j == Min(Relevant(op.request))
       IN  /\ ~Expired(mem[j])
           /\ File(mem[j]) \in files
           /\ mem' = Touched(j)
           /\ op' = [kind |-> "get", stage |-> "hit", id |-> mem[j].id]
    /\ Steady
    /\ UNCHANGED <<bytes, disk, answer, faults>>

\* The file is missing, unreadable or damaged.
ScanMisses ==
    /\ Stage("scan")
    /\ Relevant(op.request) # {}
    /\ LET j == Min(Relevant(op.request))
       IN  /\ ~Expired(mem[j])
           /\ File(mem[j]) \notin files \/ faults < MaxFaults
           /\ RemoveEntry(j)
    /\ GoTo("miss")
    /\ Steady
    /\ UNCHANGED <<index, answer>>

\* Faulty variant: clear() leaves the index to the next operation.
IndexUnlessCleared == IF op.kind = "clear" THEN index ELSE mem

\* What #persist() writes.
NewIndex == mem

\* #persist() succeeded.
Persisted ==
    /\ \E s \in {"persist", "dropped", "hit", "miss"} : Stage(s)
    /\ index' = NewIndex
    /\ \/ op.stage = "dropped" /\ GoTo("scan") /\ UNCHANGED answer
       \/ op.stage = "miss" /\ Return(Answered!NoAnswer)
       \/ op.stage = "hit" /\ Return(Answered!Served(op.id, mem[At(mem, op.id)].body))
       \/ /\ op.stage = "persist"
          /\ \/ op.kind = "put" /\ Return(Answered!Stored(op.id, op.body, op.id \in Held(mem)))
             \/ op.kind = "clear" /\ Return(Answered!Cleared(op.where))
             \/ op.kind \notin {"put", "clear"} /\ Return(Answered!NoAnswer)
    /\ started' = (started /\ op.kind # "close")
    /\ UNCHANGED <<now, memory, maxBytes, files, starts, faults>>

\* #persist() threw: the operation rejects, but a hit becomes a miss, its
\* entry removed (the disk may refuse that too).
PersistFails ==
    /\ \E s \in {"persist", "dropped", "hit", "miss"} : Stage(s)
    /\ faults < MaxFaults
    /\ IF op.stage = "hit"
       THEN /\ mem' = RemoveAt(mem, At(mem, op.id))
            /\ bytes' = bytes - Size[mem[At(mem, op.id)].body]
            /\ files' \in {files, files \ {File(mem[At(mem, op.id)])}}
            /\ GoTo("miss")
            /\ UNCHANGED answer
       ELSE /\ Return(Answered!NoAnswer)
            /\ UNCHANGED <<memory, files>>
    /\ faults' = faults + 1
    /\ Steady
    /\ UNCHANGED index

-----------------------------------------------------------------------------

Tick ==
    /\ Ready
    /\ now < MaxTime
    /\ now' = now + 1
    /\ answer' = Answered!NoAnswer
    /\ UNCHANGED <<memory, started, maxBytes, disk, op, starts, faults>>

\* The process ends, in the middle of an operation or not; the next one makes
\* a new ProxyCache with the configured limit.
ProcessEnds ==
    /\ starts > 0
    /\ Ready \/ AbruptEnds
    /\ mem' = <<>>
    /\ bytes' = 0
    /\ started' = FALSE
    /\ maxBytes' \in Limits
    /\ op' = Idle
    /\ answer' = Answered!NoAnswer
    /\ starts' = 0
    /\ UNCHANGED <<now, disk, faults>>

Step ==
    \/ InstallEntry
    \/ Evict
    \/ EvictDone
    \/ ClearNext
    \/ ScanEnds
    \/ ScanDrops
    \/ ScanHits
    \/ ScanMisses
    \/ Persisted
    \/ PersistFails

Next ==
    \/ Start
    \/ \E r \in Responses, ttl \in Ttls : Put(r[1], r[2], ttl)
    \/ \E limit \in Limits : Configure(limit)
    \/ \E where \in {{l} : l \in Locations} \union {Locations} : Clear(where)
    \/ Close
    \/ \E q \in Requests : Get(q)
    \/ Step
    \/ Tick
    \/ ProcessEnds

Spec == Init /\ [][Next]_vars

-----------------------------------------------------------------------------

TypeOK ==
    /\ now \in 0..MaxTime
    /\ \A s \in {mem, index} :
          /\ \A j \in DOMAIN s : s[j] \in Entry
          /\ Cardinality(Held(s)) = Len(s)
    /\ bytes \in Nat
    /\ started \in BOOLEAN
    /\ maxBytes \in Limits
    /\ files \subseteq Ids \X Bodies
    /\ op = Idle \/ op.stage \in Stages
    /\ starts \in 0..MaxStarts
    /\ faults \in 0..MaxFaults

\* The usage status() reports, which the web console shows, is the size of the
\* entries, at every await.  Not true once an object is started again (README,
\* section 6).
UsageIsReal == bytes = Total(mem)

\* The same for an object that was started once: within one start no order of
\* operations, failures included, makes the count drift.
UsageIsRealOnce == starts <= 1 => UsageIsReal

\* Between operations the entries fit in maxBytes, and those of a location in
\* its policy's maxBytes, whatever failed before.
LimitsHeld ==
    Ready => /\ Total(mem) <= maxBytes
             /\ \A l \in Locations : SizeOf(mem, InLocation(mem, l)) <= LocationLimit[l]

\* What the body files take on disk fits in maxBytes.
\* Not true of this code (README, section 6); no run checks it.
DiskWithinLimit ==
    Ready /\ started => MapThenSumSet(LAMBDA f : Size[f[2]], files) <= maxBytes

\* A response that may be cached and is written without an error is cached:
\* eviction makes room at the expense of others (put returns true).
NewcomerKept ==
    answer.kind = "stored" /\ starts <= 1 => answer.kept

\* The cache's account of itself is right after any order of operations, ends of
\* the process and failures: no entry twice, bytes counted, limits kept, room made.
Accounted == TypeOK /\ UsageIsRealOnce /\ LimitsHeld /\ NewcomerKept

\* What a get may still answer with: unexpired entries of memory or of the
\* index whose body is on disk, and the body of a put under way.
Servable ==
    [i \in Ids |->
        {b \in Bodies :
            \/ /\ <<i, b>> \in files
               /\ \E s \in {mem, index} : \E j \in DOMAIN s :
                     s[j].id = i /\ s[j].body = b /\ ~Expired(s[j])
            \/ op # Idle /\ op.stage = "install" /\ op.id = i /\ op.body = b}]

Lossy == INSTANCE LossyCache WITH may <- Servable

\* The cache implements a cache that may forget but neither invents nor
\* resurrects, over crashes, restarts and failing disk operations.
ImplementsLossyCache == Lossy!Spec
=============================================================================
