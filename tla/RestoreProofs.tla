--------------------------- MODULE RestoreProofs ----------------------------
(* A restore is all or nothing, the marker covers it, and the server serves   *)
(* outside maintenance: for every number of restores, backups, writes, faults *)
(* and crashes.                                                               *)
EXTENDS Restore, FiniteSetTheorems, TLAPS

(* The inductive invariant. *)

In(r) == res[r].pc \in {"closing"} \cup Swapping

\* How far a restore is in the list of files, and that its archive can be restored.
Steps ==
  \A r \in Restorers :
    /\ res[r].pc = "snapshot" => res[r].k \in 1 .. 4
    /\ res[r].pc = "apply" => res[r].k \in 0 .. 4
    /\ res[r].pc = "drop" => res[r].k = 1
    /\ res[r].pc = "clear" => res[r].k \in 1 .. 5
    /\ res[r].pc = "undo" => res[r].k \in 1 .. 4
    /\ res[r].pc # "idle" => res[r].arch["config.json"] # Absent /\ res[r].arch[DB] # Absent

Typed == TypeOK /\ Steps /\ (sch.timer => sch.timers > 0)

\* A process that does not serve yet, or not any more, has no restore under way and no
\* open database ...
Ended == proc \in {"down", "begin"} \/ (proc = "starting" /\ pub = "off")
Unused ==
  Ended => /\ \A r \in Restorers : res[r].pc = "idle"
           /\ ~store /\ pub = "off" /\ ~mode.active

\* ... and one that starts has its own marker, so that no restore can begin.
Starting ==
  proc = "starting" =>
    /\ marker = "startup" /\ ~mode.active /\ pub \in {"on", "off"}
    /\ \A r \in Restorers : res[r].pc # "mark" /\ ~In(r)

\* Whoever is inside maintenance is alone there, and the marker says so.
Alone ==
  ~seen.overlap => \A r \in Restorers : In(r) =>
    /\ marker = "restore" /\ mode.active
    /\ \A q \in Restorers : In(q) => q = r

Undisturbed == ~seen.overlap /\ seen.failed \cap {"undo", "again"} = {}

Serving ==
  Undisturbed /\ ~mode.active /\ (proc = "up" \/ (proc = "starting" /\ pub = "on"))
    => store /\ pub = "on" /\ (sch.timer \/ sch.running)

\* The database is open again before a reload, and the services are back when a restore leaves.
Clear(x) ==
  /\ x.pc \in {"reload", "again", "exit"} => store
  /\ x.pc = "exit" => pub = "on" /\ mode.restored
Withdrawn == Undisturbed => \A r \in Restorers : Clear(res[r])

\* The files a restore has put in place by now.
Applied(x) ==
  wal = NoWal /\ (x.k > 0 => \A j \in 1 .. 4 :
    j < x.k \/ x.arch[ArchiveOrder[j]] = Absent => disk[ArchiveOrder[j]] = x.arch[ArchiveOrder[j]])
Undone(x) ==
  wal = NoWal /\ \A j \in 1 .. 4 : j < x.k => disk[SnapshotOrder[j]] = x.snap[SnapshotOrder[j]]

Place(x) ==
  /\ x.pc = "apply" => Applied(x)
  /\ x.pc = "drop" => wal = NoWal /\ disk["logs"] = Absent
  /\ x.pc = "reload" => Live = x.arch
  /\ x.pc = "clear" => (x.k > 4 => wal = NoWal)
  /\ x.pc = "undo" => Undone(x)
  /\ x.pc = "again" => Live = x.snap
  /\ x.pc = "exit" /\ "undo" \notin seen.failed => Live \in {x.arch, x.snap}

Placed == ~seen.overlap /\ ~seen.raced => \A r \in Restorers : Place(res[r])

IInv == Typed /\ Unused /\ Starting /\ Alone /\ Serving /\ Withdrawn /\ Placed

LEMMA Orders ==
  /\ \A j \in 1 .. 4 : ArchiveOrder[j] \in Files /\ SnapshotOrder[j] \in Files
  /\ \A f \in Files : (\E j \in 1 .. 4 : ArchiveOrder[j] = f) /\ (\E j \in 1 .. 4 : SnapshotOrder[j] = f)
  /\ \A i, j \in 1 .. 4 : ArchiveOrder[i] = ArchiveOrder[j] \/ SnapshotOrder[i] = SnapshotOrder[j] => i = j
  /\ ArchiveOrder[4] = DB
  /\ {"admin.json", "config.json", "logs", DB} = Files
<1>1. /\ ArchiveOrder[1] = "admin.json" /\ ArchiveOrder[2] = "config.json"
      /\ ArchiveOrder[3] = "logs" /\ ArchiveOrder[4] = DB
  BY DEF ArchiveOrder
<1>2. /\ SnapshotOrder[1] = "admin.json" /\ SnapshotOrder[2] = "config.json"
      /\ SnapshotOrder[3] = DB /\ SnapshotOrder[4] = "logs"
  BY DEF SnapshotOrder
<1>3. \A j \in 1 .. 4 : j = 1 \/ j = 2 \/ j = 3 \/ j = 4
  OBVIOUS
<1> HIDE DEF ArchiveOrder, SnapshotOrder
<1>4. Files = {"admin.json", "config.json", "logs", DB}
  BY DEF Files, DB
<1> QED BY <1>1, <1>2, <1>3, <1>4 DEF DB

LEMMA LiveFacts ==
  ASSUME TypeOK
  PROVE  /\ Live \in Data
         /\ \A f \in Files \ {DB} : Live[f] = disk[f]
         /\ wal = NoWal => Live = disk
         /\ wal # NoWal => Live[DB] = wal
<1>1. disk \in [Files -> Content] /\ wal \in Nat \cup {NoWal} /\ DB \in Files
  BY DEF TypeOK, Data, Files, DB
<1>2. wal # NoWal => wal \in Content
  BY <1>1 DEF Content
<1>3. Live = [disk EXCEPT ![DB] = IF wal = NoWal THEN disk[DB] ELSE wal]
  BY DEF Live
<1> QED BY <1>1, <1>2, <1>3 DEF Data

Scheduler == [timer : BOOLEAN, timers : Nat, running : BOOLEAN]

\* A scheduler with one field changed.
LEMMA NotRunning ==
  ASSUME NEW s \in Scheduler
  PROVE  \E y \in Scheduler : y = [s EXCEPT !.running = FALSE] /\ y.timer = s.timer /\ y.timers = s.timers /\ ~y.running
<1>1. [s EXCEPT !.running = FALSE] \in Scheduler
  BY DEF Scheduler
<1>2. PICK y \in Scheduler : y = [s EXCEPT !.running = FALSE]
  BY <1>1
<1>3. y.timer = s.timer /\ y.timers = s.timers /\ ~y.running
  BY <1>2 DEF Scheduler
<1> QED BY <1>2, <1>3

LEMMA TimerSet ==
  ASSUME NEW s \in Scheduler, NEW b \in BOOLEAN
  PROVE  \E y \in Scheduler : y = [s EXCEPT !.timer = b] /\ y.timer = b /\ y.timers = s.timers /\ y.running = s.running
<1>1. [s EXCEPT !.timer = b] \in Scheduler
  BY DEF Scheduler
<1>2. PICK y \in Scheduler : y = [s EXCEPT !.timer = b]
  BY <1>1
<1>3. y.timer = b /\ y.timers = s.timers /\ y.running = s.running
  BY <1>2 DEF Scheduler
<1> QED BY <1>2, <1>3

LEMMA TimersSet ==
  ASSUME NEW s \in Scheduler, NEW n \in Nat
  PROVE  \E y \in Scheduler : y = [s EXCEPT !.timers = n] /\ y.timer = s.timer /\ y.timers = n /\ y.running = s.running
<1>1. [s EXCEPT !.timers = n] \in Scheduler
  BY DEF Scheduler
<1>2. PICK y \in Scheduler : y = [s EXCEPT !.timers = n]
  BY <1>1
<1>3. y.timer = s.timer /\ y.timers = n /\ y.running = s.running
  BY <1>2 DEF Scheduler
<1> QED BY <1>2, <1>3

\* The operations of the scheduler keep its timers counted, and all but pausing leave one.
LEMMA SchedulerKept ==
  ASSUME NEW s \in Scheduler, s.timer => s.timers > 0
  PROVE  /\ Armed(s) \in Scheduler /\ Armed(s).timer /\ Armed(s).timers > 0
         /\ Paused(s) \in Scheduler /\ ~Paused(s).timer /\ Paused(s).running = s.running
         /\ Started(s) \in Scheduler /\ Started(s).timer /\ Started(s).timers > 0
         /\ RunEnds(s) \in Scheduler /\ (RunEnds(s).timer => RunEnds(s).timers > 0)
         /\ proc # "stopping" => RunEnds(s).timer
         /\ Rearmed(s) \in Scheduler /\ (Rearmed(s).timer => Rearmed(s).timers > 0)
         /\ proc # "stopping" => Rearmed(s).timer
<1>1. ASSUME NEW y \in Scheduler
      PROVE  Armed(y) \in Scheduler /\ Armed(y).timer /\ Armed(y).timers > 0
  <2>1. PICK z \in Scheduler : z = [y EXCEPT !.timer = TRUE]
    BY DEF Scheduler
  <2>2. [z EXCEPT !.timers = @ + 1] \in Scheduler
    BY DEF Scheduler
  <2>3. Armed(y) = [z EXCEPT !.timers = @ + 1]
    BY <2>1 DEF Armed, Scheduler
  <2> QED BY <2>1, <2>2, <2>3 DEF Scheduler
<1>2. Paused(s) \in Scheduler /\ ~Paused(s).timer /\ Paused(s).running = s.running
  <2>1. CASE s.timer
    <3>1. PICK z \in Scheduler : z = [s EXCEPT !.timer = FALSE]
      BY DEF Scheduler
    <3>2. s.timers - 1 \in Nat
      BY <2>1 DEF Scheduler
    <3>3. Paused(s) = [z EXCEPT !.timers = @ - 1]
      BY <2>1, <3>1 DEF Paused, Scheduler
    <3> QED BY <3>1, <3>2, <3>3 DEF Scheduler
  <2> QED BY <2>1 DEF Paused
<1>3. Started(s) \in Scheduler /\ Started(s).timer /\ Started(s).timers > 0
  BY <1>1 DEF Started
<1>4. ASSUME NEW y \in Scheduler, y.timer => y.timers > 0
      PROVE  /\ Rearmed(y) \in Scheduler /\ (Rearmed(y).timer => Rearmed(y).timers > 0)
             /\ proc # "stopping" => Rearmed(y).timer
  BY <1>1, <1>4 DEF Rearmed
<1>5. PICK y \in Scheduler : y = [s EXCEPT !.running = FALSE] /\ y.timer = s.timer /\ y.timers = s.timers
  BY NotRunning
<1>6. /\ RunEnds(s) \in Scheduler /\ (RunEnds(s).timer => RunEnds(s).timers > 0)
      /\ proc # "stopping" => RunEnds(s).timer
  BY <1>4, <1>5 DEF RunEnds
<1> QED BY <1>1, <1>2, <1>3, <1>4, <1>6

\* Restore r becomes x and no other changes.
Moves(r, x) ==
  /\ res' \in [Restorers -> Restoration]
  /\ res'[r] = x /\ \A q \in Restorers : q # r => res'[q] = res[q]

LEMMA Moving ==
  ASSUME TypeOK, NEW r \in Restorers, NEW x \in Restoration, res' = [res EXCEPT ![r] = x]
  PROVE  Moves(r, x)
BY DEF TypeOK, Moves

\* Restore r goes on to another place with the files it has.
Goes(r, pc, k) ==
  \/ res' = [res EXCEPT ![r].pc = pc, ![r].k = k]
  \/ res' = [res EXCEPT ![r].k = k, ![r].pc = pc]
  \/ res' = [res EXCEPT ![r].pc = pc] /\ k = res[r].k
  \/ res' = [res EXCEPT ![r].k = k] /\ pc = res[r].pc

LEMMA Going ==
  ASSUME TypeOK, NEW r \in Restorers, NEW pc \in {"closing"} \cup Swapping, NEW k \in 0 .. 5, Goes(r, pc, k)
  PROVE  \E x \in Restoration :
           /\ Moves(r, x) /\ x.pc = pc /\ x.k = k /\ x.arch = res[r].arch /\ x.snap = res[r].snap
<1>1. res \in [Restorers -> Restoration] /\ res[r] \in Restoration
  BY DEF TypeOK
<1>2. [res[r] EXCEPT !.pc = pc] \in Restoration
  BY <1>1 DEF Restoration
<1>3. PICK y \in Restoration : y = [res[r] EXCEPT !.pc = pc]
  BY <1>2
<1>4. [y EXCEPT !.k = k] \in Restoration
  BY DEF Restoration
<1>5. PICK x \in Restoration : x = [y EXCEPT !.k = k]
  BY <1>4
<1>6. x.pc = pc /\ x.k = k /\ x.arch = res[r].arch /\ x.snap = res[r].snap
  BY <1>1, <1>3, <1>5 DEF Restoration
<1>7. res' = [res EXCEPT ![r] = x]
  <2>1. CASE res' = [res EXCEPT ![r].pc = pc, ![r].k = k]
    BY <1>1, <1>3, <1>5, <2>1
  <2>2. CASE res' = [res EXCEPT ![r].k = k, ![r].pc = pc]
    <3>1. [res[r] EXCEPT !.k = k, !.pc = pc] = x
      BY <1>1, <1>3, <1>5 DEF Restoration
    <3> QED BY <1>1, <2>2, <3>1
  <2>3. CASE res' = [res EXCEPT ![r].pc = pc] /\ k = res[r].k
    <3>1. x = y
      BY <1>1, <1>3, <1>5, <2>3 DEF Restoration
    <3> QED BY <1>1, <1>3, <2>3, <3>1
  <2>4. CASE res' = [res EXCEPT ![r].k = k] /\ pc = res[r].pc
    <3>1. y = res[r]
      BY <1>1, <1>3, <2>4 DEF Restoration
    <3> QED BY <1>1, <1>5, <2>4, <3>1
  <2> QED BY <2>1, <2>2, <2>3, <2>4 DEF Goes
<1> QED BY <1>6, <1>7, Moving

\* A step that moves no restore and changes no mode; if it writes, the restores that
\* replace files have been raced.
LEMMA Aside ==
  ASSUME IInv, Typed', UNCHANGED <<proc, marker, mode, pub, store, res>>,
         seen'.overlap = seen.overlap, seen'.failed = seen.failed, seen.raced => seen'.raced,
         proc # "stopping" /\ (sch.timer \/ sch.running) => sch'.timer \/ sch'.running,
         \/ UNCHANGED <<disk, wal>>
         \/ wal # NoWal /\ wal' = NoWal /\ disk' = Live
         \/ Raced => seen'.raced
  PROVE  IInv'
<1> USE DEF IInv
<1>1. Unused' /\ Starting'
  BY DEF Unused, Starting, Ended, In
<1>2. Alone'
  BY DEF Alone, In
<1>3. Serving' /\ Withdrawn'
  BY DEF Serving, Withdrawn, Undisturbed, Clear
<1>4. Placed'
  <2> SUFFICES ASSUME ~seen.overlap, ~seen'.raced, NEW r \in Restorers PROVE Place(res[r])'
    BY DEF Placed
  <2>1. Place(res[r]) /\ res'[r] = res[r] /\ ~seen.raced
    BY DEF Placed
  <2>2. CASE UNCHANGED <<disk, wal>>
    BY <2>1, <2>2 DEF Place, Applied, Undone, Live
  <2>3. CASE wal # NoWal /\ wal' = NoWal /\ disk' = Live
    <3>1. Live' = Live
      BY <2>3 DEF Live, Typed, TypeOK, Data
    <3> QED BY <2>1, <2>3, <3>1 DEF Place, Applied, Undone
  <2>4. CASE Raced => seen'.raced
    <3>1. res[r].pc \notin Swapping
      BY <2>4 DEF Raced
    <3> QED BY <2>1, <3>1 DEF Place, Swapping
  <2> QED BY <2>2, <2>3, <2>4
<1> QED BY <1>1, <1>2, <1>3, <1>4

\* A step of a restore before it enters maintenance.
LEMMA Outer ==
  ASSUME IInv, Typed', NEW r \in Restorers, NEW x, Moves(r, x), ~In(r),
         x.pc \in {"idle", "snapshot", "enter", "mark"}, ~Ended, x.pc = "mark" => marker = "none",
         UNCHANGED <<proc, marker, mode, pub, store, disk, wal, sch>>,
         seen'.overlap = seen.overlap, seen'.failed = seen.failed, seen'.raced = seen.raced
  PROVE  IInv'
<1> USE DEF IInv
<1>1. \A q \in Restorers : In(q)' => In(q) /\ res'[q] = res[q]
  BY DEF In, Swapping, Moves
<1>2. Unused' /\ Starting'
  BY <1>1 DEF Unused, Starting, Ended, Moves
<1>3. Alone'
  BY <1>1 DEF Alone
<1>4. Serving'
  BY DEF Serving, Undisturbed
<1>5. Withdrawn'
  BY DEF Withdrawn, Undisturbed, Clear, Moves
<1>6. Placed'
  <2> SUFFICES ASSUME ~seen.overlap, ~seen.raced, NEW q \in Restorers PROVE Place(res[q])'
    BY DEF Placed
  <2>1. CASE q = r
    BY <2>1 DEF Place, Moves
  <2>2. CASE q # r
    <3>1. Place(res[q]) /\ res'[q] = res[q]
      BY <2>2 DEF Placed, Moves
    <3> QED BY <3>1 DEF Place, Applied, Undone, Live
  <2> QED BY <2>1, <2>2
<1> QED BY <1>2, <1>3, <1>4, <1>5, <1>6

\* A step of a restore inside maintenance, where it is alone.
LEMMA Inner ==
  ASSUME IInv, Typed', NEW r \in Restorers, NEW x, Moves(r, x), In(r),
         x.pc \in {"closing"} \cup Swapping,
         UNCHANGED <<proc, marker>>, mode'.active = mode.active,
         seen'.overlap = seen.overlap, seen.failed \subseteq seen'.failed, seen.raced => seen'.raced,
         Undisturbed' => Clear(x)',
         ~seen.overlap /\ ~seen'.raced => Place(x)'
  PROVE  IInv'
<1> USE DEF IInv
<1>1. \A q \in Restorers : In(q)' <=> In(q)
  BY DEF In, Moves
<1>2. ~Ended /\ proc # "starting"
  BY DEF Unused, Starting, Ended, In, Swapping
<1>3. Unused' /\ Starting'
  BY <1>2 DEF Unused, Starting, Ended
<1>4. Alone'
  BY <1>1 DEF Alone
<1>5. Serving'
  BY DEF Serving, Undisturbed, Alone
<1>6. ~seen.overlap => \A q \in Restorers : q # r => ~In(q)' /\ res'[q] = res[q]
  BY <1>1 DEF Alone, Moves
<1>7. Withdrawn'
  <2> SUFFICES ASSUME Undisturbed', NEW q \in Restorers PROVE Clear(res[q])'
    BY DEF Withdrawn
  <2>1. CASE q = r
    BY <2>1 DEF Moves, Clear
  <2>2. CASE q # r
    BY <1>6, <2>2 DEF Undisturbed, Clear, In, Swapping
  <2> QED BY <2>1, <2>2
<1>8. Placed'
  <2> SUFFICES ASSUME ~seen.overlap, ~seen'.raced, NEW q \in Restorers PROVE Place(res[q])'
    BY DEF Placed
  <2>1. CASE q = r
    BY <2>1 DEF Moves
  <2>2. CASE q # r
    BY <1>6, <2>2 DEF Place, In, Swapping
  <2> QED BY <2>1, <2>2
<1> QED BY <1>3, <1>4, <1>5, <1>7, <1>8
\* What the steps write down in the history.
LEMMA CountField ==
  ASSUME NEW s \in History, NEW n \in Nat, NEW t,
         \/ t = [s EXCEPT !.writes = n] \/ t = [s EXCEPT !.runs = n] \/ t = [s EXCEPT !.restores = n]
         \/ t = [s EXCEPT !.crashes = n] \/ t = [s EXCEPT !.faults = n]
  PROVE  t \in History /\ t.failed = s.failed /\ t.raced = s.raced /\ t.overlap = s.overlap /\ t.doubled = s.doubled
BY DEF History

LEMMA FailedField ==
  ASSUME NEW s \in History, NEW f \in SUBSET Failing, NEW t, t = [s EXCEPT !.failed = f]
  PROVE  t \in History /\ t.failed = f /\ t.raced = s.raced /\ t.overlap = s.overlap /\ t.doubled = s.doubled
BY DEF History

LEMMA RacedField ==
  ASSUME NEW s \in History, NEW b \in BOOLEAN, NEW t, t = [s EXCEPT !.raced = b]
  PROVE  t \in History /\ t.failed = s.failed /\ t.raced = b /\ t.overlap = s.overlap /\ t.doubled = s.doubled
BY DEF History

LEMMA OverlapField ==
  ASSUME NEW s \in History, NEW b \in BOOLEAN, NEW t, t = [s EXCEPT !.overlap = b]
  PROVE  t \in History /\ t.failed = s.failed /\ t.raced = s.raced /\ t.overlap = b /\ t.doubled = s.doubled
BY DEF History

LEMMA DoubledField ==
  ASSUME NEW s \in History, NEW b \in BOOLEAN, NEW t, t = [s EXCEPT !.doubled = b]
  PROVE  t \in History /\ t.failed = s.failed /\ t.raced = s.raced /\ t.overlap = s.overlap /\ t.doubled = b
BY DEF History

LEMMA SeenKept ==
  ASSUME seen \in History, NEW f \in Failing
  PROVE  /\ \A s : s = Failed(f) \/ s = Noted(f) =>
              /\ s \in History /\ s.overlap = seen.overlap /\ s.raced = seen.raced
              /\ s.failed = seen.failed \cup {f} /\ s.doubled = seen.doubled
         /\ Written(seen) \in History /\ Written(seen).overlap = seen.overlap
         /\ Written(seen).failed = seen.failed /\ (seen.raced \/ Raced => Written(seen).raced)
         /\ Written(seen).doubled = seen.doubled
<1>1. PICK w \in BOOLEAN : w = (seen.raced \/ Raced)
  OBVIOUS
<1>2. seen.failed \in SUBSET Failing /\ seen.writes + 1 \in Nat
  BY DEF History
<1>3. PICK y : y = Failed(f)
  OBVIOUS
<1>4. /\ y \in History /\ y.overlap = seen.overlap /\ y.raced = seen.raced
      /\ y.failed = seen.failed \cup {f} /\ y.doubled = seen.doubled
  <2>1. PICK fs \in SUBSET Failing : fs = seen.failed \cup {f}
    BY <1>2
  <2>2. y = [seen EXCEPT !.failed = fs]
    BY <1>3, <2>1 DEF Failed
  <2>3. y \in History /\ y.failed = fs /\ y.raced = seen.raced /\ y.overlap = seen.overlap /\ y.doubled = seen.doubled
    BY <2>2, FailedField
  <2> QED BY <2>1, <2>3
<1>5. PICK z : z = Noted(f)
  OBVIOUS
<1>6. z = [y EXCEPT !.faults = y.faults + 1] /\ y.faults + 1 \in Nat
  <2>1. y.faults + 1 \in Nat
    BY <1>4 DEF History
  <2> QED BY <1>3, <1>5, <2>1 DEF Noted
<1>7. /\ z \in History /\ z.overlap = y.overlap /\ z.raced = y.raced
      /\ z.failed = y.failed /\ z.doubled = y.doubled
  BY <1>4, <1>6, CountField
<1>8. PICK u : u = [seen EXCEPT !.writes = seen.writes + 1]
  OBVIOUS
<1>9. u \in History /\ u.failed = seen.failed /\ u.overlap = seen.overlap /\ u.raced = seen.raced /\ u.doubled = seen.doubled
  BY <1>2, <1>8, CountField
<1>10. PICK v : v = Written(seen)
  OBVIOUS
<1>11. v = [u EXCEPT !.raced = w]
  BY <1>1, <1>8, <1>10 DEF Written
<1>12. v \in History /\ v.overlap = u.overlap /\ v.raced = w /\ v.failed = u.failed /\ v.doubled = u.doubled
  BY <1>9, <1>11, RacedField
<1> QED BY <1>1, <1>3, <1>4, <1>5, <1>7, <1>9, <1>10, <1>12

LEMMA Counted ==
  ASSUME seen \in History, NEW s, s = [seen EXCEPT !.runs = @ + 1] \/ s = [seen EXCEPT !.restores = @ + 1]
  PROVE  s \in History /\ s.overlap = seen.overlap /\ s.failed = seen.failed /\ s.raced = seen.raced /\ s.doubled = seen.doubled
<1>1. seen.runs + 1 \in Nat /\ seen.restores + 1 \in Nat
  BY DEF History
<1> QED BY <1>1, CountField

\* An operation that writes its marker over another's is noticed; a restore starts afresh.
LEMMA Noticed ==
  ASSUME seen \in History, NEW t,
         \/ t = [seen EXCEPT !.overlap = @ \/ marker # "none"]
         \/ t = [seen EXCEPT !.overlap = @ \/ marker # "none", !.failed = {}, !.raced = FALSE]
  PROVE  /\ t \in History /\ t.overlap = (seen.overlap \/ marker # "none") /\ t.doubled = seen.doubled
         /\ t = [seen EXCEPT !.overlap = @ \/ marker # "none"] => t.failed = seen.failed /\ t.raced = seen.raced
<1>1. PICK w \in BOOLEAN : w = (seen.overlap \/ marker # "none")
  OBVIOUS
<1>2. PICK x : x = [seen EXCEPT !.overlap = w]
  OBVIOUS
<1>3. x \in History /\ x.failed = seen.failed /\ x.raced = seen.raced /\ x.doubled = seen.doubled /\ x.overlap = w
  BY <1>2, OverlapField
<1>4. CASE t = [seen EXCEPT !.overlap = @ \/ marker # "none"]
  <2>1. t = x
    BY <1>1, <1>2, <1>4
  <2> QED BY <1>1, <1>3, <2>1
<1>5. CASE t = [seen EXCEPT !.overlap = @ \/ marker # "none", !.failed = {}, !.raced = FALSE]
  <2>1. PICK y : y = [x EXCEPT !.failed = {}]
    OBVIOUS
  <2>2. y \in History /\ y.overlap = w /\ y.doubled = seen.doubled
    BY <1>3, <2>1, FailedField
  <2>3. t = [y EXCEPT !.raced = FALSE]
    BY <1>1, <1>2, <1>5, <2>1
  <2>4. t \in History /\ t.overlap = w /\ t.doubled = seen.doubled
    <3>1. PICK b \in BOOLEAN : b = FALSE
      OBVIOUS
    <3>2. t = [y EXCEPT !.raced = b]
      BY <2>3, <3>1
    <3> QED BY <2>2, <3>2, RacedField
  <2>5. t = [seen EXCEPT !.overlap = @ \/ marker # "none"] => t = x
    BY <1>1, <1>2
  <2> QED BY <1>1, <1>3, <2>4, <2>5
<1> QED BY <1>4, <1>5

\* Nothing is remembered of a process that has ended.
LEMMA Forgetting ==
  ASSUME seen \in History, NEW t, t = Forgotten \/ t = [Forgotten EXCEPT !.crashes = @ + 1]
  PROVE  t \in History
<1>1. PICK x : x = [seen EXCEPT !.failed = {}]
  OBVIOUS
<1>2. PICK y : y = [x EXCEPT !.raced = FALSE]
  OBVIOUS
<1>3. PICK z : z = [y EXCEPT !.overlap = FALSE]
  OBVIOUS
<1>4. PICK f : f = [z EXCEPT !.doubled = FALSE]
  OBVIOUS
<1>5. x \in History
  BY <1>1, FailedField
<1>6. y \in History
  BY <1>2, <1>5, RacedField
<1>7. z \in History
  BY <1>3, <1>6, OverlapField
<1>8. f \in History
  BY <1>4, <1>7, DoubledField
<1>9. f = Forgotten
  BY <1>1, <1>2, <1>3, <1>4 DEF Forgotten
<1>10. f.crashes + 1 \in Nat
  BY <1>8 DEF History
<1> QED BY <1>8, <1>9, <1>10, CountField

(* The steps of a restore. *)

LEMMA IdleType == Idle \in Restoration /\ Idle.pc = "idle"
BY DEF Idle, Restoration, Nothing, Data, Content

LEMMA InspectKeeps == ASSUME IInv, NEW r \in Restorers, Inspect(r) PROVE IInv'
<1> USE DEF IInv
<1>1. PICK i \in DOMAIN backups :
        /\ Restorable(backups[i])
        /\ res' = [res EXCEPT ![r] = [Idle EXCEPT !.pc = "snapshot", !.k = 1, !.arch = backups[i].files]]
  BY DEF Inspect
<1>2. backups[i] \in Archive /\ Nothing \in Data
  BY DEF Typed, TypeOK, Nothing, Data, Content
<1>3. PICK x \in Restoration : /\ x = [Idle EXCEPT !.pc = "snapshot", !.k = 1, !.arch = backups[i].files]
                               /\ x.pc = "snapshot" /\ x.k = 1 /\ x.arch = backups[i].files
  <2>1. PICK y \in Restoration : y = Idle
    BY <1>2, IdleType
  <2>2. [y EXCEPT !.pc = "snapshot"] \in Restoration
    BY DEF Restoration
  <2>3. PICK y1 \in Restoration : y1 = [y EXCEPT !.pc = "snapshot"]
    BY <2>2
  <2>4. [y1 EXCEPT !.k = 1] \in Restoration
    BY DEF Restoration
  <2>5. PICK y2 \in Restoration : y2 = [y1 EXCEPT !.k = 1]
    BY <2>4
  <2>6. [y2 EXCEPT !.arch = backups[i].files] \in Restoration
    BY <1>2 DEF Restoration, Archive
  <2>7. PICK x \in Restoration : x = [y2 EXCEPT !.arch = backups[i].files]
    BY <2>6
  <2>8. x.pc = "snapshot" /\ x.k = 1 /\ x.arch = backups[i].files
    BY <2>3, <2>5, <2>7 DEF Restoration
  <2> QED BY <2>1, <2>3, <2>5, <2>7, <2>8
<1>4. res' = [res EXCEPT ![r] = x]
  BY <1>1, <1>3
<1>5. Moves(r, x)
  BY <1>1, <1>4, Moving DEF Typed
<1>6. /\ seen' \in History /\ seen'.overlap = seen.overlap
      /\ seen'.failed = seen.failed /\ seen'.raced = seen.raced
  BY Counted DEF Inspect, Typed, TypeOK
<1>7. Typed'
  <2>1. TypeOK'
    BY <1>5, <1>6 DEF Typed, TypeOK, Inspect, Moves
  <2>2. Steps'
    BY <1>1, <1>3, <1>5 DEF Steps, Typed, Moves, Restorable
  <2> QED BY <2>1, <2>2 DEF Typed, Inspect
<1>8. ~In(r) /\ ~Ended
  BY DEF Inspect, In, Swapping, Unused
<1> QED BY <1>3, <1>5, <1>6, <1>7, <1>8, Outer DEF Inspect

LEMMA SnapshotOneKeeps == ASSUME IInv, NEW r \in Restorers, SnapshotOne(r) PROVE IInv'
<1> USE DEF IInv
<1> DEFINE f == SnapshotOrder[res[r].k]
           x == [pc |-> IF res[r].k = 4 THEN "enter" ELSE res[r].pc,
                 k |-> IF res[r].k = 4 THEN 0 ELSE res[r].k + 1, arch |-> res[r].arch,
                 snap |-> [res[r].snap EXCEPT ![f] = disk[f]], entry |-> res[r].entry]
<1>1. res[r] \in Restoration /\ res[r].pc = "snapshot" /\ res[r].k \in 1 .. 4 /\ f \in Files /\ disk \in Data
  BY Orders DEF Typed, TypeOK, Steps, SnapshotOne
<1>2. res[r].snap \in Data /\ [res[r].snap EXCEPT ![f] = disk[f]] \in Data
  BY <1>1 DEF Restoration, Data
<1>3. x \in Restoration
  BY <1>1, <1>2 DEF Restoration
<1>4. res' = [res EXCEPT ![r] = x]
  BY <1>1 DEF SnapshotOne, Restoration, Typed, TypeOK
<1>5. Moves(r, x)
  BY <1>3, <1>4, Moving DEF Typed
<1>6. /\ x.pc \in {"snapshot", "enter"} /\ (x.pc = "snapshot" => x.k \in 1 .. 4)
      /\ x.arch = res[r].arch
  BY <1>1
<1> HIDE DEF x
<1>7. Typed'
  <2>1. TypeOK'
    BY <1>5 DEF Typed, TypeOK, SnapshotOne, Moves
  <2>2. Steps'
    BY <1>1, <1>5, <1>6 DEF Steps, Typed, Moves
  <2> QED BY <2>1, <2>2 DEF Typed, SnapshotOne
<1>8. ~In(r) /\ ~Ended
  BY <1>1 DEF In, Swapping, Unused
<1> QED BY <1>5, <1>6, <1>7, <1>8, Outer DEF SnapshotOne

LEMMA EnterReadsKeeps == ASSUME IInv, NEW r \in Restorers, EnterReads(r) PROVE IInv'
<1> USE DEF IInv
<1>1. res[r] \in Restoration /\ res[r].pc = "enter" /\ Idle \in Restoration /\ Idle.pc = "idle"
  BY IdleType DEF Typed, TypeOK, EnterReads
<1>2. PICK x \in Restoration :
        /\ res' = [res EXCEPT ![r] = x]
        /\ x.pc = "idle" \/ (x.pc = "mark" /\ marker = "none" /\ x.arch = res[r].arch)
  <2>1. CASE mode.active \/ marker # "none"
    <3>1. res' = [res EXCEPT ![r] = Idle]
      BY <2>1 DEF EnterReads
    <3> QED BY <1>1, <3>1
  <2>2. CASE ~(mode.active \/ marker # "none")
    <3>1. res' = [res EXCEPT ![r] = [res[r] EXCEPT !.pc = "mark"]]
      BY <2>2 DEF EnterReads
    <3>2. /\ [res[r] EXCEPT !.pc = "mark"] \in Restoration
          /\ [res[r] EXCEPT !.pc = "mark"].pc = "mark" /\ [res[r] EXCEPT !.pc = "mark"].arch = res[r].arch
      BY <1>1 DEF Restoration
    <3> QED BY <2>2, <3>1, <3>2
  <2> QED BY <2>1, <2>2
<1>3. Moves(r, x)
  BY <1>2, Moving DEF Typed
<1>4. Typed'
  <2>1. TypeOK'
    BY <1>3 DEF Typed, TypeOK, EnterReads, Moves
  <2>2. Steps'
    BY <1>1, <1>2, <1>3 DEF Steps, Typed, Moves
  <2> QED BY <2>1, <2>2 DEF Typed, EnterReads
<1>5. ~In(r) /\ ~Ended
  BY <1>1 DEF In, Swapping, Unused
<1> QED BY <1>2, <1>3, <1>4, <1>5, Outer DEF EnterReads

LEMMA EnterMarksKeeps == ASSUME IInv, NEW r \in Restorers, EnterMarks(r) PROVE IInv'
<1> USE DEF IInv
<1>1. res[r] \in Restoration /\ res[r].pc = "mark"
  BY DEF Typed, TypeOK, EnterMarks
<1>2. res' = [res EXCEPT ![r].pc = "closing"] /\ res[r].k \in 0 .. 5
  BY <1>1 DEF EnterMarks, Restoration
<1>3. PICK x \in Restoration : Moves(r, x) /\ x.pc = "closing" /\ x.arch = res[r].arch
  <2>1. Goes(r, "closing", res[r].k)
    BY <1>2 DEF Goes
  <2> QED BY <1>2, <2>1, Going DEF Typed
<1>4. seen' \in History /\ seen'.overlap = (seen.overlap \/ marker # "none")
  BY Noticed DEF EnterMarks, Typed, TypeOK
<1>5. sch' \in Scheduler /\ ~sch'.timer
  BY SchedulerKept DEF EnterMarks, Typed, TypeOK, Scheduler
<1>6. Typed'
  <2>1. TypeOK'
    BY <1>3, <1>4, <1>5 DEF Typed, TypeOK, EnterMarks, Moves, Scheduler, Ops
  <2>2. Steps'
    BY <1>1, <1>3 DEF Steps, Typed, Moves
  <2> QED BY <1>5, <2>1, <2>2 DEF Typed
<1>7. ~Ended /\ proc # "starting"
  BY <1>1 DEF Unused, Starting, Ended
<1>8. Unused' /\ Starting' /\ Serving'
  BY <1>7 DEF Unused, Starting, Ended, Serving, EnterMarks
<1>9. ~seen'.overlap => ~seen.overlap /\ \A q \in Restorers : ~In(q)
  BY <1>4 DEF Alone
<1>10. ~seen'.overlap => \A q \in Restorers : q # r => ~In(q)' /\ res'[q] = res[q]
  BY <1>3, <1>9 DEF In, Moves
<1>11. Alone'
  BY <1>10 DEF Alone, EnterMarks
<1>12. Withdrawn' /\ Placed'
  BY <1>3, <1>10 DEF Withdrawn, Undisturbed, Clear, Placed, Place, In, Swapping, Moves
<1> QED BY <1>6, <1>8, <1>11, <1>12

LEMMA EnterClosesKeeps == ASSUME IInv, NEW r \in Restorers, EnterCloses(r) PROVE IInv'
<1> USE DEF IInv
<1>1. res[r] \in Restoration /\ res[r].pc = "closing" /\ Live \in Data
  BY LiveFacts DEF Typed, TypeOK, EnterCloses
<1>2. PICK l \in Data : l = Live
  BY <1>1
<1>3. PICK x \in Restoration : /\ x.pc = "apply" /\ x.k = 0 /\ x.arch = res[r].arch
                               /\ res' = [res EXCEPT ![r] = x]
  <2>1. [res[r] EXCEPT !.pc = "apply"] \in Restoration
    BY <1>1 DEF Restoration, Swapping
  <2>2. PICK y \in Restoration : y = [res[r] EXCEPT !.pc = "apply"]
    BY <2>1
  <2>3. [y EXCEPT !.k = 0] \in Restoration
    BY DEF Restoration
  <2>4. PICK z \in Restoration : z = [y EXCEPT !.k = 0]
    BY <2>3
  <2>5. [z EXCEPT !.entry = l] \in Restoration
    BY DEF Restoration
  <2>6. PICK x \in Restoration : x = [z EXCEPT !.entry = l]
    BY <2>5
  <2>7. x.pc = "apply" /\ x.k = 0 /\ x.arch = res[r].arch
    BY <1>1, <2>2, <2>4, <2>6 DEF Restoration
  <2>8. res' = [res EXCEPT ![r].pc = "apply", ![r].k = 0, ![r].entry = l]
    BY <1>2 DEF EnterCloses
  <2>9. res \in [Restorers -> Restoration]
    BY DEF Typed, TypeOK
  <2>10. res' = [res EXCEPT ![r] = x]
    BY <2>2, <2>4, <2>6, <2>8, <2>9
  <2> QED BY <2>7, <2>10
<1>5. Moves(r, x) /\ x.pc = "apply" /\ x.k = 0 /\ x.arch = res[r].arch
  BY <1>3, Moving DEF Typed
<1>6. Typed'
  <2>1. TypeOK'
    BY <1>1, <1>5 DEF Typed, TypeOK, EnterCloses, Moves
  <2>2. Steps'
    BY <1>1, <1>5 DEF Steps, Typed, Moves
  <2> QED BY <2>1, <2>2 DEF Typed, EnterCloses
<1>7. Clear(x)' /\ Place(x)'
  BY <1>5 DEF Clear, Place, Applied, EnterCloses
<1> QED BY <1>1, <1>5, <1>6, <1>7, Inner DEF EnterCloses, In, Swapping

LEMMA EnterFailsKeeps == ASSUME IInv, NEW r \in Restorers, EnterFails(r) PROVE IInv'
<1> USE DEF IInv
<1>1. res[r].pc = "closing" /\ Idle \in Restoration
  BY IdleType DEF EnterFails
<1>2. Moves(r, Idle) /\ Idle.pc = "idle"
  BY <1>1, IdleType, Moving DEF Typed, EnterFails
<1>3. /\ seen' \in History /\ seen'.overlap = seen.overlap /\ seen'.raced = seen.raced
      /\ seen'.failed = seen.failed \cup {"enter"}
  BY SeenKept DEF EnterFails, Typed, TypeOK, Failing
<1>4. Typed'
  <2>1. TypeOK'
    BY <1>2, <1>3 DEF Typed, TypeOK, EnterFails, Moves
  <2>2. Steps'
    BY <1>2 DEF Steps, Typed, Moves
  <2> QED BY <2>1, <2>2 DEF Typed, EnterFails
<1>5. ~Ended /\ proc # "starting" /\ In(r)
  BY <1>1 DEF Unused, Starting, Ended, In
<1>6. Unused' /\ Starting'
  BY <1>5 DEF Unused, Starting, Ended, EnterFails
<1>7. Serving'
  BY <1>3, <1>5 DEF Serving, Alone, Undisturbed, EnterFails
<1>8. ~seen.overlap => \A q \in Restorers : ~In(q)'
  <2> SUFFICES ASSUME ~seen.overlap, NEW q \in Restorers PROVE ~In(q)'
    OBVIOUS
  <2>1. CASE q = r
    BY <1>2, <2>1 DEF In, Swapping, Moves
  <2>2. CASE q # r
    BY <1>2, <1>5, <2>2 DEF In, Alone, Moves
  <2> QED BY <2>1, <2>2
<1>9. Alone' /\ Withdrawn' /\ Placed'
  BY <1>3, <1>8 DEF Alone, Withdrawn, Undisturbed, Clear, Placed, Place, In, Swapping
<1> QED BY <1>4, <1>6, <1>7, <1>9

\* Only these two files can be missing in the archive of a restore.
LEMMA Missing ==
  ASSUME IInv, NEW r \in Restorers, res[r].pc # "idle"
  PROVE  \A j \in 1 .. 4 : res[r].arch[ArchiveOrder[j]] = Absent => ArchiveOrder[j] \in {"admin.json", "logs"}
BY Orders DEF IInv, Typed, Steps

LEMMA ApplyClearsKeeps == ASSUME IInv, NEW r \in Restorers, ApplyClears(r) PROVE IInv'
<1> USE DEF IInv
<1>1. res[r] \in Restoration /\ res[r].pc = "apply" /\ res[r].k = 0 /\ disk \in Data
  BY DEF Typed, TypeOK, ApplyClears
<1> DEFINE pc == IF res[r].arch["admin.json"] = Absent THEN "drop" ELSE "apply"
<1>2. PICK x \in Restoration : Moves(r, x) /\ x.pc = pc /\ x.k = 1 /\ x.arch = res[r].arch
  <2>1. Goes(r, pc, 1)
    BY <1>1 DEF Goes, ApplyClears
  <2>2. pc \in {"closing"} \cup Swapping
    BY DEF Swapping
  <2> QED BY <2>1, <2>2, Going DEF Typed
<1>3. disk' \in Data /\ disk'["logs"] = Absent
  BY <1>1 DEF ApplyClears, Data, Content, Files
<1>4. Typed'
  <2>1. TypeOK'
    BY <1>2, <1>3 DEF Typed, TypeOK, ApplyClears, Moves
  <2>2. Steps'
    BY <1>1, <1>2 DEF Steps, Typed, Moves
  <2> QED BY <2>1, <2>2 DEF Typed, ApplyClears
<1>5. Clear(x)'
  BY <1>2 DEF Clear
<1>6. ~seen.overlap /\ ~seen'.raced => Place(x)'
  <2> SUFFICES ASSUME ~seen.overlap, ~seen.raced PROVE Place(x)'
    BY DEF ApplyClears
  <2>1. wal' = NoWal
    BY <1>1 DEF Placed, Place, Applied, ApplyClears
  <2>2. ASSUME NEW j \in 1 .. 4, x.pc = "apply", j < x.k \/ x.arch[ArchiveOrder[j]] = Absent
        PROVE  disk'[ArchiveOrder[j]] = x.arch[ArchiveOrder[j]]
    <3>1. x.arch[ArchiveOrder[j]] = Absent /\ x.arch["admin.json"] # Absent
      BY <1>2, <2>2
    <3>2. ArchiveOrder[j] = "logs"
      BY <1>1, <1>2, <3>1, Missing
    <3> QED BY <1>3, <3>1, <3>2
  <2> QED BY <1>2, <1>3, <2>1, <2>2 DEF Place, Applied
<1> QED BY <1>1, <1>2, <1>4, <1>5, <1>6, Inner DEF ApplyClears, In, Swapping

LEMMA ApplyDropsKeeps == ASSUME IInv, NEW r \in Restorers, ApplyDrops(r) PROVE IInv'
<1> USE DEF IInv
<1>1. res[r] \in Restoration /\ res[r].pc = "drop" /\ res[r].k = 1 /\ disk \in Data
  BY DEF Typed, TypeOK, Steps, ApplyDrops
<1>2. PICK x \in Restoration : Moves(r, x) /\ x.pc = "apply" /\ x.k = 1 /\ x.arch = res[r].arch
  <2>1. Goes(r, "apply", 1)
    BY <1>1 DEF Goes, ApplyDrops
  <2> QED BY <2>1, Going DEF Typed, Swapping
<1>3. disk' \in Data /\ disk'["admin.json"] = Absent /\ disk'["logs"] = disk["logs"]
  BY <1>1 DEF ApplyDrops, Data, Content, Files
<1>4. Typed'
  <2>1. TypeOK'
    BY <1>2, <1>3 DEF Typed, TypeOK, ApplyDrops, Moves
  <2>2. Steps'
    BY <1>1, <1>2 DEF Steps, Typed, Moves
  <2> QED BY <2>1, <2>2 DEF Typed, ApplyDrops
<1>5. Clear(x)'
  BY <1>2 DEF Clear
<1>6. ~seen.overlap /\ ~seen'.raced => Place(x)'
  <2> SUFFICES ASSUME ~seen.overlap, ~seen.raced PROVE Place(x)'
    BY DEF ApplyDrops
  <2>1. wal' = NoWal /\ disk'["logs"] = Absent
    BY <1>1, <1>3 DEF Placed, Place, ApplyDrops
  <2>2. ASSUME NEW j \in 1 .. 4, j < x.k \/ x.arch[ArchiveOrder[j]] = Absent
        PROVE  disk'[ArchiveOrder[j]] = x.arch[ArchiveOrder[j]]
    <3>1. ArchiveOrder[j] \in {"admin.json", "logs"}
      BY <1>1, <1>2, <2>2, Missing
    <3> QED BY <1>2, <1>3, <2>1, <2>2, <3>1
  <2> QED BY <1>2, <2>1, <2>2 DEF Place, Applied
<1> QED BY <1>1, <1>2, <1>4, <1>5, <1>6, Inner DEF ApplyDrops, In, Swapping

LEMMA ApplyOneKeeps == ASSUME IInv, NEW r \in Restorers, ApplyOne(r) PROVE IInv'
<1> USE DEF IInv
<1>1. res[r] \in Restoration /\ res[r].pc = "apply" /\ res[r].k \in 1 .. 4 /\ disk \in Data
      /\ res[r].arch \in Data
  BY DEF Typed, TypeOK, ApplyOne, Steps, Restoration
<1> DEFINE a == res[r].arch
<1>2. PICK k \in Ahead(r) :
        /\ \A j \in Ahead(r) : k <= j
        /\ disk' = [disk EXCEPT ![ArchiveOrder[k]] = a[ArchiveOrder[k]]]
        /\ res' = [res EXCEPT ![r].k = k + 1, ![r].pc = IF ArchiveOrder[k] = DB THEN "reload" ELSE res[r].pc]
        /\ wal' = IF ArchiveOrder[k] = DB THEN NoWal ELSE wal
        /\ store' = (store \/ ArchiveOrder[k] = DB)
  BY DEF ApplyOne
<1>3. k \in 1 .. 4 /\ res[r].k <= k /\ a[ArchiveOrder[k]] # Absent /\ ArchiveOrder[k] \in Files
      /\ \A j \in 1 .. 4 : res[r].k <= j /\ j < k => a[ArchiveOrder[j]] = Absent
  <2>1. k \in res[r].k .. 4 /\ a[ArchiveOrder[k]] # Absent /\ k \in 1 .. 4
    BY <1>1, <1>2 DEF Ahead
  <2>2. ASSUME NEW j \in 1 .. 4, res[r].k <= j, j < k PROVE a[ArchiveOrder[j]] = Absent
    <3>1. j \in res[r].k .. 4 /\ j \notin Ahead(r)
      BY <1>1, <1>2, <2>1, <2>2
    <3> QED BY <3>1 DEF Ahead
  <2> QED BY <1>1, <2>1, <2>2, Orders
<1>4. ArchiveOrder[k] = DB <=> k = 4
  BY <1>3, Orders
<1>5. PICK x \in Restoration : /\ Moves(r, x) /\ x.pc = (IF k = 4 THEN "reload" ELSE "apply")
                               /\ x.k = k + 1 /\ x.arch = a
  <2>1. Goes(r, IF k = 4 THEN "reload" ELSE "apply", k + 1)
    BY <1>1, <1>2, <1>4 DEF Goes
  <2>2. (IF k = 4 THEN "reload" ELSE "apply") \in {"closing"} \cup Swapping /\ k + 1 \in 0 .. 5
    BY <1>3 DEF Swapping
  <2> QED BY <2>1, <2>2, Going DEF Typed
<1>6. disk' \in Data /\ disk'[ArchiveOrder[k]] = a[ArchiveOrder[k]]
      /\ \A f \in Files : f # ArchiveOrder[k] => disk'[f] = disk[f]
  BY <1>1, <1>2, <1>3 DEF Data
<1>7. Typed'
  <2>1. TypeOK'
    BY <1>2, <1>5, <1>6 DEF Typed, TypeOK, ApplyOne, Moves
  <2>2. Steps'
    BY <1>1, <1>3, <1>5 DEF Steps, Typed, Moves
  <2> QED BY <2>1, <2>2 DEF Typed, ApplyOne
<1>8. Undisturbed' => Clear(x)'
  BY <1>1, <1>2, <1>4, <1>5 DEF Undisturbed, Withdrawn, Clear, ApplyOne
<1>9. ~seen.overlap /\ ~seen'.raced => Place(x)'
  <2> SUFFICES ASSUME ~seen.overlap, ~seen.raced PROVE Place(x)'
    BY DEF ApplyOne
  <2>1. Applied(res[r])
    BY <1>1 DEF Placed, Place
  <2>2. wal' = NoWal
    BY <1>2, <2>1 DEF Applied
  <2>3. ASSUME NEW j \in 1 .. 4, j < k + 1 \/ a[ArchiveOrder[j]] = Absent
        PROVE  disk'[ArchiveOrder[j]] = a[ArchiveOrder[j]]
    <3>1. CASE j = k
      BY <1>6, <3>1
    <3>2. CASE j # k
      <4>1. j < res[r].k \/ a[ArchiveOrder[j]] = Absent
        BY <1>1, <1>3, <2>3, <3>2
      <4>2. disk[ArchiveOrder[j]] = a[ArchiveOrder[j]]
        BY <1>1, <2>1, <4>1 DEF Applied
      <4>3. ArchiveOrder[j] \in Files /\ ArchiveOrder[j] # ArchiveOrder[k]
        BY <1>3, <3>2, Orders
      <4> QED BY <1>6, <4>2, <4>3
    <3> QED BY <3>1, <3>2
  <2>4. CASE k = 4
    <3>1. \A f \in Files : disk'[f] = a[f]
      BY <2>3, <2>4, Orders
    <3>2. disk' = a
      BY <1>1, <1>6, <3>1 DEF Data
    <3>3. Live' = disk'
      BY <1>7, <2>2, LiveFacts DEF Typed, Live, Data, TypeOK
    <3> QED BY <1>5, <2>4, <3>2, <3>3 DEF Place
  <2>5. CASE k # 4
    BY <1>5, <2>2, <2>3, <2>5 DEF Place, Applied
  <2> QED BY <2>4, <2>5
<1> QED BY <1>1, <1>5, <1>7, <1>8, <1>9, Inner DEF ApplyOne, In, Swapping

\* A restore turns to its rollback.
LEMMA TurnsBack ==
  ASSUME IInv, NEW r \in Restorers, res[r].pc # "idle", res' = ToUndo(r)
  PROVE  \E x \in Restoration : Moves(r, x) /\ x.pc = "clear" /\ x.k = 1 /\ x.arch = res[r].arch /\ Steps'
<1>1. Goes(r, "clear", 1)
  BY DEF Goes, ToUndo
<1>2. PICK x \in Restoration : Moves(r, x) /\ x.pc = "clear" /\ x.k = 1 /\ x.arch = res[r].arch
  BY <1>1, Going DEF IInv, Typed, Swapping
<1>3. Steps'
  BY <1>2 DEF IInv, Typed, Steps, Moves
<1> QED BY <1>2, <1>3

LEMMA ApplyFailsKeeps == ASSUME IInv, NEW r \in Restorers, ApplyFails(r) PROVE IInv'
<1> USE DEF IInv
<1>1. res[r].pc \in {"apply", "drop"} /\ res' = ToUndo(r)
  BY DEF ApplyFails
<1>2. PICK x \in Restoration : Moves(r, x) /\ x.pc = "clear" /\ x.k = 1 /\ x.arch = res[r].arch /\ Steps'
  BY <1>1, TurnsBack
<1>3. /\ seen' \in History /\ seen'.overlap = seen.overlap /\ seen'.raced = seen.raced
      /\ seen'.failed = seen.failed \cup {"replace"}
  BY SeenKept DEF ApplyFails, Typed, TypeOK, Failing
<1>4. Typed'
  BY <1>2, <1>3 DEF Typed, TypeOK, ApplyFails, Moves
<1>5. Clear(x)' /\ Place(x)'
  BY <1>2 DEF Clear, Place
<1> QED BY <1>1, <1>2, <1>3, <1>4, <1>5, Inner DEF ApplyFails, In, Swapping

LEMMA ReloadKeeps == ASSUME IInv, NEW r \in Restorers, Reload(r) PROVE IInv'
<1> USE DEF IInv
<1>1. res[r] \in Restoration /\ res[r].pc \in {"reload", "again"} /\ res[r].k \in 0 .. 5
  BY DEF Typed, TypeOK, Reload, Restoration
<1>2. PICK x \in Restoration : Moves(r, x) /\ x.pc = "exit" /\ x.arch = res[r].arch /\ x.snap = res[r].snap
  <2>1. Goes(r, "exit", res[r].k)
    BY DEF Goes, Reload
  <2> QED BY <1>1, <2>1, Going DEF Typed, Swapping
<1>3. mode' \in [active : BOOLEAN, restored : BOOLEAN] /\ mode'.active = mode.active /\ mode'.restored
  BY DEF Reload, Typed, TypeOK
<1>4. Typed'
  <2>1. TypeOK'
    BY <1>2, <1>3 DEF Typed, TypeOK, Reload, Moves
  <2>2. Steps'
    BY <1>1, <1>2 DEF Steps, Typed, Moves
  <2> QED BY <2>1, <2>2 DEF Typed, Reload
<1>5. Undisturbed' => Clear(x)'
  BY <1>1, <1>2, <1>3 DEF Undisturbed, Withdrawn, Clear, Reload
<1>6. ~seen.overlap /\ ~seen'.raced => Place(x)'
  BY <1>1, <1>2 DEF Placed, Place, Reload, Live
<1> QED BY <1>1, <1>2, <1>3, <1>4, <1>5, <1>6, Inner DEF Reload, In, Swapping

LEMMA ReloadFailsKeeps == ASSUME IInv, NEW r \in Restorers, ReloadFails(r) PROVE IInv'
<1> USE DEF IInv
<1>1. res[r] \in Restoration /\ res[r].pc \in {"reload", "again"} /\ res[r].k \in 0 .. 5 /\ Live \in Data
  BY LiveFacts DEF Typed, TypeOK, ReloadFails, Restoration
<1>2. /\ seen' \in History /\ seen'.overlap = seen.overlap /\ seen'.raced = seen.raced
      /\ seen'.failed = seen.failed \cup {res[r].pc}
  <2>1. res[r].pc \in Failing /\ (seen' = Failed(res[r].pc) \/ seen' = Noted(res[r].pc))
    BY <1>1 DEF ReloadFails, Failing
  <2> QED BY <2>1, SeenKept DEF Typed, TypeOK
<1>3. pub' \in {"on", "off", "half", "lost"}
  BY DEF ReloadFails, Typed, TypeOK
<1>4. CASE res[r].pc = "reload"
  <2>1. res' = ToUndo(r) /\ store' = FALSE /\ disk' = Live /\ wal' = NoWal
    BY <1>4 DEF ReloadFails
  <2>2. PICK x \in Restoration : Moves(r, x) /\ x.pc = "clear" /\ x.k = 1 /\ x.arch = res[r].arch /\ Steps'
    BY <1>4, <2>1, TurnsBack
  <2>3. Typed'
    BY <1>1, <1>2, <1>3, <2>1, <2>2 DEF Typed, TypeOK, ReloadFails, Moves
  <2>4. Clear(x)' /\ Place(x)'
    BY <2>2 DEF Clear, Place
  <2> QED BY <1>2, <1>4, <2>2, <2>3, <2>4, Inner DEF ReloadFails, In, Swapping
<1>5. CASE res[r].pc = "again"
  <2>1. res' = [res EXCEPT ![r].pc = "exit"] /\ UNCHANGED <<store, disk, wal>>
    BY <1>5 DEF ReloadFails
  <2>2. PICK x \in Restoration : Moves(r, x) /\ x.pc = "exit" /\ x.arch = res[r].arch /\ x.snap = res[r].snap
    <3>1. Goes(r, "exit", res[r].k)
      BY <2>1 DEF Goes
    <3> QED BY <1>1, <3>1, Going DEF Typed, Swapping
  <2>3. Typed'
    <3>1. TypeOK'
      BY <1>2, <1>3, <2>1, <2>2 DEF Typed, TypeOK, ReloadFails, Moves
    <3>2. Steps'
      BY <1>1, <2>2 DEF Steps, Typed, Moves
    <3> QED BY <3>1, <3>2 DEF Typed, ReloadFails
  <2>4. ~Undisturbed'
    BY <1>2, <1>5 DEF Undisturbed
  <2>5. ~seen.overlap /\ ~seen'.raced => Place(x)'
    BY <1>2, <1>5, <2>1, <2>2 DEF Placed, Place, Live
  <2> QED BY <1>2, <1>5, <2>2, <2>3, <2>4, <2>5, Inner DEF ReloadFails, In, Swapping
<1> QED BY <1>1, <1>4, <1>5

LEMMA UndoClearsKeeps == ASSUME IInv, NEW r \in Restorers, UndoClears(r) PROVE IInv'
<1> USE DEF IInv
<1> DEFINE k == res[r].k
           f == RemoveOrder[k]
           pc == IF k = 5 THEN "undo" ELSE "clear"
           n == IF k = 5 THEN 1 ELSE k + 1
<1>1. res[r] \in Restoration /\ res[r].pc = "clear" /\ k \in 1 .. 5 /\ disk \in Data
  BY DEF Typed, TypeOK, Steps, UndoClears
<1>2. PICK x \in Restoration : Moves(r, x) /\ x.pc = pc /\ x.k = n /\ x.arch = res[r].arch
  <2>1. Goes(r, pc, n)
    BY <1>1 DEF Goes, UndoClears
  <2>2. pc \in {"closing"} \cup Swapping /\ n \in 0 .. 5
    BY <1>1 DEF Swapping
  <2> QED BY <2>1, <2>2, Going DEF Typed
<1>3. disk' \in Data /\ wal' \in Nat \cup {NoWal}
  BY <1>1 DEF UndoClears, Data, Content, Typed, TypeOK
<1>4. Typed'
  <2>1. TypeOK'
    BY <1>2, <1>3 DEF Typed, TypeOK, UndoClears, Moves
  <2>2. Steps'
    <3>1. \A q \in Restorers : q # r => res'[q] = res[q]
      BY <1>2 DEF Moves
    <3>2. res'[r].pc = pc /\ res'[r].k = n /\ res'[r].arch = res[r].arch
      BY <1>2 DEF Moves
    <3> QED BY <1>1, <3>1, <3>2 DEF Steps, Typed
  <2> QED BY <2>1, <2>2 DEF Typed, UndoClears
<1>5. Clear(x)'
  BY <1>2 DEF Clear
<1>6. ~seen.overlap /\ ~seen'.raced => Place(x)'
  <2> SUFFICES ASSUME ~seen.overlap, ~seen.raced PROVE Place(x)'
    BY DEF UndoClears
  <2>1. k > 4 => wal = NoWal
    BY <1>1 DEF Placed, Place
  <2>2. k > 3 => wal' = NoWal
    <3>1. wal' = IF RemoveOrder[k] = "wal" THEN NoWal ELSE wal
      BY DEF UndoClears
    <3>2. k > 3 => k = 4 \/ k = 5
      BY <1>1
    <3>3. RemoveOrder[4] = "wal"
      BY DEF RemoveOrder
    <3> QED BY <2>1, <3>1, <3>2, <3>3
  <2>3. x.k > 4 => k > 3
    BY <1>1, <1>2
  <2>4. \A j \in 1 .. 4 : ~(j < 1)
    OBVIOUS
  <2> QED BY <1>1, <1>2, <2>2, <2>3, <2>4 DEF Place, Undone
<1> QED BY <1>1, <1>2, <1>4, <1>5, <1>6, Inner DEF UndoClears, In, Swapping

LEMMA UndoOneKeeps == ASSUME IInv, NEW r \in Restorers, UndoOne(r) PROVE IInv'
<1> USE DEF IInv
<1> DEFINE k == res[r].k
           f == SnapshotOrder[k]
           s == res[r].snap
<1>1. res[r] \in Restoration /\ res[r].pc = "undo" /\ k \in 1 .. 4 /\ disk \in Data /\ s \in Data /\ f \in Files
  BY Orders DEF Typed, TypeOK, UndoOne, Steps, Restoration
<1>2. PICK x \in Restoration : /\ Moves(r, x) /\ x.pc = (IF k = 4 THEN "again" ELSE "undo")
                               /\ x.k = (IF k = 4 THEN 0 ELSE k + 1)
                               /\ x.arch = res[r].arch /\ x.snap = s
  <2>1. Goes(r, IF k = 4 THEN "again" ELSE "undo", IF k = 4 THEN 0 ELSE k + 1)
    BY <1>1 DEF Goes, UndoOne
  <2>2. (IF k = 4 THEN "again" ELSE "undo") \in {"closing"} \cup Swapping /\ (IF k = 4 THEN 0 ELSE k + 1) \in 0 .. 5
    BY <1>1 DEF Swapping
  <2> QED BY <2>1, <2>2, Going DEF Typed
<1>3. /\ disk' \in Data /\ disk'[f] = s[f] /\ \A g \in Files : g # f => disk'[g] = disk[g]
      /\ store' = (store \/ k = 4)
  BY <1>1 DEF UndoOne, Data
<1>4. Typed'
  <2>1. TypeOK'
    BY <1>2, <1>3 DEF Typed, TypeOK, UndoOne, Moves
  <2>2. Steps'
    BY <1>1, <1>2 DEF Steps, Typed, Moves
  <2> QED BY <2>1, <2>2 DEF Typed, UndoOne
<1>5. Undisturbed' => Clear(x)'
  BY <1>1, <1>2, <1>3 DEF Undisturbed, Withdrawn, Clear, UndoOne
<1>6. ~seen.overlap /\ ~seen'.raced => Place(x)'
  <2> SUFFICES ASSUME ~seen.overlap, ~seen.raced PROVE Place(x)'
    BY DEF UndoOne
  <2>1. wal = NoWal /\ \A j \in 1 .. 4 : j < k => disk[SnapshotOrder[j]] = s[SnapshotOrder[j]]
    BY <1>1 DEF Placed, Place, Undone
  <2>2. wal' = NoWal
    BY <2>1 DEF UndoOne
  <2>3. ASSUME NEW j \in 1 .. 4, j < k + 1 PROVE disk'[SnapshotOrder[j]] = s[SnapshotOrder[j]]
    <3>1. CASE j = k
      BY <1>3, <3>1
    <3>2. CASE j # k
      <4>1. SnapshotOrder[j] \in Files /\ SnapshotOrder[j] # f /\ j < k
        BY <1>1, <2>3, <3>2, Orders
      <4> QED BY <1>3, <2>1, <4>1
    <3> QED BY <3>1, <3>2
  <2>4. CASE k = 4
    <3>1. \A g \in Files : disk'[g] = s[g]
      BY <2>3, <2>4, Orders
    <3>2. disk' = s
      BY <1>1, <1>3, <3>1 DEF Data
    <3>3. Live' = disk'
      BY <1>4, <2>2, LiveFacts DEF Typed, Live, Data, TypeOK
    <3> QED BY <1>2, <2>4, <3>2, <3>3 DEF Place
  <2>5. CASE k # 4
    BY <1>2, <2>2, <2>3, <2>5 DEF Place, Undone
  <2> QED BY <2>4, <2>5
<1> QED BY <1>1, <1>2, <1>4, <1>5, <1>6, Inner DEF UndoOne, In, Swapping

LEMMA UndoFailsKeeps == ASSUME IInv, NEW r \in Restorers, UndoFails(r) PROVE IInv'
<1> USE DEF IInv
<1>1. res[r] \in Restoration /\ res[r].pc \in {"clear", "undo"} /\ res[r].k \in 0 .. 5
  BY DEF Typed, TypeOK, UndoFails, Restoration
<1>2. PICK x \in Restoration : Moves(r, x) /\ x.pc = "exit" /\ x.arch = res[r].arch
  <2>1. Goes(r, "exit", res[r].k)
    BY DEF Goes, UndoFails
  <2> QED BY <1>1, <2>1, Going DEF Typed, Swapping
<1>3. /\ seen' \in History /\ seen'.overlap = seen.overlap /\ seen'.raced = seen.raced
      /\ seen'.failed = seen.failed \cup {"undo"}
  BY SeenKept DEF UndoFails, Typed, TypeOK, Failing
<1>4. Typed'
  <2>1. TypeOK'
    BY <1>2, <1>3 DEF Typed, TypeOK, UndoFails, Moves
  <2>2. Steps'
    BY <1>1, <1>2 DEF Steps, Typed, Moves
  <2> QED BY <2>1, <2>2 DEF Typed, UndoFails
<1>5. ~Undisturbed' /\ Place(x)'
  BY <1>2, <1>3 DEF Undisturbed, Place
<1> QED BY <1>1, <1>2, <1>3, <1>4, <1>5, Inner DEF UndoFails, In, Swapping

\* A restore that was inside maintenance has left it.
LEMMA Leaving ==
  ASSUME IInv, Typed', NEW r \in Restorers, In(r), Moves(r, Idle), UNCHANGED <<proc, disk, wal>>,
         seen'.overlap = seen.overlap, Serving'
  PROVE  IInv'
<1> USE DEF IInv
<1>1. ~Ended /\ proc # "starting"
  BY DEF Unused, Starting, Ended, In, Swapping
<1>2. Unused' /\ Starting'
  BY <1>1 DEF Unused, Starting, Ended
<1>3. ~seen.overlap => \A q \in Restorers : ~In(q)'
  <2> SUFFICES ASSUME ~seen.overlap, NEW q \in Restorers PROVE ~In(q)'
    OBVIOUS
  <2>1. CASE q = r
    BY <2>1, IdleType DEF In, Swapping, Moves
  <2>2. CASE q # r
    BY <2>2 DEF In, Alone, Moves
  <2> QED BY <2>1, <2>2
<1>4. Alone' /\ Withdrawn' /\ Placed'
  BY <1>3 DEF Alone, Withdrawn, Undisturbed, Clear, Placed, Place, In, Swapping
<1> QED BY <1>2, <1>4

LEMMA ExitKeeps == ASSUME IInv, NEW r \in Restorers, Exit(r) \/ ExitRefused(r) PROVE IInv'
<1> USE DEF IInv
<1>1. res[r].pc = "exit" /\ Moves(r, Idle) /\ Idle.pc = "idle" /\ In(r)
  BY IdleType, Moving DEF Exit, Leaves, ExitRefused, Typed, In, Swapping
<1>2. Steps'
  BY <1>1 DEF Steps, Typed, Moves
<1>3. CASE Exit(r)
  <2>1. sch' \in Scheduler /\ (sch'.timer => sch'.timers > 0) /\ (mode.restored => sch'.timer)
    BY <1>3, SchedulerKept DEF Exit, Leaves, Typed, TypeOK, Scheduler
  <2>2. mode' \in [active : BOOLEAN, restored : BOOLEAN] /\ ~mode'.active
    BY <1>3 DEF Exit, Leaves
  <2>3. /\ seen' \in History /\ seen'.overlap = seen.overlap /\ seen'.failed = seen.failed
    <3>1. PICK b \in BOOLEAN : seen' = [seen EXCEPT !.doubled = b]
      <4>1. (seen.doubled \/ (mode.restored /\ sch.running /\ ~sch.timer)) \in BOOLEAN
        OBVIOUS
      <4> QED BY <1>3, <4>1 DEF Exit, Leaves
    <3> QED BY <3>1, DoubledField DEF Typed, TypeOK
  <2>4. TypeOK'
    BY <1>1, <1>3, <2>1, <2>2, <2>3 DEF Typed, TypeOK, Exit, Leaves, Moves, Scheduler, Ops
  <2>5. Serving'
    BY <1>1, <1>3, <2>1, <2>3 DEF Serving, Withdrawn, Undisturbed, Clear, Exit, Leaves
  <2> QED BY <1>1, <1>2, <1>3, <2>1, <2>3, <2>4, <2>5, Leaving DEF Typed, Exit, Leaves
<1>4. CASE ExitRefused(r)
  <2>1. TypeOK'
    BY <1>1, <1>4 DEF Typed, TypeOK, ExitRefused, Moves
  <2>2. Serving'
    BY <1>4 DEF Serving, ExitRefused
  <2> QED BY <1>1, <1>2, <1>4, <2>1, <2>2, Leaving DEF Typed, ExitRefused
<1> QED BY <1>3, <1>4

(* Writers, backups and the scheduler. *)

LEMMA WritersKeep == IInv /\ (WriteStep \/ Checkpoint) => IInv'
<1> SUFFICES ASSUME IInv, WriteStep \/ Checkpoint PROVE IInv'
  OBVIOUS
<1> USE DEF IInv
<1>1. disk \in Data /\ seen \in History /\ Live \in Data /\ seen.writes \in Nat
  BY LiveFacts DEF Typed, TypeOK, History
<1>2. seen.writes + 1 \in Content /\ seen.writes + 1 \in Nat
  BY <1>1 DEF Content
<1>3. /\ Written(seen) \in History /\ Written(seen).overlap = seen.overlap
      /\ Written(seen).failed = seen.failed /\ (seen.raced \/ Raced => Written(seen).raced)
  <2>1. "start" \in Failing
    BY DEF Failing
  <2> QED BY <1>1, <2>1, SeenKept
<1>4. CASE WriteConfig
  <2>1. Typed'
    <3>1. disk' \in Data
      BY <1>1, <1>2, <1>4 DEF WriteConfig, Data
    <3> QED BY <1>3, <1>4, <3>1 DEF WriteConfig, Typed, TypeOK, Steps
  <2> QED BY <1>3, <1>4, <2>1, Aside DEF WriteConfig
<1>5. CASE WriteLog
  <2>1. Typed'
    <3>1. disk' \in Data
      BY <1>1, <1>2, <1>5 DEF WriteLog, Data
    <3> QED BY <1>3, <1>5, <3>1 DEF WriteLog, Typed, TypeOK, Steps
  <2> QED BY <1>3, <1>5, <2>1, Aside DEF WriteLog
<1>6. CASE WriteDatabase
  <2>1. Typed'
    BY <1>1, <1>2, <1>3, <1>6 DEF WriteDatabase, Typed, TypeOK, Steps
  <2> QED BY <1>3, <1>6, <2>1, Aside DEF WriteDatabase
<1>7. CASE Checkpoint
  <2>1. Typed'
    BY <1>1, <1>7 DEF Checkpoint, Typed, TypeOK, Steps
  <2> QED BY <1>7, <2>1, Aside DEF Checkpoint
<1> QED BY <1>4, <1>5, <1>6, <1>7 DEF WriteStep

LEMMA BackupType ==
  ASSUME NEW pc \in {"no", "listed", "hashed"}, NEW at \in Nat, NEW sums \in Data
  PROVE  [pc |-> pc, at |-> at, sums |-> sums] \in Backup
BY DEF Backup

\* A backup that begins, ends or goes on; what matters is that a run that ends arms the timer.
LEMMA BackupsKeep ==
  ASSUME IInv, Typed', UNCHANGED <<proc, marker, mode, pub, store, disk, wal, res>>,
         seen'.overlap = seen.overlap, seen'.failed = seen.failed, seen'.raced = seen.raced,
         sch' = sch \/ sch'.timer \/ sch'.running \/ proc = "stopping"
  PROVE  IInv'
BY Aside

LEMMA FireTimerKeeps == IInv /\ FireTimer => IInv'
<1> SUFFICES ASSUME IInv, FireTimer PROVE IInv'
  OBVIOUS
<1> USE DEF IInv
<1>1. sch \in Scheduler /\ sch.timers \in Nat \ {0} /\ seen \in History /\ Live \in Data
  BY LiveFacts DEF FireTimer, Typed, TypeOK, Scheduler
<1>2. /\ seen' \in History /\ seen'.overlap = seen.overlap
      /\ seen'.failed = seen.failed /\ seen'.raced = seen.raced
  BY <1>1, Counted DEF FireTimer
<1>3. PICK s \in Scheduler : s = [sch EXCEPT !.timer = FALSE, !.timers = @ - 1] /\ ~s.timer /\ s.running = sch.running
  <2>1. [sch EXCEPT !.timer = FALSE] \in Scheduler
    BY <1>1 DEF Scheduler
  <2>2. PICK t \in Scheduler : t = [sch EXCEPT !.timer = FALSE]
    BY <2>1
  <2>3. t.timers - 1 \in Nat
    BY <1>1, <2>2 DEF Scheduler
  <2>4. [t EXCEPT !.timers = @ - 1] \in Scheduler
    BY <2>3 DEF Scheduler
  <2>5. PICK s \in Scheduler : s = [t EXCEPT !.timers = @ - 1]
    BY <2>4
  <2>6. ~s.timer /\ s.running = sch.running
    BY <1>1, <2>2, <2>5 DEF Scheduler
  <2> QED BY <2>2, <2>5, <2>6
<1>4. CASE sch.running
  <2>1. sch' = Rearmed(s) /\ bk' = bk
    BY <1>3, <1>4 DEF FireTimer
  <2>2. sch' \in Scheduler /\ (sch'.timer => sch'.timers > 0) /\ (proc # "stopping" => sch'.timer)
    BY <1>3, <2>1, SchedulerKept
  <2>3. Typed'
    BY <1>2, <2>1, <2>2 DEF FireTimer, Typed, TypeOK, Steps, Scheduler
  <2> QED BY <1>2, <2>2, <2>3, BackupsKeep DEF FireTimer
<1>5. CASE ~sch.running
  <2>1. /\ sch' = [s EXCEPT !.running = TRUE]
        /\ bk' = [bk EXCEPT !["schedule"] = [pc |-> "listed", at |-> seen.runs + 1, sums |-> Live]]
    BY <1>3, <1>5 DEF FireTimer
  <2>2. sch' \in Scheduler /\ ~sch'.timer /\ sch'.running
    BY <1>3, <2>1 DEF Scheduler
  <2>3. seen.runs + 1 \in Nat
    BY <1>1 DEF History
  <2>4. bk' \in [Makers -> Backup]
    BY <1>1, <2>1, <2>3, BackupType DEF Typed, TypeOK
  <2>5. Typed'
    BY <1>2, <2>2, <2>4 DEF FireTimer, Typed, TypeOK, Steps, Scheduler
  <2> QED BY <1>2, <2>2, <2>5, BackupsKeep DEF FireTimer
<1> QED BY <1>4, <1>5

LEMMA AskForBackupKeeps == IInv /\ AskForBackup => IInv'
<1> SUFFICES ASSUME IInv, AskForBackup PROVE IInv'
  OBVIOUS
<1> USE DEF IInv
<1>1. seen \in History /\ Live \in Data /\ seen.runs + 1 \in Nat
  BY LiveFacts DEF Typed, TypeOK, History
<1>2. /\ seen' \in History /\ seen'.overlap = seen.overlap
      /\ seen'.failed = seen.failed /\ seen'.raced = seen.raced
  BY <1>1, Counted DEF AskForBackup
<1>3. bk' \in [Makers -> Backup]
  BY <1>1, BackupType DEF AskForBackup, Typed, TypeOK
<1>4. Typed'
  BY <1>2, <1>3 DEF AskForBackup, Typed, TypeOK, Steps
<1> QED BY <1>2, <1>4, BackupsKeep DEF AskForBackup

LEMMA BackupStepKeeps == ASSUME IInv, NEW b \in Makers, BackupStep(b) PROVE IInv'
<1> USE DEF IInv
<1>1. bk \in [Makers -> Backup] /\ bk[b] \in Backup /\ sch \in Scheduler /\ Live \in Data /\ disk \in Data
      /\ NoBackup \in Backup
  BY LiveFacts, BackupType DEF Typed, TypeOK, Scheduler, NoBackup, Nothing, Data, Content
<1>2. /\ RunEnds(sch) \in Scheduler /\ (RunEnds(sch).timer => RunEnds(sch).timers > 0)
      /\ proc # "stopping" => RunEnds(sch).timer
  BY <1>1, SchedulerKept DEF Typed
<1>3. ASSUME sch' = IF b = "schedule" THEN RunEnds(sch) ELSE sch
      PROVE  /\ sch' \in Scheduler /\ (sch'.timer => sch'.timers > 0)
             /\ sch' = sch \/ sch'.timer \/ proc = "stopping"
  BY <1>1, <1>2, <1>3 DEF Typed
<1>4. CASE BackupFails(b)
  <2>1. bk' \in [Makers -> Backup]
    BY <1>1, <1>4 DEF BackupFails
  <2>2. Typed'
    BY <1>3, <1>4, <2>1 DEF BackupFails, Typed, TypeOK, Steps, Scheduler
  <2> QED BY <1>3, <1>4, <2>2, BackupsKeep DEF BackupFails
<1>5. CASE HashFiles(b)
  <2>1. PICK s \in Data : s = [f \in Files |-> IF bk[b].sums[f] = Absent THEN Absent ELSE Live[f]]
    <3>1. Absent \in Content
      BY DEF Content
    <3>2. [f \in Files |-> IF bk[b].sums[f] = Absent THEN Absent ELSE Live[f]] \in Data
      BY <1>1, <3>1 DEF Data
    <3> QED BY <3>2
  <2>2. bk' = [bk EXCEPT ![b] = [pc |-> "hashed", at |-> bk[b].at, sums |-> s]]
    BY <1>5, <2>1 DEF HashFiles
  <2>3. bk[b].at \in Nat
    BY <1>1 DEF Backup
  <2>4. bk' \in [Makers -> Backup]
    BY <1>1, <2>2, <2>3, BackupType
  <2>5. Typed'
    BY <1>5, <2>4 DEF HashFiles, Typed, TypeOK, Steps
  <2> QED BY <1>5, <2>5, BackupsKeep DEF HashFiles
<1>6. CASE ZipFiles(b)
  <2> DEFINE sums == bk[b].sums
             files == [f \in Files |-> IF f = DB \/ sums[f] = Absent THEN sums[f] ELSE disk[f]]
  <2>1. sums \in Data /\ files \in Data
    BY <1>1 DEF Backup, Data
  <2>2. PICK zip \in Archive : zip = [kind |-> IF b = "schedule" THEN "daily" ELSE "manual",
                                     sums |-> sums, files |-> files]
    <3>1. [kind |-> IF b = "schedule" THEN "daily" ELSE "manual", sums |-> sums, files |-> files] \in Archive
      BY <2>1 DEF Archive
    <3> QED BY <3>1
  <2>3. backups' = IF b = "schedule" THEN Pruned(Added(backups, bk[b].at, zip)) ELSE Added(backups, bk[b].at, zip)
    BY <1>6, <2>2 DEF ZipFiles
  <2>4. \A i \in DOMAIN backups' : backups'[i] \in Archive
    <3>1. \A i \in DOMAIN Added(backups, bk[b].at, zip) : Added(backups, bk[b].at, zip)[i] \in Archive
      BY DEF Added, Typed, TypeOK
    <3>2. ASSUME NEW s, \A i \in DOMAIN s : s[i] \in Archive
          PROVE  \A i \in DOMAIN Pruned(s) : Pruned(s)[i] \in Archive
      BY <3>2 DEF Pruned, Without
    <3> HIDE DEF Archive
    <3> QED BY <2>3, <3>1, <3>2
  <2>5. bk' \in [Makers -> Backup]
    BY <1>1, <1>6 DEF ZipFiles
  <2>6. sch' = IF b = "schedule" THEN RunEnds(sch) ELSE sch
    BY <1>6 DEF ZipFiles
  <2>7. Typed'
    BY <1>3, <1>6, <2>4, <2>5, <2>6 DEF ZipFiles, Typed, TypeOK, Steps, Scheduler
  <2> QED BY <1>3, <1>6, <2>6, <2>7, BackupsKeep DEF ZipFiles
<1> QED BY <1>4, <1>5, <1>6 DEF BackupStep

LEMMA DeleteBackupKeeps == IInv /\ DeleteBackup => IInv'
<1> SUFFICES ASSUME IInv, DeleteBackup PROVE IInv'
  OBVIOUS
<1>1. \A i \in DOMAIN backups' : backups'[i] \in Archive
  BY DEF DeleteBackup, Without, IInv, Typed, TypeOK
<1>2. Typed'
  BY <1>1 DEF DeleteBackup, IInv, Typed, TypeOK, Steps
<1> QED BY <1>2, BackupsKeep DEF DeleteBackup

LEMMA StopAskedKeeps == IInv /\ StopAsked => IInv'
<1> SUFFICES ASSUME IInv, StopAsked PROVE IInv'
  OBVIOUS
<1>1. Typed'
  BY DEF StopAsked, IInv, Typed, TypeOK, Steps
<1> QED BY <1>1, BackupsKeep DEF StopAsked

----------------------------------------------------------------------------
(* The process. *)

\* A process that begins or ends: nobody is inside maintenance.
LEMMA NobodyInside ==
  ASSUME Typed', Unused', Starting', Serving', \A r \in Restorers : res'[r].pc = "idle"
  PROVE  IInv'
BY DEF IInv, Alone, Withdrawn, Clear, Placed, Place, In, Swapping

LEMMA BeginningsKeep == IInv /\ (Recover \/ Begin) => IInv'
<1> SUFFICES ASSUME IInv, Recover \/ Begin PROVE IInv'
  OBVIOUS
<1> USE DEF IInv
<1>1. /\ UNCHANGED <<mode, pub, store, disk, wal, res, sch, bk, backups, stop, seen>>
      /\ proc \in {"down", "begin"} /\ proc' \in {"down", "begin", "starting"}
      /\ marker' \in Ops /\ (proc' = "starting" => marker' = "startup")
  BY DEF Recover, Begin, Ops, Typed, TypeOK
<1>2. /\ ~store /\ pub = "off" /\ ~mode.active /\ \A r \in Restorers : res[r].pc = "idle"
  BY <1>1 DEF Unused, Ended
<1>3. Typed'
  BY <1>1 DEF Typed, TypeOK, Steps
<1>4. Unused' /\ Starting' /\ Serving'
  BY <1>1, <1>2 DEF Unused, Starting, Serving, In, Swapping
<1> QED BY <1>1, <1>2, <1>3, <1>4, NobodyInside

LEMMA ServeKeeps == IInv /\ Serve => IInv'
<1> SUFFICES ASSUME IInv, Serve PROVE IInv'
  OBVIOUS
<1> USE DEF IInv
<1>1. ~mode.active /\ marker = "startup" /\ \A r \in Restorers : res[r].pc = "idle"
  BY DEF Serve, Unused, Ended, Starting
<1>2. sch' \in Scheduler /\ sch'.timer /\ sch'.timers > 0
  BY SchedulerKept DEF Serve, Typed, TypeOK, Scheduler
<1>3. disk' \in Data
  BY DEF Serve, Made, Typed, TypeOK, Data, Content
<1>4. Typed'
  BY <1>2, <1>3 DEF Serve, Typed, TypeOK, Steps, Scheduler
<1>5. Unused' /\ Starting' /\ Serving'
  BY <1>1, <1>2 DEF Unused, Ended, Starting, Serving, Serve, In, Swapping
<1> QED BY <1>1, <1>4, <1>5, NobodyInside DEF Serve

LEMMA StartFailsKeeps == IInv /\ StartFails => IInv'
<1> SUFFICES ASSUME IInv, StartFails PROVE IInv'
  OBVIOUS
<1> USE DEF IInv
<1>1. ~store /\ pub = "off" /\ ~mode.active /\ \A r \in Restorers : res[r].pc = "idle"
  BY DEF StartFails, Unused, Ended
<1>2. seen' \in History /\ disk' \in Data
  <2>1. \A fs : Made(fs) \in Data
    BY DEF Made, Typed, TypeOK, Data, Content
  <2> QED BY <2>1, SeenKept DEF StartFails, Typed, TypeOK, Failing
<1>3. Typed'
  BY <1>2 DEF StartFails, Typed, TypeOK, Steps
<1>4. Unused' /\ Starting' /\ Serving'
  BY <1>1 DEF Unused, Starting, Serving, StartFails
<1> QED BY <1>1, <1>3, <1>4, NobodyInside DEF StartFails

LEMMA StartCompletesKeeps == IInv /\ StartCompletes => IInv'
<1> SUFFICES ASSUME IInv, StartCompletes PROVE IInv'
  OBVIOUS
<1> USE DEF IInv
<1>1. ~mode.active /\ marker = "startup" /\ \A r \in Restorers : ~In(r)
  BY DEF StartCompletes, Starting
<1>2. Typed'
  BY DEF StartCompletes, Typed, TypeOK, Steps, Ops
<1>3. Unused' /\ Starting' /\ Serving'
  BY <1>1 DEF Unused, Ended, Starting, Serving, Undisturbed, StartCompletes
<1>4. \A r \in Restorers : res'[r].pc \notin {"closing"} \cup Swapping
  BY <1>1 DEF In, StartCompletes
<1>5. Alone' /\ Withdrawn' /\ Placed'
  BY <1>4 DEF Alone, Withdrawn, Clear, Placed, Place, In, Swapping
<1> QED BY <1>2, <1>3, <1>5

LEMMA StopMarksKeeps == IInv /\ StopMarks => IInv'
<1> SUFFICES ASSUME IInv, StopMarks PROVE IInv'
  OBVIOUS
<1> USE DEF IInv
<1>1. /\ seen' \in History /\ seen'.failed = seen.failed /\ seen'.raced = seen.raced
      /\ seen'.overlap = (seen.overlap \/ marker # "none")
  BY Noticed DEF StopMarks, Typed, TypeOK
<1>2. Typed'
  <2>1. sch' \in Scheduler /\ ~sch'.timer
    BY SchedulerKept DEF StopMarks, Typed, TypeOK, Scheduler
  <2> QED BY <1>1, <2>1 DEF StopMarks, Typed, TypeOK, Steps, Ops, Scheduler
<1>3. Unused' /\ Starting' /\ Serving'
  BY DEF Unused, Ended, Starting, Serving, StopMarks
<1>4. ~seen'.overlap => \A r \in Restorers : res'[r].pc \notin {"closing"} \cup Swapping
  BY <1>1 DEF In, Alone, StopMarks
<1>5. Alone' /\ Withdrawn' /\ Placed'
  BY <1>4 DEF Alone, Withdrawn, Undisturbed, Clear, Placed, Place, In, Swapping
<1> QED BY <1>2, <1>3, <1>5

LEMMA EndsKeep == IInv /\ (Stopped \/ Crash) => IInv'
<1> SUFFICES ASSUME IInv, Stopped \/ Crash PROVE IInv'
  OBVIOUS
<1> USE DEF IInv
<1>1. Gone
  BY DEF Stopped, Crash
<1>2. /\ proc' = "down" /\ ~mode'.active /\ pub' = "off" /\ ~store'
      /\ \A r \in Restorers : res'[r].pc = "idle"
  BY <1>1, IdleType DEF Gone
<1>3. seen' \in History /\ marker' \in Ops /\ disk' \in Data /\ wal' \in Nat \cup {NoWal}
  <2>1. CASE Stopped
    BY <2>1, LiveFacts, Forgetting DEF Stopped, Ops, Typed, TypeOK
  <2>2. CASE Crash
    <3>1. ASSUME NEW f PROVE [disk EXCEPT ![f] = Torn] \in Data
      BY DEF Typed, TypeOK, Data, Content
    <3>2. disk' \in Data
      <4>1. disk' \in CutOff /\ disk \in Data
        BY <2>2 DEF Crash, Typed, TypeOK
      <4>2. ASSUME NEW d \in CutOff PROVE d \in Data
        BY <3>1, <4>1 DEF CutOff
      <4> QED BY <4>1, <4>2
    <3>3. seen' \in History
      BY <2>2, Forgetting DEF Crash, Typed, TypeOK
    <3> QED BY <2>2, <3>2, <3>3 DEF Crash, Typed, TypeOK
  <2> QED BY <2>1, <2>2
<1>4. Typed'
  <2>1. res' \in [Restorers -> Restoration]
    BY <1>1, IdleType DEF Gone
  <2>2. bk' \in [Makers -> Backup]
    BY <1>1, BackupType DEF Gone, NoBackup, Nothing, Data, Content
  <2>3. TypeOK'
    BY <1>1, <1>3, <2>1, <2>2 DEF Gone, Typed, TypeOK
  <2>4. Steps'
    BY <1>2 DEF Steps
  <2> QED BY <1>1, <2>3, <2>4 DEF Gone, Typed
<1>5. Unused' /\ Starting' /\ Serving'
  BY <1>2 DEF Unused, Starting, Serving
<1> QED BY <1>2, <1>4, <1>5, NobodyInside

----------------------------------------------------------------------------
(* Together. *)

LEMMA InitInv == Init => IInv
<1> SUFFICES ASSUME Init PROVE IInv
  OBVIOUS
<1>1. \A r \in Restorers : res[r].pc = "idle"
  BY IdleType DEF Init
<1>2. Typed
  <2>1. res \in [Restorers -> Restoration]
    BY IdleType DEF Init
  <2>2. bk \in [Makers -> Backup]
    BY BackupType DEF Init, NoBackup, Nothing, Data, Content
  <2>3. \A i \in DOMAIN backups : backups[i] \in Archive
    BY BackupsAssumption DEF Init
  <2>4. disk \in Data /\ seen \in History
    BY DEF Init, Data, Content, History
  <2>5. TypeOK
    BY <2>1, <2>2, <2>3, <2>4 DEF Init, TypeOK, Ops
  <2>6. Steps
    BY <1>1 DEF Steps
  <2> QED BY <2>5, <2>6 DEF Init, Typed
<1>3. Unused /\ Starting /\ Serving
  BY DEF Init, Unused, Ended, Starting, Serving
<1>4. Alone /\ Withdrawn /\ Placed
  BY <1>1 DEF Alone, Withdrawn, Clear, Placed, Place, In, Swapping
<1> QED BY <1>2, <1>3, <1>4 DEF IInv

LEMMA Inductive == IInv /\ [Next]_vars => IInv'
<1> SUFFICES ASSUME IInv, [Next]_vars PROVE IInv'
  OBVIOUS
<1>1. CASE WriteStep \/ Checkpoint
  BY <1>1, WritersKeep
<1>2. CASE FireTimer \/ AskForBackup \/ DeleteBackup
  BY <1>2, FireTimerKeeps, AskForBackupKeeps, DeleteBackupKeeps
<1>3. CASE ProcessStep
  BY <1>3, BeginningsKeep, ServeKeeps, StartFailsKeeps, StartCompletesKeeps, StopMarksKeeps, EndsKeep
     DEF ProcessStep
<1>4. CASE StopAsked \/ Crash
  BY <1>4, StopAskedKeeps, EndsKeep
<1>5. ASSUME NEW b \in Makers, BackupStep(b) PROVE IInv'
  BY <1>5, BackupStepKeeps
<1>6. ASSUME NEW r \in Restorers, Inspect(r) \/ RestoreStep(r) PROVE IInv'
  BY <1>6, InspectKeeps, SnapshotOneKeeps, EnterReadsKeeps, EnterMarksKeeps, EnterClosesKeeps,
     EnterFailsKeeps, ApplyClearsKeeps, ApplyDropsKeeps, ApplyOneKeeps, ApplyFailsKeeps, ReloadKeeps, ReloadFailsKeeps,
     UndoClearsKeeps, UndoOneKeeps, UndoFailsKeeps, ExitKeeps DEF RestoreStep
<1>7. CASE UNCHANGED vars
  <2>1. Typed'
    BY <1>7 DEF vars, IInv, Typed, TypeOK, Steps
  <2> QED BY <1>7, <2>1, BackupsKeep DEF vars
<1> QED BY <1>1, <1>2, <1>3, <1>4, <1>5, <1>6, <1>7 DEF Next

LEMMA Invariance == Spec => []IInv
<1>1. Spec => Init /\ [][Next]_vars
  BY PTL DEF Spec
<1> QED BY <1>1, InitInv, Inductive, PTL

(* The backup scheduler. *)

Loops(s) == s.timers + (IF s.running THEN 1 ELSE 0)

\* A process that does not serve has no timer; a scheduled run that is under way is known to
\* be; and one loop is all there is, which the scheduler knows when it waits.
Looped ==
  /\ Ended => sch.timers = 0 /\ ~sch.running
  /\ "schedule" \in Makers /\ bk["schedule"].pc # "no" => sch.running
  /\ ~seen.doubled => Loops(sch) <= 1 /\ (sch.timers > 0 => sch.timer)

\* What each operation of the scheduler makes of a scheduler with one loop at most.
LEMMA LoopsOf ==
  ASSUME NEW s \in Scheduler, s.timer => s.timers > 0
  PROVE  /\ Paused(s).running = s.running
         /\ Armed(s).running = s.running /\ Armed(s).timers = s.timers + 1 /\ Armed(s).timer
         /\ Rearmed(s).running = s.running
         /\ ~RunEnds(s).running
         /\ Loops(s) <= 1 /\ (s.timers > 0 => s.timer) =>
              /\ Loops(Paused(s)) <= 1 /\ (Paused(s).timers > 0 => Paused(s).timer)
              /\ s.running => Loops(RunEnds(s)) <= 1 /\ (RunEnds(s).timers > 0 => RunEnds(s).timer)
              /\ s.timer \/ ~s.running => Loops(Started(s)) <= 1 /\ (Started(s).timers > 0 => Started(s).timer)
<1>1. s.timers \in Nat /\ s.timer \in BOOLEAN /\ s.running \in BOOLEAN
  BY DEF Scheduler
<1>2. ASSUME NEW y \in Scheduler
      PROVE  Armed(y).running = y.running /\ Armed(y).timers = y.timers + 1 /\ Armed(y).timer
  <2>1. PICK z \in Scheduler : z = [y EXCEPT !.timer = TRUE] /\ z.timers = y.timers /\ z.running = y.running /\ z.timer
    BY TimerSet
  <2>2. Armed(y) = [z EXCEPT !.timers = @ + 1]
    BY <2>1 DEF Armed, Scheduler
  <2> QED BY <2>1, <2>2 DEF Scheduler
<1>3. /\ Paused(s).running = s.running
      /\ s.timer => Paused(s).timers = s.timers - 1 /\ ~Paused(s).timer
      /\ ~s.timer => Paused(s) = s
  <2>1. CASE s.timer
    <3>1. PICK z \in Scheduler : z = [s EXCEPT !.timer = FALSE] /\ z.timers = s.timers /\ z.running = s.running /\ ~z.timer
      BY TimerSet
    <3>2. Paused(s) = [z EXCEPT !.timers = @ - 1]
      BY <2>1, <3>1 DEF Paused, Scheduler
    <3> QED BY <2>1, <3>1, <3>2 DEF Scheduler
  <2> QED BY <2>1 DEF Paused
<1>4. PICK y \in Scheduler : y = [s EXCEPT !.running = FALSE] /\ y.timer = s.timer /\ y.timers = s.timers /\ ~y.running
  BY NotRunning
<1>5. RunEnds(s) = IF proc = "stopping" THEN y ELSE Armed(y)
  BY <1>4 DEF RunEnds, Rearmed
<1>6. Armed(y).timers = s.timers + 1 /\ ~Armed(y).running /\ Armed(y).timer
  BY <1>2, <1>4
<1>7. ASSUME Loops(s) <= 1, s.timers > 0 => s.timer
      PROVE  /\ Loops(Paused(s)) <= 1 /\ (Paused(s).timers > 0 => Paused(s).timer)
             /\ s.running => Loops(RunEnds(s)) <= 1 /\ (RunEnds(s).timers > 0 => RunEnds(s).timer)
             /\ s.timer \/ ~s.running => Loops(Started(s)) <= 1 /\ (Started(s).timers > 0 => Started(s).timer)
  <2>1. s.timers <= 1 /\ (s.running => s.timers = 0)
    BY <1>1, <1>7 DEF Loops
  <2>2. Loops(Paused(s)) <= 1 /\ (Paused(s).timers > 0 => Paused(s).timer)
    BY <1>1, <1>3, <1>7, <2>1 DEF Loops
  <2>3. s.running => Loops(RunEnds(s)) <= 1 /\ (RunEnds(s).timers > 0 => RunEnds(s).timer)
    BY <1>1, <1>4, <1>5, <1>6, <2>1 DEF Loops
  <2>4. s.timer \/ ~s.running => Loops(Started(s)) <= 1 /\ (Started(s).timers > 0 => Started(s).timer)
    <3>1. CASE s.timer
      BY <1>7, <3>1 DEF Started
    <3>2. CASE ~s.timer /\ ~s.running
      <4>1. Started(s) = Armed(s) /\ s.timers = 0
        BY <1>1, <1>7, <3>2 DEF Started
      <4> QED BY <1>1, <1>2, <3>2, <4>1 DEF Loops
    <3> QED BY <3>1, <3>2
  <2> QED BY <2>2, <2>3, <2>4
<1> QED BY <1>2, <1>3, <1>5, <1>6, <1>4, <1>7 DEF Rearmed

\* A step that does not concern the scheduler.
LEMMA Elsewhere ==
  ASSUME Looped, UNCHANGED sch, seen'.doubled = seen.doubled, Ended' => Ended,
         "schedule" \in Makers /\ bk'["schedule"].pc # "no" => bk["schedule"].pc # "no"
  PROVE  Looped'
BY DEF Looped

LEMMA LoopedTimer == ASSUME IInv, Looped, FireTimer PROVE Looped'
<1> USE DEF Looped
<1>1. sch \in Scheduler /\ sch.timers \in Nat \ {0} /\ seen \in History /\ ~Ended /\ ~Ended'
  BY DEF FireTimer, IInv, Typed, TypeOK, Scheduler, Ended
<1>2. seen'.doubled = seen.doubled
  BY <1>1, Counted DEF FireTimer
<1>3. PICK s \in Scheduler : /\ s = [sch EXCEPT !.timer = FALSE, !.timers = @ - 1]
                             /\ s.timers = sch.timers - 1 /\ ~s.timer /\ s.running = sch.running
  <2>1. PICK t \in Scheduler : t = [sch EXCEPT !.timer = FALSE] /\ ~t.timer /\ t.timers = sch.timers /\ t.running = sch.running
    BY <1>1, TimerSet
  <2>2. PICK n \in Nat : n = t.timers - 1
    BY <1>1, <2>1
  <2>3. PICK s \in Scheduler : s = [t EXCEPT !.timers = n] /\ s.timer = t.timer /\ s.timers = n /\ s.running = t.running
    BY TimersSet
  <2> QED BY <1>1, <2>1, <2>2, <2>3
<1>4. CASE sch.running
  <2>1. sch' = Rearmed(s) /\ bk' = bk
    BY <1>3, <1>4 DEF FireTimer
  <2>2. sch'.running
    BY <1>3, <1>4, <2>1, LoopsOf
  <2>3. seen.doubled
    BY <1>1, <1>4 DEF Loops
  <2> QED BY <1>1, <1>2, <2>1, <2>2, <2>3
<1>5. CASE ~sch.running
  <2>1. sch' = [s EXCEPT !.running = TRUE]
    BY <1>3, <1>5 DEF FireTimer
  <2>2. sch'.running /\ sch'.timers = sch.timers - 1
    BY <1>3, <2>1 DEF Scheduler
  <2>3. ~seen.doubled => Loops(sch') <= 1 /\ ~(sch'.timers > 0)
    BY <1>1, <1>5, <2>2 DEF Loops
  <2> QED BY <1>1, <1>2, <2>2, <2>3
<1> QED BY <1>4, <1>5

LEMMA LoopedBackups == ASSUME IInv, Looped, NEW b \in Makers, BackupStep(b) PROVE Looped'
<1> USE DEF IInv
<1>1. sch \in Scheduler /\ (sch.timer => sch.timers > 0) /\ bk \in [Makers -> Backup] /\ seen' = seen
      /\ (Ended' <=> Ended)
  BY DEF Typed, TypeOK, Scheduler, BackupStep, BackupFails, HashFiles, ZipFiles, Ended
<1>2. bk[b].pc # "no"
  BY DEF BackupStep, BackupFails, HashFiles, ZipFiles, Broken
<1>3. CASE HashFiles(b)
  BY <1>1, <1>2, <1>3, Elsewhere DEF HashFiles
<1>4. CASE BackupFails(b) \/ ZipFiles(b)
  <2>1. bk' = [bk EXCEPT ![b] = NoBackup] /\ sch' = IF b = "schedule" THEN RunEnds(sch) ELSE sch
    BY <1>4 DEF BackupFails, ZipFiles
  <2>2. CASE b = "schedule"
    <3>1. sch.running /\ ~Ended /\ sch' = RunEnds(sch) /\ bk'["schedule"].pc = "no"
      BY <1>1, <1>2, <2>1, <2>2 DEF Looped, NoBackup
    <3>2. ~seen.doubled => Loops(sch') <= 1 /\ (sch'.timers > 0 => sch'.timer)
      BY <1>1, <3>1, LoopsOf DEF Looped
    <3> QED BY <1>1, <3>1, <3>2 DEF Looped
  <2>3. CASE b # "schedule"
    BY <1>1, <2>1, <2>3, Elsewhere
  <2> QED BY <2>2, <2>3
<1> QED BY <1>3, <1>4 DEF BackupStep

LEMMA LoopedRestores == ASSUME IInv, Looped, NEW r \in Restorers, Inspect(r) \/ RestoreStep(r) PROVE Looped'
<1> USE DEF IInv
<1>1. sch \in Scheduler /\ (sch.timer => sch.timers > 0) /\ seen \in History /\ bk' = bk /\ proc' = proc
  BY DEF Typed, TypeOK, Scheduler, Inspect, RestoreStep, SnapshotOne, EnterReads, EnterMarks, EnterCloses,
         EnterFails, ApplyClears, ApplyDrops, ApplyOne, ApplyFails, Reload, ReloadFails, UndoClears, UndoOne,
         UndoFails, Exit, Leaves, ExitRefused
<1>2. ~Ended
  BY DEF Unused, Ended, Inspect, RestoreStep, SnapshotOne, EnterReads, EnterMarks, EnterCloses,
         EnterFails, ApplyClears, ApplyDrops, ApplyOne, ApplyFails, Reload, ReloadFails, UndoClears, UndoOne,
         UndoFails, Exit, Leaves, ExitRefused
<1>3. ~Ended'
  <2>1. CASE proc = "starting"
    <3>1. pub' = pub
      BY <2>1 DEF Starting, In, Swapping, Inspect, RestoreStep, SnapshotOne, EnterReads, EnterMarks, EnterCloses,
         EnterFails, ApplyClears, ApplyDrops, ApplyOne, ApplyFails, Reload, ReloadFails, UndoClears, UndoOne,
         UndoFails, Exit, Leaves, ExitRefused
    <3> QED BY <1>1, <1>2, <3>1 DEF Ended
  <2> QED BY <1>1, <1>2, <2>1 DEF Ended
<1>4. CASE EnterMarks(r)
  <2>1. sch' = Paused(sch) /\ seen'.doubled = seen.doubled
    BY <1>1, <1>4, Noticed DEF EnterMarks
  <2> QED BY <1>1, <1>3, <2>1, LoopsOf DEF Looped
<1>5. CASE Exit(r)
  <2>1. PICK b \in BOOLEAN : /\ b = (seen.doubled \/ (mode.restored /\ sch.running /\ ~sch.timer))
                             /\ seen' = [seen EXCEPT !.doubled = b]
    BY <1>5 DEF Exit, Leaves
  <2>2. seen'.doubled = b
    BY <1>1, <2>1, DoubledField
  <2>3. sch' = IF mode.restored THEN Started(sch) ELSE sch
    BY <1>5 DEF Exit, Leaves
  <2>4. Started(sch).running = sch.running
    BY <1>1, LoopsOf DEF Started
  <2>5. ~b => Loops(sch') <= 1 /\ (sch'.timers > 0 => sch'.timer)
    BY <1>1, <2>1, <2>3, LoopsOf DEF Looped
  <2> QED BY <1>1, <1>3, <2>2, <2>3, <2>4, <2>5 DEF Looped
<1>6. CASE ~EnterMarks(r) /\ ~Exit(r)
  <2>1. sch' = sch
    BY <1>6 DEF Inspect, RestoreStep, SnapshotOne, EnterReads, EnterCloses,
         EnterFails, ApplyClears, ApplyDrops, ApplyOne, ApplyFails, Reload, ReloadFails, UndoClears, UndoOne,
         UndoFails, ExitRefused
  <2>2. \/ seen' = seen \/ seen' = [seen EXCEPT !.restores = @ + 1]
        \/ \E f \in Failing : seen' = Failed(f) \/ seen' = Noted(f)
    BY <1>6 DEF Inspect, RestoreStep, SnapshotOne, EnterReads, EnterCloses,
         EnterFails, ApplyClears, ApplyDrops, ApplyOne, ApplyFails, Reload, ReloadFails, UndoClears, UndoOne,
         UndoFails, ExitRefused, Failing
  <2>3. seen'.doubled = seen.doubled
    BY <1>1, <2>2, Counted, SeenKept
  <2> QED BY <1>1, <1>3, <2>1, <2>3, Elsewhere
<1> QED BY <1>4, <1>5, <1>6

LEMMA LoopedProcess == ASSUME IInv, Looped, ProcessStep \/ StopAsked \/ Crash PROVE Looped'
<1> USE DEF IInv
<1>1. sch \in Scheduler /\ (sch.timer => sch.timers > 0) /\ seen \in History
  BY DEF Typed, TypeOK, Scheduler
<1>2. CASE Stopped \/ Crash
  <2>1. sch'.timers = 0 /\ ~sch'.running /\ bk' = [b \in Makers |-> NoBackup]
    BY <1>2 DEF Stopped, Crash, Gone
  <2> QED BY <2>1 DEF Looped, Loops, NoBackup
<1>3. CASE Serve
  <2>1. Ended /\ ~sch.running /\ sch.timers = 0 /\ sch' = Armed(sch) /\ seen' = seen /\ bk' = bk /\ ~Ended'
    BY <1>3 DEF Serve, Ended, Looped
  <2>2. sch'.timers = 1 /\ ~sch'.running /\ sch'.timer
    BY <1>1, <2>1, LoopsOf
  <2> QED BY <2>1, <2>2 DEF Looped, Loops
<1>4. CASE StopMarks
  <2>1. sch' = Paused(sch) /\ bk' = bk /\ seen'.doubled = seen.doubled /\ ~Ended /\ ~Ended'
    BY <1>1, <1>4, Noticed DEF StopMarks, Ended
  <2> QED BY <1>1, <2>1, LoopsOf DEF Looped
<1>5. CASE Recover \/ Begin \/ StartFails \/ StartCompletes \/ StopAsked
  <2>1. sch' = sch /\ bk' = bk /\ (Ended' => Ended)
    BY <1>5 DEF Recover, Begin, StartFails, StartCompletes, StopAsked, Ended
  <2>2. seen'.doubled = seen.doubled
    <3>1. seen' = seen \/ seen' = Noted("start")
      BY <1>5 DEF Recover, Begin, StartFails, StartCompletes, StopAsked
    <3> QED BY <1>1, <3>1, SeenKept DEF Failing
  <2> QED BY <2>1, <2>2, Elsewhere
<1> QED BY <1>2, <1>3, <1>4, <1>5 DEF ProcessStep

LEMMA LoopedKeeps == IInv /\ Looped /\ [Next]_vars => Looped'
<1> SUFFICES ASSUME IInv, Looped, [Next]_vars PROVE Looped'
  OBVIOUS
<1>1. CASE WriteStep \/ Checkpoint \/ DeleteBackup \/ UNCHANGED vars
  <2>1. sch' = sch /\ bk' = bk /\ proc' = proc /\ pub' = pub /\ (seen' = seen \/ seen' = Written(seen))
    BY <1>1 DEF WriteStep, WriteConfig, WriteLog, WriteDatabase, Checkpoint, DeleteBackup, vars
  <2>2. seen'.doubled = seen.doubled
    BY <2>1, SeenKept DEF IInv, Typed, TypeOK, Failing
  <2> QED BY <2>1, <2>2, Elsewhere DEF Ended
<1>2. CASE AskForBackup
  <2>1. sch' = sch /\ proc' = proc /\ pub' = pub /\ bk'["schedule"] = bk["schedule"]
    BY <1>2 DEF AskForBackup, IInv, Typed, TypeOK
  <2>2. seen'.doubled = seen.doubled
    BY <1>2, Counted DEF AskForBackup, IInv, Typed, TypeOK
  <2> QED BY <2>1, <2>2, Elsewhere DEF Ended
<1> QED BY <1>1, <1>2, LoopedTimer, LoopedBackups, LoopedRestores, LoopedProcess DEF Next, ProcessStep

----------------------------------------------------------------------------
(* Theorems. *)


\* While a restore replaces files the marker says so and no other restore does, unless two
\* operations began at once.  Outside maintenance the services answer and a backup is armed
\* or running: whatever dies or fails, a reload among its listeners included, except that
\* nothing is said after a rollback that failed or whose own reload did (which a reload that
\* failed among the listeners makes certain), nor after two operations began at once.
THEOREM StaysConsistent == Spec => []Consistent
<1>1. ASSUME IInv PROVE MarkerCoversSwap
  <2> SUFFICES ASSUME ~seen.overlap, Inside # {}
               PROVE  marker = "restore" /\ Cardinality(Inside) = 1
    BY DEF MarkerCoversSwap
  <2>1. PICK r \in Restorers : In(r)
    BY DEF Inside, In
  <2>2. marker = "restore" /\ Inside = {r}
    BY <1>1, <2>1 DEF IInv, Alone, Inside, In
  <2> QED BY <2>2, FS_Singleton
<1>2. ASSUME IInv PROVE ServesOutsideMaintenance
  BY <1>2 DEF IInv, Serving, Undisturbed, ServesOutsideMaintenance
<1>3. IInv => Consistent
  BY <1>1, <1>2 DEF IInv, Typed, Consistent
<1> QED BY <1>3, Invariance, PTL

\* A restore that ends leaves the archive's files or those it copied before, whatever failed
\* on the way, however many restores, writers and backups there are: unless the rollback
\* itself fails, somebody writes meanwhile, or two operations began at once.
THEOREM RestoresAllOrNothing == Spec => []AllOrNothing
<1>1. IInv => AllOrNothing
  BY DEF IInv, Placed, Place, AllOrNothing
<1> QED BY <1>1, Invariance, PTL

\* Daily backups keep one loop of timer and run through starts, stops, restores, crashes and
\* refused exits, unless maintenance ended while a run that it had not waited for was still
\* going on.
THEOREM BackupsLoopOnce == Spec => []OneBackupLoop
<1>1. Init => Looped
  BY DEF Init, Looped, Ended, Loops, NoBackup
<1>2. IInv /\ Looped => OneBackupLoop
  BY DEF Looped, Loops, OneBackupLoop
<1>3. Spec => Init /\ [][Next]_vars
  BY PTL DEF Spec
<1>4. Spec => []Looped
  BY <1>1, <1>3, LoopedKeeps, Invariance, PTL
<1> QED BY <1>2, <1>4, Invariance, PTL
=============================================================================
