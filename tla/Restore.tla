------------------------------ MODULE Restore ------------------------------
(* The files of the data directory, the runtime that serves from them, the    *)
(* backups made of them and the restore that replaces them: backup/manager.js,*)
(* backup/scheduler.js, recovery/manager.js and the start, stop and           *)
(* maintenance mode of runtime.js.                                            *)
(*                                                                            *)
(* One step is what runs between two awaits.  A file is its content, a        *)
(* number; operations.sqlite is in WAL mode, so what was committed may still  *)
(* be in the -wal file, which only a checkpoint or close() folds into the     *)
(* main file.  What inspect() and writeStaging() do touches no shared state,  *)
(* so they are one step; so are the stat, hash and zip of all files of a      *)
(* backup, each at one instant.                                               *)
EXTENDS Integers, Sequences, FiniteSets

CONSTANTS Restorers,      \* restores an administrator may have under way at once
          Makers,         \* who makes backups: "schedule", "admin"
          InitialBackups, \* the archives there are at first
          Keep,           \* DAILY_RETENTION
          MayFail,        \* the steps that may fail, of Failing
          MaxWrites, MaxRestores, MaxFaults, MaxCrashes, MaxBackups, MaxRuns   \* bounds

VARIABLES proc,     \* the process: "down", "begin", "starting", "up", "stopping"
          marker,   \* recovery/operation.json, what is under way
          mode,     \* maintenanceActive and maintenanceRestored
          pub,      \* public services: "on", "off", "half" when a reload failed among them, "lost"
                    \* when another one has since overwritten the handles of those that listen
          store,    \* the database is open
          disk,     \* the files
          wal,      \* operations.sqlite-wal: the newer content it holds, or NoWal
          res,      \* per restore: where it is, its archive and its rollback snapshot
          left,     \* rollback directories no live restore owns
          sch,      \* the backup scheduler
          bk,       \* per maker: the backup it is making
          backups,  \* the archives, by the number of the run that made them
          stop,     \* close(): "no", or "asked" when it has read the marker
          seen      \* history: counts of the bounds; of the restore last in maintenance what
                    \* failed and whether it was raced; of the process what overlapped or doubled

vars == <<proc, marker, mode, pub, store, disk, wal, res, left, sch, bk, backups, stop, seen>>

Files == {"admin.json", "config.json", "logs", "operations.sqlite"}
DB == "operations.sqlite"
Absent == -1     \* no such file
Torn == -2       \* the rest of a copy that was cut off
Default == -3    \* what a start makes of a missing file
NoWal == -4
Content == {Absent, Torn, Default} \cup Nat
Data == [Files -> Content]
SnapshotOrder == <<"admin.json", "config.json", DB, "logs">>
ArchiveOrder == <<"admin.json", "config.json", "logs", DB>>   \* names.sort()
RemoveOrder == <<"admin.json", "config.json", DB, "wal", "logs">>

\* What a process that opens the database reads.
Live == [disk EXCEPT ![DB] = IF wal = NoWal THEN @ ELSE wal]
Nothing == [f \in Files |-> Absent]

Idle == [pc |-> "idle", k |-> 0, arch |-> Nothing, snap |-> Nothing, entry |-> Nothing]
NoBackup == [pc |-> "no", at |-> 0, sums |-> Nothing]
Swapping == {"apply", "drop", "reload", "clear", "undo", "again", "exit"}
Failing == {"enter", "replace", "reload", "undo", "again", "start"}
Ops == {"none", "startup", "restore", "shutdown"}

Archive == [kind : {"daily", "manual"}, sums : Data, files : Data]
Restoration == [pc : {"idle", "snapshot", "enter", "mark", "closing"} \cup Swapping,
                k : 0..5, arch : Data, snap : Data, entry : Data]
Backup == [pc : {"no", "listed", "hashed"}, at : Nat, sums : Data]
History == [writes : Nat, runs : Nat, restores : Nat, crashes : Nat, faults : Nat,
            failed : SUBSET Failing, raced : BOOLEAN, overlap : BOOLEAN, doubled : BOOLEAN]

\* Archives are numbered in the order in which they were begun; those there are at first are older.
ASSUME BackupsAssumption ==
  DOMAIN InitialBackups \subseteq Int \ (Nat \ {0}) /\ \A i \in DOMAIN InitialBackups : InitialBackups[i] \in Archive

TypeOK ==
  /\ proc \in {"down", "begin", "starting", "up", "stopping"} /\ marker \in Ops
  /\ mode \in [active : BOOLEAN, restored : BOOLEAN]
  /\ pub \in {"on", "off", "half", "lost"} /\ store \in BOOLEAN
  /\ disk \in Data /\ wal \in Nat \cup {NoWal}
  /\ res \in [Restorers -> Restoration]
  /\ sch \in [timer : BOOLEAN, timers : Nat, running : BOOLEAN]
  /\ bk \in [Makers -> Backup]
  /\ \A i \in DOMAIN backups : backups[i] \in Archive
  /\ stop \in {"no", "asked"} /\ seen \in History

Init ==
  /\ proc = "up" /\ marker = "none" /\ mode = [active |-> FALSE, restored |-> FALSE]
  /\ pub = "on" /\ store = TRUE
  /\ disk = [f \in Files |-> 0] /\ wal = NoWal
  /\ res = [r \in Restorers |-> Idle] /\ left = {}
  /\ sch = [timer |-> TRUE, timers |-> 1, running |-> FALSE]
  /\ bk = [b \in Makers |-> NoBackup] /\ backups = InitialBackups
  /\ stop = "no"
  /\ seen = [writes |-> 0, runs |-> 0, restores |-> 0, crashes |-> 0, faults |-> 0,
             failed |-> {}, raced |-> FALSE, overlap |-> FALSE, doubled |-> FALSE]

----------------------------------------------------------------------------
(* Writers.  The administration server stays up during maintenance.           *)

Raced == \E r \in Restorers : res[r].pc \in Swapping
Written(s) == [s EXCEPT !.writes = @ + 1, !.raced = @ \/ Raced]
MayWrite == proc = "up" /\ seen.writes < MaxWrites

WriteConfig ==
  /\ MayWrite /\ store
  /\ disk' = [disk EXCEPT !["config.json"] = seen.writes + 1] /\ seen' = Written(seen)
  /\ UNCHANGED <<proc, marker, mode, pub, store, wal, res, left, sch, bk, backups, stop>>

WriteLog ==
  /\ MayWrite /\ pub = "on"
  /\ disk' = [disk EXCEPT !["logs"] = seen.writes + 1] /\ seen' = Written(seen)
  /\ UNCHANGED <<proc, marker, mode, pub, store, wal, res, left, sch, bk, backups, stop>>

WriteDatabase ==
  /\ MayWrite /\ store
  /\ wal' = seen.writes + 1 /\ seen' = Written(seen)
  /\ UNCHANGED <<proc, marker, mode, pub, store, disk, res, left, sch, bk, backups, stop>>

Checkpoint ==
  /\ store /\ wal # NoWal
  /\ disk' = Live /\ wal' = NoWal
  /\ UNCHANGED <<proc, marker, mode, pub, store, res, left, sch, bk, backups, stop, seen>>

----------------------------------------------------------------------------
(* Backups and their scheduler.                                               *)

Armed(s) == [s EXCEPT !.timer = TRUE, !.timers = @ + 1]
Paused(s) == IF s.timer THEN [s EXCEPT !.timer = FALSE, !.timers = @ - 1] ELSE s
StartedAlways(s) == Armed(s)
Started(s) == IF s.timer THEN s ELSE Armed(s)

\* The callback's finally: the next run is scheduled, paused or not, unless close() was called.
Rearmed(s) == IF proc = "stopping" THEN s ELSE Armed(s)
RunEnds(s) == Rearmed([s EXCEPT !.running = FALSE])

FireTimer ==
  /\ sch.timers > 0 /\ "schedule" \in Makers /\ seen.runs < MaxRuns
  /\ seen' = [seen EXCEPT !.runs = @ + 1]
  /\ LET s == [sch EXCEPT !.timer = FALSE, !.timers = @ - 1] IN
     IF sch.running THEN sch' = Rearmed(s) /\ UNCHANGED bk
     ELSE /\ Cardinality(DOMAIN backups) < MaxBackups
          /\ sch' = [s EXCEPT !.running = TRUE]
          /\ bk' = [bk EXCEPT !["schedule"] = [pc |-> "listed", at |-> seen.runs + 1, sums |-> Live]]
  /\ UNCHANGED <<proc, marker, mode, pub, store, disk, wal, res, left, backups, stop>>

AskForBackup ==
  /\ proc = "up" /\ store /\ "admin" \in Makers /\ bk["admin"].pc = "no" /\ Cardinality(DOMAIN backups) < MaxBackups
  /\ seen.runs < MaxRuns /\ seen' = [seen EXCEPT !.runs = @ + 1]
  /\ bk' = [bk EXCEPT !["admin"] = [pc |-> "listed", at |-> seen.runs + 1, sums |-> Live]]
  /\ UNCHANGED <<proc, marker, mode, pub, store, disk, wal, res, left, sch, backups, stop>>

\* A file that was there when the files were listed has gone, or the database is closed.
Broken(b) == (bk[b].pc = "listed" /\ ~store) \/ \E f \in Files \ {DB} : bk[b].sums[f] # Absent /\ disk[f] = Absent

BackupFails(b) ==
  /\ bk[b].pc # "no" /\ Broken(b)
  /\ bk' = [bk EXCEPT ![b] = NoBackup]
  /\ sch' = IF b = "schedule" THEN RunEnds(sch) ELSE sch
  /\ UNCHANGED <<proc, marker, mode, pub, store, disk, wal, res, left, backups, stop, seen>>

\* backupTo() copies the database, then every file is hashed.
HashFiles(b) ==
  /\ bk[b].pc = "listed" /\ ~Broken(b)
  /\ bk' = [bk EXCEPT ![b] = [pc |-> "hashed", at |-> bk[b].at,
              sums |-> [f \in Files |-> IF bk[b].sums[f] = Absent THEN Absent ELSE Live[f]]]]
  /\ UNCHANGED <<proc, marker, mode, pub, store, disk, wal, res, left, sch, backups, stop, seen>>

Added(s, n, a) == [i \in DOMAIN s \cup {n} |-> IF i = n THEN a ELSE s[i]]
Without(s, gone) == [i \in DOMAIN s \ gone |-> s[i]]

\* prune(): of the daily archives the newest Keep stay.
Pruned(s) ==
  LET daily == {i \in DOMAIN s : s[i].kind = "daily"}
  IN  Without(s, {i \in daily : Cardinality({j \in daily : j > i}) >= Keep})

\* The files are read again into the zip, which is renamed into place; the database comes from its copy.
ZipFiles(b) ==
  /\ bk[b].pc = "hashed" /\ ~Broken(b)
  /\ LET sums == bk[b].sums
         zip == [kind |-> IF b = "schedule" THEN "daily" ELSE "manual", sums |-> sums,
                 files |-> [f \in Files |-> IF f = DB \/ sums[f] = Absent THEN sums[f] ELSE disk[f]]]
     IN  backups' = IF b = "schedule" THEN Pruned(Added(backups, bk[b].at, zip)) ELSE Added(backups, bk[b].at, zip)
  /\ bk' = [bk EXCEPT ![b] = NoBackup]
  /\ sch' = IF b = "schedule" THEN RunEnds(sch) ELSE sch
  /\ UNCHANGED <<proc, marker, mode, pub, store, disk, wal, res, left, stop, seen>>

DeleteBackup ==
  /\ proc = "up" /\ store
  /\ \E i \in DOMAIN backups : backups' = Without(backups, {i})
  /\ UNCHANGED <<proc, marker, mode, pub, store, disk, wal, res, left, sch, bk, stop, seen>>

----------------------------------------------------------------------------
(* BackupManager.restore and the maintenance callbacks.                       *)

Verified(a) == a.sums = a.files
Restorable(a) == Verified(a) /\ a.files["config.json"] # Absent /\ a.files[DB] # Absent
Fault(x) == x \in MayFail /\ seen.faults < MaxFaults
Failed(x) == [seen EXCEPT !.failed = @ \cup {x}]
Noted(x) == [Failed(x) EXCEPT !.faults = @ + 1]

\* The administration server answers before start() has completed its marker.
Inspect(r) ==
  /\ proc \in {"starting", "up"} /\ store /\ res[r].pc = "idle" /\ seen.restores < MaxRestores
  /\ \E i \in DOMAIN backups :
       /\ Restorable(backups[i])
       /\ res' = [res EXCEPT ![r] = [Idle EXCEPT !.pc = "snapshot", !.k = 1, !.arch = backups[i].files]]
  /\ seen' = [seen EXCEPT !.restores = @ + 1]
  /\ UNCHANGED <<proc, marker, mode, pub, store, disk, wal, left, sch, bk, backups, stop>>

\* snapshotCurrent() copies the files as they lie on disk, one by one, before maintenance begins.
SnapshotOne(r) ==
  /\ res[r].pc = "snapshot"
  /\ LET f == SnapshotOrder[res[r].k] IN
     res' = [res EXCEPT ![r].snap[f] = disk[f], ![r].k = IF @ = 4 THEN 0 ELSE @ + 1, ![r].pc = IF res[r].k = 4 THEN "enter" ELSE @]
  /\ UNCHANGED <<proc, marker, mode, pub, store, disk, wal, left, sch, bk, backups, stop, seen>>

\* enterMaintenance() and begin("restore") refuse, or find nothing under way ...
EnterReads(r) ==
  /\ res[r].pc = "enter"
  /\ res' = [res EXCEPT ![r] = IF mode.active \/ marker # "none" THEN Idle ELSE [@ EXCEPT !.pc = "mark"]]
  /\ UNCHANGED <<proc, marker, mode, pub, store, disk, wal, left, sch, bk, backups, stop, seen>>

\* ... and then write the marker and pause the scheduler.
EnterMarks(r) ==
  /\ res[r].pc = "mark"
  /\ marker' = "restore" /\ mode' = [active |-> TRUE, restored |-> FALSE]
  /\ sch' = Paused(sch)
  /\ seen' = [seen EXCEPT !.overlap = @ \/ marker # "none", !.failed = {}, !.raced = FALSE]
  /\ res' = [res EXCEPT ![r].pc = "closing"]
  /\ UNCHANGED <<proc, pub, store, disk, wal, left, bk, backups, stop>>

\* It can only close the services whose handles it has.
EnterCloses(r) ==
  /\ res[r].pc = "closing"
  /\ pub' = IF pub = "lost" THEN "lost" ELSE "off"
  /\ disk' = Live /\ wal' = NoWal /\ store' = FALSE
  /\ res' = [res EXCEPT ![r].pc = "apply", ![r].k = 0, ![r].entry = Live]
  /\ UNCHANGED <<proc, marker, mode, left, sch, bk, backups, stop, seen>>

\* Closing the telemetry, the proxy cache or the tunnel fails: enteredMaintenance
\* is still false, so nobody leaves maintenance.
EnterFails(r) ==
  /\ res[r].pc = "closing" /\ Fault("enter")
  /\ pub' \in {pub, IF pub = "lost" THEN "lost" ELSE "off"}
  /\ res' = [res EXCEPT ![r] = Idle] /\ seen' = Noted("enter")
  /\ UNCHANGED <<proc, marker, mode, store, disk, wal, left, sch, bk, backups, stop>>

\* The names of the archive that are still to be replaced, by their position.
Ahead(r) == {k \in res[r].k .. 4 : res[r].arch[ArchiveOrder[k]] # Absent}

ApplyKeepsAdmin(r) ==
  /\ res[r].pc = "apply" /\ res[r].k = 0
  /\ disk' = [disk EXCEPT !["logs"] = Absent]
  /\ res' = [res EXCEPT ![r].k = 1]
  /\ UNCHANGED <<proc, marker, mode, pub, store, wal, left, sch, bk, backups, stop, seen>>

ApplyClears(r) ==
  /\ res[r].pc = "apply" /\ res[r].k = 0
  /\ disk' = [disk EXCEPT !["logs"] = Absent]
  /\ res' = [res EXCEPT ![r].k = 1, ![r].pc = IF res[r].arch["admin.json"] = Absent THEN "drop" ELSE "apply"]
  /\ UNCHANGED <<proc, marker, mode, pub, store, wal, left, sch, bk, backups, stop, seen>>

ApplyDrops(r) ==
  /\ res[r].pc = "drop"
  /\ disk' = [disk EXCEPT !["admin.json"] = Absent]
  /\ res' = [res EXCEPT ![r].pc = "apply"]
  /\ UNCHANGED <<proc, marker, mode, pub, store, wal, left, sch, bk, backups, stop, seen>>

\* atomicReplaceFile() renames a copy into place; after the last file storage.open().
ApplyOne(r) ==
  /\ res[r].pc = "apply" /\ res[r].k > 0
  /\ \E k \in Ahead(r) :
       LET f == ArchiveOrder[k] IN
         /\ \A j \in Ahead(r) : k <= j
         /\ disk' = [disk EXCEPT ![f] = res[r].arch[f]]
         /\ res' = [res EXCEPT ![r].k = k + 1, ![r].pc = IF f = DB THEN "reload" ELSE @]
         /\ wal' = IF f = DB THEN NoWal ELSE wal
         /\ store' = (store \/ f = DB)
  /\ UNCHANGED <<proc, marker, mode, pub, left, sch, bk, backups, stop, seen>>

ToUndo(r) == [res EXCEPT ![r].pc = "clear", ![r].k = 1]

ApplyFails(r) ==
  /\ res[r].pc \in {"apply", "drop"} /\ Fault("replace")
  /\ res' = ToUndo(r) /\ seen' = Noted("replace")
  /\ UNCHANGED <<proc, marker, mode, pub, store, disk, wal, left, sch, bk, backups, stop>>

\* reloadAfterRestore() makes new services, which need the ports.
ReloadForgets(r) ==
  /\ res[r].pc \in {"reload", "again"} /\ pub = "off"
  /\ pub' = "on"
  /\ res' = [res EXCEPT ![r].pc = "exit"]
  /\ UNCHANGED <<proc, marker, mode, store, disk, wal, left, sch, bk, backups, stop, seen>>

Reload(r) ==
  /\ res[r].pc \in {"reload", "again"} /\ pub = "off"
  /\ pub' = "on" /\ mode' = [mode EXCEPT !.restored = TRUE]
  /\ res' = [res EXCEPT ![r].pc = "exit"]
  /\ UNCHANGED <<proc, marker, store, disk, wal, left, sch, bk, backups, stop, seen>>

\* It fails before it makes services or among those it starts; or it makes new ones over
\* the handles of those that an earlier, failed reload has left with the ports.
ReloadFails(r) ==
  /\ res[r].pc \in {"reload", "again"}
  /\ LET x == res[r].pc IN
     \/ Fault(x) /\ seen' = Noted(x) /\ pub' \in {pub, IF pub = "off" THEN "half" ELSE pub}
     \/ pub # "off" /\ seen' = Failed(x) /\ pub' = "lost"
  /\ IF res[r].pc = "reload"
     THEN res' = ToUndo(r) /\ store' = FALSE /\ disk' = Live /\ wal' = NoWal
     ELSE res' = [res EXCEPT ![r].pc = "exit"] /\ UNCHANGED <<store, disk, wal>>
  /\ UNCHANGED <<proc, marker, mode, left, sch, bk, backups, stop>>

\* restoreRollback() removes every file, then copies the snapshot back and opens the database.
UndoClears(r) ==
  /\ res[r].pc = "clear"
  /\ LET f == RemoveOrder[res[r].k]
         last == res[r].k = 5
     IN  /\ disk' = [g \in Files |-> IF g = f THEN Absent ELSE disk[g]]
         /\ wal' = IF f = "wal" THEN NoWal ELSE wal
         /\ res' = [res EXCEPT ![r].k = IF last THEN 1 ELSE @ + 1, ![r].pc = IF last THEN "undo" ELSE @]
  /\ UNCHANGED <<proc, marker, mode, pub, store, left, sch, bk, backups, stop, seen>>

UndoOne(r) ==
  /\ res[r].pc = "undo"
  /\ LET f == SnapshotOrder[res[r].k]
         last == res[r].k = 4
     IN  /\ disk' = [disk EXCEPT ![f] = res[r].snap[f]]
         /\ res' = [res EXCEPT ![r].k = IF last THEN 0 ELSE @ + 1, ![r].pc = IF last THEN "again" ELSE @]
         /\ store' = (store \/ last)
  /\ UNCHANGED <<proc, marker, mode, pub, wal, left, sch, bk, backups, stop, seen>>

UndoFails(r) ==
  /\ res[r].pc \in {"clear", "undo"} /\ Fault("undo")
  /\ res' = [res EXCEPT ![r].pc = "exit"] /\ seen' = Noted("undo")
  /\ UNCHANGED <<proc, marker, mode, pub, store, disk, wal, left, sch, bk, backups, stop>>

\* exitMaintenance(); when complete() refuses, the directories stay behind.
Leaves(r, ends) ==
  /\ res[r].pc = "exit" /\ ~(mode.restored /\ proc = "stopping")
  /\ sch' = IF mode.restored THEN Started(sch) ELSE sch
  /\ mode' = IF ends THEN [active |-> FALSE, restored |-> FALSE] ELSE mode
  /\ marker' = IF marker = "restore" THEN "none" ELSE marker
  /\ left' = IF marker \in {"none", "restore"} THEN left ELSE left \cup {res[r].snap}
  /\ seen' = [seen EXCEPT !.doubled = @ \/ (mode.restored /\ sch.running /\ ~sch.timer)]
  /\ res' = [res EXCEPT ![r] = Idle]
  /\ UNCHANGED <<proc, pub, store, disk, wal, bk, backups, stop>>

ExitIfRestored(r) == Leaves(r, mode.restored)
Exit(r) == Leaves(r, TRUE)

\* start() throws when close() was faster: nothing else of exitMaintenance() happens.
ExitRefused(r) ==
  /\ res[r].pc = "exit" /\ mode.restored /\ proc = "stopping"
  /\ left' = left \cup {res[r].snap}
  /\ res' = [res EXCEPT ![r] = Idle]
  /\ UNCHANGED <<proc, marker, mode, pub, store, disk, wal, sch, bk, backups, stop, seen>>

----------------------------------------------------------------------------
(* The process: start, stop and crash.                                        *)

RecoverKeepsMarker ==
  /\ proc = "down"
  /\ left' = IF marker = "none" THEN left ELSE {}
  /\ proc' = "begin"
  /\ UNCHANGED <<marker, mode, pub, store, disk, wal, res, sch, bk, backups, stop, seen>>

Recover ==
  /\ proc = "down"
  /\ left' = IF marker = "none" THEN left ELSE {}
  /\ marker' = "none" /\ proc' = "begin"
  /\ UNCHANGED <<mode, pub, store, disk, wal, res, sch, bk, backups, stop, seen>>

Begin ==
  /\ proc = "begin"
  /\ IF marker = "none" THEN marker' = "startup" /\ proc' = "starting"
     ELSE proc' = "down" /\ UNCHANGED marker
  /\ UNCHANGED <<mode, pub, store, disk, wal, res, left, sch, bk, backups, stop, seen>>

\* What a start must be able to read; admin.json only while the database has no users.
Loadable ==
  /\ disk["config.json"] # Torn /\ disk[DB] # Torn
  /\ disk["admin.json"] = Torn => disk[DB] \notin {Absent, Default}

\* config.load() and storage.open() make what is missing; started is set, the marker stays a while.
Made(fs) == [f \in Files |-> IF f \in fs /\ disk[f] = Absent THEN Default ELSE disk[f]]

Serve ==
  /\ proc = "starting" /\ pub = "off" /\ Loadable
  /\ disk' = Made({"config.json", DB})
  /\ store' = TRUE /\ pub' = "on" /\ sch' = Armed(sch)
  /\ UNCHANGED <<proc, marker, mode, wal, res, left, bk, backups, stop, seen>>

\* What was made until then stays.
StartFails ==
  /\ proc = "starting" /\ pub = "off"
  /\ \/ /\ ~Loadable /\ UNCHANGED seen
        /\ disk' = Made({f \in {"config.json", DB} : Torn \notin {disk["config.json"], disk[f]}})
     \/ /\ Loadable /\ Fault("start") /\ seen' = Noted("start")
        /\ disk' \in {disk, Made({"config.json"}), Made({"config.json", DB})}
  /\ proc' = "down"
  /\ UNCHANGED <<marker, mode, pub, store, wal, res, left, sch, bk, backups, stop>>

StartCompletes ==
  /\ proc = "starting" /\ pub = "on"
  /\ marker' = IF marker = "startup" THEN "none" ELSE marker
  /\ proc' = "up"
  /\ UNCHANGED <<mode, pub, store, disk, wal, res, left, sch, bk, backups, stop, seen>>

\* close() reads the marker; when that refuses it, nothing has changed.
StopAsked ==
  /\ proc = "up" /\ stop = "no" /\ marker = "none"
  /\ stop' = "asked"
  /\ UNCHANGED <<proc, marker, mode, pub, store, disk, wal, res, left, sch, bk, backups, seen>>

StopMarks ==
  /\ proc = "up" /\ stop = "asked"
  /\ marker' = "shutdown" /\ proc' = "stopping" /\ stop' = "no"
  /\ sch' = Paused(sch)
  /\ seen' = [seen EXCEPT !.overlap = @ \/ marker # "none"]
  /\ UNCHANGED <<mode, pub, store, disk, wal, res, left, bk, backups>>

\* What ends with the process, and what is remembered of it; the directories of its
\* restores are left behind.
Forgotten == [seen EXCEPT !.failed = {}, !.raced = FALSE, !.overlap = FALSE, !.doubled = FALSE]

Gone ==
  /\ proc' = "down" /\ mode' = [active |-> FALSE, restored |-> FALSE]
  /\ pub' = "off" /\ store' = FALSE /\ stop' = "no"
  /\ left' = left \cup {res[r].snap : r \in {q \in Restorers : res[q].pc # "idle"}}
  /\ res' = [r \in Restorers |-> Idle]
  /\ sch' = [timer |-> FALSE, timers |-> 0, running |-> FALSE]
  /\ bk' = [b \in Makers |-> NoBackup]
  /\ UNCHANGED backups

Stopped ==
  /\ proc = "stopping"
  /\ Gone
  /\ marker' = IF marker = "shutdown" THEN "none" ELSE marker
  /\ disk' = Live /\ wal' = NoWal
  /\ seen' = Forgotten

\* A crash may cut off the copy that restoreRollback() is making.
Copying(r) == res[r].pc = "undo" /\ res[r].snap[SnapshotOrder[res[r].k]] # Absent
CutOff == {disk} \cup {[disk EXCEPT ![SnapshotOrder[res[r].k]] = Torn] : r \in {q \in Restorers : Copying(q)}}

Crash ==
  /\ proc # "down" /\ seen.crashes < MaxCrashes
  /\ Gone /\ disk' \in CutOff
  /\ seen' = [Forgotten EXCEPT !.crashes = @ + 1]
  /\ UNCHANGED <<marker, wal>>

----------------------------------------------------------------------------
RestoreStep(r) ==
  \/ SnapshotOne(r) \/ EnterReads(r) \/ EnterMarks(r) \/ EnterCloses(r) \/ EnterFails(r)
  \/ ApplyClears(r) \/ ApplyDrops(r) \/ ApplyOne(r) \/ ApplyFails(r) \/ Reload(r) \/ ReloadFails(r)
  \/ UndoClears(r) \/ UndoOne(r) \/ UndoFails(r) \/ Exit(r) \/ ExitRefused(r)

BackupStep(b) == BackupFails(b) \/ HashFiles(b) \/ ZipFiles(b)
ProcessStep == Recover \/ Begin \/ Serve \/ StartFails \/ StartCompletes \/ StopMarks \/ Stopped
WriteStep == WriteConfig \/ WriteLog \/ WriteDatabase

Next ==
  \/ WriteStep \/ Checkpoint \/ FireTimer \/ AskForBackup \/ DeleteBackup
  \/ ProcessStep \/ StopAsked \/ Crash
  \/ \E b \in Makers : BackupStep(b)
  \/ \E r \in Restorers : Inspect(r) \/ RestoreStep(r)

\* A call that was made goes on; a process that is down is started again.
Spec == Init /\ [][Next]_vars /\ WF_vars(ProcessStep) /\ \A r \in Restorers : WF_vars(RestoreStep(r))

----------------------------------------------------------------------------
(* Properties.                                                                *)

\* A restore that ends leaves the archive's files or those it copied before, whatever
\* failed on the way, unless the rollback itself fails, somebody writes meanwhile, or
\* two operations began at once.
AllOrNothing ==
  \A r \in Restorers :
    res[r].pc = "exit" /\ ~seen.raced /\ ~seen.overlap /\ "undo" \notin seen.failed
      => Live \in {res[r].arch, res[r].snap}

\* Restores under way inside maintenance.
Inside == {r \in Restorers : res[r].pc \in {"closing"} \cup Swapping}

\* While files are being replaced the marker on disk says so, so that a crash is recognised,
\* and only one restore replaces them: unless two operations have read "nothing under way"
\* before either wrote its marker.
MarkerCoversSwap ==
  ~seen.overlap => Inside = {} \/ (marker = "restore" /\ Cardinality(Inside) = 1)

\* Outside maintenance the services answer and a scheduled backup is armed or running: after
\* a restore, after a replacement or a reload that failed and was rolled back, and while a
\* restore has only begun.  Not when the rollback itself failed, or the reload at its end,
\* which a reload that failed among the listeners makes certain; nor when two operations
\* began at once.
ServesOutsideMaintenance ==
  proc = "up" /\ ~mode.active /\ ~seen.overlap /\ seen.failed \cap {"undo", "again"} = {}
    => store /\ pub = "on" /\ (sch.timer \/ sch.running)

\* Daily backups keep one loop of timer and run, however runs, restores and stops interleave,
\* unless maintenance ended while a run that it had not waited for was still going on.
OneBackupLoop == sch.timers + (IF sch.running THEN 1 ELSE 0) <= 1 \/ seen.doubled

\* Maintenance comes to an end, by success, failure or the end of the process, unless
\* entering it was what failed.
MaintenanceEnds == mode.active ~> (~mode.active \/ "enter" \in seen.failed)

\* Wherever a process died, a later start serves again, unless a rollback was cut off in a
\* file a start cannot do without: the configuration, the database, or the legacy admin.json
\* while the users are not copied back yet.
StartsAgain == proc = "down" ~> (proc = "up" \/ ~Loadable)

\* The marker on disk, the mode in memory, the services and the scheduler agree, with the
\* exceptions that the two parts name.
Consistent == TypeOK /\ MarkerCoversSwap /\ ServesOutsideMaintenance

\* A rollback brings back the files as they were on entering maintenance (README.md:64).
\* Not true of this code (README, section 6); no run checks it.
RollbackRestoresEntry ==
  \A r \in Restorers :
    res[r].pc = "again" /\ res[r].k = 0 /\ ~seen.raced => Live = res[r].entry

\* Recovery after an interrupted restore keeps the last usable data (question.md:235): the
\* files are whole, or the rollback snapshot stays.
\* Not true of this code (README, section 6); no run checks it.
LastUsableDataKept ==
  [][proc = "down" /\ proc' = "begin" /\ marker = "restore"
       => Live \in left \cup {backups[i].files : i \in DOMAIN backups} \/ left \subseteq left']_vars
=============================================================================
