----------------------------- MODULE Telemetry ------------------------------
(* Telemetry of observability/: every event is counted, logged and, if it is  *)
(* an alert, queued for the webhook; a timer flushes the counters to SQLite   *)
(* and posts the due webhook jobs.  Flushes may overlap: nothing waits for    *)
(* the one before, and a post may take longer than the interval.  The         *)
(* maintenance mode of runtime.js closes the pipeline and then the storage,   *)
(* and the process may die; jobs and samples are in SQLite and remain (what a *)
(* restored archive puts in their place is the module Restore's).             *)
(*                                                                            *)
(* Times are relative: a job has an age and a wait, both of which stop        *)
(* counting where the code no longer tells them apart.                        *)
EXTENDS Naturals, FiniteSets, Sequences, SequencesExt

CONSTANTS Events,              \* what is recorded
          Alerts, Counted,     \* ALERT_KINDS, and the kinds the metrics know
          Flushes,             \* flushes under way at once
          DeadAfter, MaxDelay, \* DEAD_LETTER_AFTER_MS, MAX_RETRY_DELAY_MS, in delays of a first retry
          MaxFaults            \* bound: maintenances, crashes and acts of administrators

ASSUME TelemetryAssumption ==
  /\ IsFiniteSet(Events) /\ Alerts \subseteq Events /\ Counted \subseteq Events
  /\ DeadAfter \in Nat \ {0} /\ MaxDelay \in Nat \ {0}

VARIABLES window,   \* events counted since the last drain
          stored,   \* per event: how often it is in the samples of SQLite
          logger,   \* which logger the pipeline has, the first one or a later one
          queue,    \* log writes that have not settled, in order, each with its logger
          poisoned, \* loggers whose own queue is a rejected promise
          log,      \* the file
          jobs,     \* webhook_jobs
          webhook,  \* delivery is configured
          flush,    \* per flush: where it is
          mode,     \* "open", or how far the pipeline is closed for maintenance
          waits,    \* log writes the closing waits for
          past      \* history: order of events, what was received, lost, and bounds

telemetryVars == <<window, stored, logger, queue, poisoned, log, jobs, webhook, flush, mode, waits, past>>

Smaller(a, b) == IF a < b THEN a ELSE b
Rest == [pc |-> "rest", waits |-> {}, due |-> <<>>, lag |-> 0]
NoJob == [state |-> "none", attempts |-> 0, wait |-> 0, age |-> 0]
Item(e) == [event |-> e, logger |-> logger]
StorageOpen == mode # "restoring"

TelemetryInit ==
  /\ window = {} /\ stored = [e \in Events |-> 0]
  /\ logger = 0 /\ queue = <<>> /\ poisoned = {} /\ log = <<>>
  /\ jobs = [e \in Events |-> NoJob] /\ webhook = TRUE
  /\ flush = [f \in Flushes |-> Rest] /\ mode = "open" /\ waits = {}
  /\ past = [order |-> <<>>, received |-> {}, lost |-> {}, faults |-> 0]

----------------------------------------------------------------------------
(* Recording and logging.                                                     *)

Enqueued(e) == [jobs EXCEPT ![e] = [NoJob EXCEPT !.state = "pending"]]
Observed(e) == window \cup ({e} \cap Counted)

Record(e) ==
  /\ ~\E i \in DOMAIN past.order : past.order[i].event = e
  /\ window' = Observed(e) /\ queue' = Append(queue, Item(e))
  /\ jobs' = IF e \in Alerts /\ webhook /\ StorageOpen THEN Enqueued(e) ELSE jobs
  /\ past' = [past EXCEPT !.order = Append(@, Item(e))]
  /\ UNCHANGED <<stored, logger, poisoned, log, webhook, flush, mode, waits>>

\* The writes of a logger are chained; one that fails rejects the logger's own
\* queue for good.  An earlier logger may still be writing.
AnyWrite == DOMAIN queue
NextWrite == {i \in DOMAIN queue : \A j \in 1 .. i - 1 : queue[j].logger # queue[i].logger}
WriteLog ==
  /\ \E i \in NextWrite :
       /\ queue' = RemoveAt(queue, i)
       /\ \/ queue[i].logger \notin poisoned /\ log' = Append(log, queue[i]) /\ UNCHANGED poisoned
          \/ queue[i].logger \notin poisoned /\ poisoned' = poisoned \cup {queue[i].logger} /\ UNCHANGED log
          \/ queue[i].logger \in poisoned /\ UNCHANGED <<poisoned, log>>
  /\ UNCHANGED <<window, stored, logger, jobs, webhook, flush, mode, waits, past>>

----------------------------------------------------------------------------
(* Flushes.                                                                   *)

\* The timer fires; the log writes chained so far are awaited.
FlushBegins(f) ==
  /\ mode = "open" /\ flush[f].pc = "rest"
  /\ flush' = [flush EXCEPT ![f] = [Rest EXCEPT !.pc = "wait", !.waits = ToSet(queue)]]
  /\ UNCHANGED <<window, stored, logger, queue, poisoned, log, jobs, webhook, mode, waits, past>>

\* drainSamples and recordMetricSamples: counted in SQLite, or lost when it cannot be written.
Recorded == [e \in Events |-> IF e \in window THEN stored[e] + 1 ELSE stored[e]]
NotDrained(written) ==
  /\ UNCHANGED window
  /\ stored' = IF written THEN Recorded ELSE stored
  /\ past' = IF written THEN past ELSE [past EXCEPT !.lost = @ \cup window]
Drain(written) ==
  /\ window' = {}
  /\ stored' = IF written THEN Recorded ELSE stored
  /\ past' = IF written THEN past ELSE [past EXCEPT !.lost = @ \cup window]

\* listDueWebhooks, with what #deliver takes from the rows.  How long a job has
\* been due is not in the model: it may be the first.
DueJobs == {e \in Events : jobs[e].state = "pending" /\ jobs[e].wait = 0}
ExpiredNever(job) == FALSE
Expired(job) == job.age >= DeadAfter
DueOrders == {order \in [1 .. Cardinality(DueJobs) -> DueJobs] : IsInjective(order)}
DueList(order) ==
  [i \in DOMAIN order |-> [event |-> order[i], attempts |-> jobs[order[i]].attempts, expired |-> Expired(jobs[order[i]])]]

FlushDrains(f) ==
  /\ flush[f].pc = "wait" /\ flush[f].waits \cap ToSet(queue) = {}
  /\ Drain(StorageOpen)
  /\ \E order \in DueOrders :
       flush' = [flush EXCEPT ![f] = IF webhook /\ StorageOpen /\ DueJobs # {}
                                     THEN [Rest EXCEPT !.pc = "post", !.due = DueList(order)] ELSE Rest]
  /\ UNCHANGED <<logger, queue, poisoned, log, jobs, webhook, mode, waits>>

\* #deliver: what the row becomes, from the job as it was listed.
Delay[attempts \in 0 .. MaxDelay] == IF attempts <= 1 THEN 1 ELSE Smaller(2 * Delay[attempts - 1], MaxDelay)
Delivered(job, due) == [job EXCEPT !.state = "delivered", !.attempts = Smaller(due.attempts + 1, MaxDelay)]
Failed(job, due, lag) ==
  LET attempts == Smaller(due.attempts + 1, MaxDelay) IN
  IF due.expired THEN [job EXCEPT !.state = "dead-letter", !.attempts = attempts]
  ELSE [job EXCEPT !.state = "pending", !.attempts = attempts,
                   !.wait = IF Delay[attempts] > lag THEN Delay[attempts] - lag ELSE 0]

Updated(e, row) == IF StorageOpen THEN [jobs EXCEPT ![e] = row] ELSE jobs

\* The receiver takes the post or not, and says so or not; a row that cannot be
\* written ends the whole flush.
Answers(taken) == IF taken THEN BOOLEAN ELSE {FALSE}
Answered(f, taken) ==
  /\ flush[f].pc = "post"
  /\ LET due == Head(flush[f].due)
         e == due.event
         rest == Tail(flush[f].due) IN
     \E ok \in Answers(taken) :
       /\ jobs' = Updated(e, IF ok THEN Delivered(jobs[e], due) ELSE Failed(jobs[e], due, flush[f].lag))
       /\ flush' = [flush EXCEPT ![f] = IF rest = <<>> \/ ~StorageOpen THEN Rest ELSE [@ EXCEPT !.due = rest]]
       /\ past' = IF taken THEN [past EXCEPT !.received = @ \cup {e}] ELSE past
  /\ UNCHANGED <<window, stored, logger, queue, poisoned, log, webhook, mode, waits>>

\* An administrator sends a job again, or turns delivery on or off.
Retry(e) ==
  /\ past.faults < MaxFaults /\ webhook /\ StorageOpen /\ jobs[e].state # "none"
  /\ jobs' = [jobs EXCEPT ![e] = [@ EXCEPT !.state = "pending", !.attempts = 0, !.wait = 0]]
  /\ past' = [past EXCEPT !.faults = @ + 1]
  /\ UNCHANGED <<window, stored, logger, queue, poisoned, log, webhook, flush, mode, waits>>
SetWebhook ==
  /\ past.faults < MaxFaults
  /\ webhook' = ~webhook /\ past' = [past EXCEPT !.faults = @ + 1]
  /\ UNCHANGED <<window, stored, logger, queue, poisoned, log, jobs, flush, mode, waits>>

\* The delay of a first retry passes.
Tick ==
  /\ jobs' = [e \in Events |-> IF jobs[e].state = "none" THEN jobs[e]
                               ELSE [jobs[e] EXCEPT !.age = Smaller(@ + 1, DeadAfter), !.wait = IF @ = 0 THEN 0 ELSE @ - 1]]
  /\ flush' = [f \in Flushes |-> IF flush[f].pc # "post" THEN flush[f] ELSE [flush[f] EXCEPT !.lag = Smaller(@ + 1, MaxDelay)]]
  /\ UNCHANGED <<window, stored, logger, queue, poisoned, log, webhook, mode, waits, past>>

----------------------------------------------------------------------------
(* Maintenance and crashes.                                                   *)

\* close: the timer is cancelled, flushes under way go on.
CloseBegins ==
  /\ mode = "open" /\ past.faults < MaxFaults
  /\ mode' = "closing" /\ waits' = ToSet(queue)
  /\ past' = [past EXCEPT !.faults = @ + 1]
  /\ UNCHANGED <<window, stored, logger, queue, poisoned, log, jobs, webhook, flush>>
CloseDrains ==
  /\ mode = "closing" /\ waits \cap ToSet(queue) = {}
  /\ Drain(TRUE)
  /\ mode' = "logger" /\ waits' = {queue[i] : i \in {j \in NextWrite : queue[j].logger = logger}}
  /\ UNCHANGED <<logger, queue, poisoned, log, jobs, webhook, flush>>
\* A rejected logger queue rejects the closing, and enterMaintenance with it.
LoggerCloses ==
  /\ mode = "logger" /\ waits \cap ToSet(queue) = {}
  /\ mode' = (IF logger \in poisoned THEN "stuck" ELSE "closed") /\ waits' = {}
  /\ UNCHANGED <<window, stored, logger, queue, poisoned, log, jobs, webhook, flush, past>>
StorageCloses ==
  /\ mode = "closed" /\ mode' = "restoring"
  /\ UNCHANGED <<window, stored, logger, queue, poisoned, log, jobs, webhook, flush, waits, past>>
\* reloadAfterRestore: storage open, a new pipeline and logger.
Reload ==
  /\ mode = "restoring" /\ mode' = "open" /\ logger' = logger + 1
  /\ poisoned' = poisoned \cap {queue[i].logger : i \in DOMAIN queue}
  /\ UNCHANGED <<window, stored, queue, log, jobs, webhook, flush, waits, past>>

Crash ==
  /\ past.faults < MaxFaults
  /\ window' = {} /\ queue' = <<>> /\ poisoned' = {}
  /\ flush' = [f \in Flushes |-> Rest] /\ mode' = "open" /\ waits' = {}
  /\ past' = [past EXCEPT !.faults = @ + 1, !.lost = @ \cup window]
  /\ UNCHANGED <<stored, logger, log, jobs, webhook>>

FlushStep(f) == FlushBegins(f) \/ FlushDrains(f) \/ \E taken \in BOOLEAN : Answered(f, taken)
Closing == CloseDrains \/ LoggerCloses \/ StorageCloses \/ Reload
TelemetryNext ==
  \/ WriteLog \/ Closing \/ (\E f \in Flushes : FlushStep(f))
  \/ (\E e \in Events : Record(e) \/ Retry(e))
  \/ SetWebhook \/ Tick \/ CloseBegins \/ Crash

\* A post is answered or times out, disk work ends, the timer fires again when
\* a flush is over, and time passes.
TelemetryFairness ==
  /\ WF_telemetryVars(WriteLog) /\ WF_telemetryVars(Closing) /\ WF_telemetryVars(Tick)
  /\ \A f \in Flushes : WF_telemetryVars(FlushStep(f))
TelemetrySpec == TelemetryInit /\ [][TelemetryNext]_telemetryVars /\ TelemetryFairness

----------------------------------------------------------------------------
(* Properties.                                                                *)

\* Types, for the jobs and the modes.
TelemetryTypeOK ==
  /\ jobs \in [Events -> [state : {"none", "pending", "delivered", "dead-letter"}, attempts : 0 .. MaxDelay,
                        wait : 0 .. MaxDelay, age : 0 .. DeadAfter]]
  /\ window \subseteq Events /\ stored \in [Events -> Nat]
  /\ mode \in {"open", "closing", "logger", "closed", "restoring", "stuck"}

\* A job that counts as delivered was taken by the receiver, however late the
\* answers of overlapping flushes come.
DeliveredIsTrue == \A e \in Events : jobs[e].state = "delivered" => e \in past.received

\* A dead letter is a day old: until then every failure is followed by a retry.
DeadAfterADay == \A e \in Events : jobs[e].state = "dead-letter" => jobs[e].age = DeadAfter

\* Every event of a counted kind is counted once: in the window, in SQLite, or lost by a crash or
\* a closed storage, whichever flushes and closings drain at the same time.
CountedOnce ==
  \A e \in Counted : stored[e] + (IF e \in window THEN 1 ELSE 0) + (IF e \in past.lost THEN 1 ELSE 0)
                    = Cardinality({i \in DOMAIN past.order : past.order[i].event = e})

\* What the storage says of alerts and counts is what happened to them.
StorageIsTrue == TelemetryTypeOK /\ DeliveredIsTrue /\ DeadAfterADay /\ CountedOnce

\* The log has the events of a pipeline in the order in which they happened,
\* each at most once, whichever writes failed.
LogInOrder ==
  \A i, j \in DOMAIN log : i < j /\ log[i].logger = log[j].logger =>
    \E k, l \in DOMAIN past.order : k < l /\ log[i] = past.order[k] /\ log[j] = past.order[l]

\* An alert is delivered or becomes a dead letter, unless delivery is turned off
\* or a failed closing has stopped the timer.
AlertsSettle ==
  \A e \in Alerts : jobs[e].state = "pending" ~> (jobs[e].state \in {"delivered", "dead-letter"} \/ ~webhook \/ mode = "stuck")

\* Maintenance is entered whatever failures of telemetry there were.
\* Not true of this code (README, section 6); no run checks it.
MaintenanceEntered == mode # "stuck"
=============================================================================
