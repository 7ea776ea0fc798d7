--------------------------- MODULE MonitorSchedule ---------------------------
(***************************************************************************)
(* Recurring monitors (monitors.py): the cron job that launches one        *)
(* FindAll task per due occurrence and dispatches queued ones again, the   *)
(* finalization that records a completed task as a run and alerts the      *)
(* webhook, and the requests that pause, resume and record runs by hand    *)
(* (main.py).  What a worker does inside a task is in TaskLifecycle; here  *)
(* a task is queued, running or ended.                                     *)
(*                                                                         *)
(* The cron job, pause and resume hold the row lock of the monitor and are *)
(* one step each; finalize_monitor_task and create_monitor_run read the    *)
(* monitor and its last run without a lock and commit in a later step.     *)
(***************************************************************************)
EXTENDS Naturals, FiniteSets

CONSTANTS Monitors,     \* monitor identifiers
          Alerting,     \* the monitors that have a webhook
          Interval,     \* interval_minutes, in ticks
          Horizon,      \* bound: the last tick
          Contents,     \* what the evidence of a task may hash to
          MaxAttempts,  \* the attempt at which retry_task refuses
          Faults        \* what may go wrong, see AllFaults

(***************************************************************************)
(* late_cron: occurrences become due while the cron job does not run       *)
(* overrun:   a task is not over when the next occurrence is due           *)
(* redis:     Redis loses jobs, or an enqueue raises and ends the cron job *)
(* crash:     a worker dies between completing a task and its last commit  *)
(* manual:    clients pause, resume and record runs themselves             *)
(***************************************************************************)
AllFaults == {"late_cron", "overrun", "redis", "crash", "manual"}

ASSUME MonitorAssumption ==
    /\ Alerting \subseteq Monitors
    /\ Interval \in Nat \ {0}
    /\ "none" \notin Contents
    /\ Horizon \in Nat
    /\ MaxAttempts \in Nat \ {0}
    /\ Faults \subseteq AllFaults

VARIABLES now,        \* the clock
          active,     \* Monitor.active
          nextRun,    \* Monitor.next_run_at
          task,       \* status of the task of an occurrence, "absent" before
          attempt,    \* its attempt
          hashes,     \* what its retained evidence hashes to
          toEnqueue,  \* tasks the cron job has committed or found queued and
                      \*   has yet to enqueue
          queue,      \* tasks with a job in Redis
          phase,      \* where the finalization of a completed task stands
          read,       \* what an open finalization has read
          begun,      \* finalizations and manual runs begun so far
          manual,     \* what an open create_monitor_run request has read
          runs,       \* MonitorRun rows
          alerts      \* webhook requests sent for the run of a task

vars == <<now, active, nextRun, task, attempt, hashes, toEnqueue, queue, phase,
          read, begun, manual, runs, alerts>>

monitorVars  == <<active, nextRun>>
taskVars     == <<task, attempt, hashes>>
queueVars    == <<toEnqueue, queue>>
finalizeVars == <<phase, read, begun>>
runVars      == <<runs, alerts>>

----------------------------------------------------------------------------
(* An occurrence is a monitor and the time it was scheduled for: the pair  *)
(* the unique constraint on research_tasks is about. *)

Occurrences == Monitors \X (1 .. Horizon + Interval)

MonitorOf(o) == o[1]
ScheduledFor(o) == o[2]

Launched == {o \in Occurrences : task[o] # "absent"}

Over(o) == task[o] \in {"completed", "partial", "cancelled"}
           /\ phase[o] \in {"none", "over"}

Due == {m \in Monitors : active[m] /\ nextRun[m] =< now}

(* cancelled is also the task whose cancellation no job has ended yet:     *)
(* neither is dispatched again, retried or recorded. *)
TaskStatus == {"absent", "queued", "running", "completed", "partial",
               "cancelled"}

(* none       the task has not completed                                   *)
(* completed  before finalize_monitor_task                                 *)
(* recording  it has read, and not yet inserted the run                    *)
(* posting    the run is committed, before deliver_webhook                 *)
(* delivered, failed, not_required   its result, not yet committed         *)
(* over       nobody finalizes the task any more                           *)
Phase == {"none", "completed", "recording", "posting", "delivered", "failed",
          "not_required", "over"}

NoRead == [previous |-> "none", nextRun |-> 0, created |-> 0]

NoManual == [posting |-> FALSE]

Init ==
    /\ now = 0
    /\ active = [m \in Monitors |-> TRUE]
    /\ nextRun = [m \in Monitors |-> Interval]
    /\ task = [o \in Occurrences |-> "absent"]
    /\ attempt = [o \in Occurrences |-> 1]
    /\ hashes = [o \in Occurrences |-> "none"]
    /\ toEnqueue = {}
    /\ queue = {}
    /\ phase = [o \in Occurrences |-> "none"]
    /\ read = [o \in Occurrences |-> NoRead]
    /\ begun = 0
    /\ manual = NoManual
    /\ runs = {}
    /\ alerts = [o \in Occurrences |-> 0]

----------------------------------------------------------------------------
(* The cron job: launch_due_monitors *)

(* The first scheduled time after now, a whole number of intervals after   *)
(* the occurrence: missed occurrences are skipped. *)
NextAfterNow_NotAdvanced(scheduled) == scheduled

NextAfterNow(scheduled) ==
    scheduled + Interval * ((now - scheduled) \div Interval + 1)

Pending_None == {}

Pending == {o \in Occurrences : task[o] = "queued"}

(* All due occurrences are launched in one transaction, with the queued    *)
(* tasks of any monitor dispatched again. *)
LaunchDueMonitors ==
    LET created == {<<m, nextRun[m]>> : m \in Due} IN
    /\ toEnqueue = {}
    /\ created \cap Launched = {}
    /\ task' = [o \in Occurrences |-> IF o \in created THEN "queued" ELSE task[o]]
    /\ nextRun' = [m \in Monitors |->
                     IF m \in Due THEN NextAfterNow(nextRun[m]) ELSE nextRun[m]]
    /\ toEnqueue' = Pending \cup created
    /\ UNCHANGED <<now, manual, active, attempt, hashes, queue, finalizeVars,
                   runVars>>

(* If one occurrence has a task already its insert violates the unique     *)
(* constraint: the transaction rolls back, and nothing is dispatched for   *)
(* the other monitors either. *)
LaunchRollsBack ==
    /\ toEnqueue = {}
    /\ {<<m, nextRun[m]>> : m \in Due} \cap Launched # {}
    /\ UNCHANGED vars

Enqueue(o) ==
    /\ o \in toEnqueue
    /\ toEnqueue' = toEnqueue \ {o}
    /\ queue' = queue \cup {o}
    /\ UNCHANGED <<now, manual, monitorVars, taskVars, finalizeVars, runVars>>

(* enqueue raises, or the process dies: the rest is not enqueued. *)
EnqueueFails ==
    /\ "redis" \in Faults
    /\ toEnqueue # {}
    /\ toEnqueue' = {}
    /\ UNCHANGED <<now, manual, monitorVars, taskVars, queue, finalizeVars,
                   runVars>>

LoseJobs ==
    /\ "redis" \in Faults
    /\ queue # {}
    /\ queue' = {}
    /\ UNCHANGED <<now, manual, monitorVars, taskVars, toEnqueue,
                   finalizeVars, runVars>>

----------------------------------------------------------------------------
(* A worker runs the task: TaskLifecycle in three steps *)

StartTask(o) ==
    /\ o \in queue
    /\ queue' = queue \ {o}
    /\ task' = [task EXCEPT ![o] = IF @ = "queued" THEN "running" ELSE @]
    /\ UNCHANGED <<now, manual, monitorVars, attempt, hashes, toEnqueue,
                   finalizeVars,
                   runVars>>

CompleteTask(o) ==
    /\ task[o] = "running"
    /\ task' = [task EXCEPT ![o] = "completed"]
    /\ \E content \in Contents : hashes' = [hashes EXCEPT ![o] = content]
    /\ phase' = [phase EXCEPT ![o] = "completed"]
    /\ UNCHANGED <<now, manual, monitorVars, attempt, queueVars, read, begun,
                   runVars>>

EndTask(o) ==
    /\ task[o] = "running"
    /\ \E outcome \in {"partial", "cancelled"} :
          task' = [task EXCEPT ![o] = outcome]
    /\ UNCHANGED <<now, manual, monitorVars, attempt, hashes, queueVars,
                   finalizeVars,
                   runVars>>

(* The last launched occurrence of its monitor, before the next is due. *)
Current(o) ==
    /\ now < nextRun[MonitorOf(o)]
    /\ \A p \in Launched :
          MonitorOf(p) = MonitorOf(o) => ScheduledFor(p) =< ScheduledFor(o)

(* retry_task.  A new attempt of an old occurrence is an overrun. *)
RetryTask(o) ==
    /\ task[o] = "partial"
    /\ attempt[o] < MaxAttempts
    /\ "overrun" \in Faults \/ Current(o)
    /\ task' = [task EXCEPT ![o] = "queued"]
    /\ attempt' = [attempt EXCEPT ![o] = @ + 1]
    /\ queue' = queue \cup {o}
    /\ UNCHANGED <<now, manual, monitorVars, hashes, toEnqueue, finalizeVars,
                   runVars>>

(* cancel_task of a task no worker has claimed; of a claimed one it is an  *)
(* outcome of EndTask.  The job it enqueues finds nothing to do. *)
CancelQueuedTask(o) ==
    /\ task[o] = "queued"
    /\ task' = [task EXCEPT ![o] = "cancelled"]
    /\ queue' = queue \cup {o}
    /\ UNCHANGED <<now, manual, monitorVars, attempt, hashes, toEnqueue,
                   finalizeVars, runVars>>

----------------------------------------------------------------------------
(* finalize_monitor_task and record_monitor_run *)

RunOf(o) == {r \in runs : r.task = o}

RunsOf(m) == {r \in runs : r.monitor = m}

PreviousHashes_Oldest(m) ==
    IF RunsOf(m) = {} THEN "none"
    ELSE (CHOOSE r \in RunsOf(m) :
            \A q \in RunsOf(m) : r.created =< q.created).hashes

(* order by created_at desc limit 1: created_at is the time the            *)
(* transaction of the run began. *)
PreviousHashes(m) ==
    IF RunsOf(m) = {} THEN "none"
    ELSE (CHOOSE r \in RunsOf(m) :
            \A q \in RunsOf(m) : q.created =< r.created).hashes

Changed(previous, current) == previous # "none" /\ previous # current

Run(m, o, previous, created, observed) ==
    [monitor  |-> m,
     task     |-> o,
     hashes   |-> hashes[o],
     changed  |-> Changed(previous, hashes[o]),
     webhook  |-> IF Changed(previous, hashes[o]) /\ m \in Alerting
                    THEN "pending" ELSE "not_required",
     nextRun  |-> observed + Interval,
     created  |-> created]

MoveTo(o, label) == phase' = [phase EXCEPT ![o] = label]

AlreadyRecorded_AnyRunOfMonitor(o) == RunsOf(MonitorOf(o)) # {}

AlreadyRecorded(o) == RunOf(o) # {}

BeginFinalize(o) ==
    LET m == MonitorOf(o) IN
    /\ phase[o] = "completed"
    /\ \/ /\ AlreadyRecorded(o)
          /\ MoveTo(o, "over")
          /\ UNCHANGED <<begun, read>>
       \/ /\ ~ AlreadyRecorded(o)
          /\ MoveTo(o, "recording")
          /\ begun' = begun + 1
          /\ read' = [read EXCEPT ![o] = [previous |-> PreviousHashes(m),
                                         nextRun  |-> nextRun[m],
                                         created  |-> begun + 1]]
    /\ UNCHANGED <<now, manual, monitorVars, taskVars, queueVars, runVars>>

(* The assignment of monitor.next_run_at is written only if it differs     *)
(* from the value that was read (SQLAlchemy's unit of work).               *)
WriteNextRun(o, next) ==
    nextRun' = [nextRun EXCEPT ![MonitorOf(o)] =
                  IF next = read[o].nextRun THEN @ ELSE next]

(* The time the next run is counted from. *)
Observed_Now(o) == now

Observed_OccurrenceBefore(o) == ScheduledFor(o) - Interval

Observed(o) == ScheduledFor(o)

(* The unique constraint on monitor_runs.task_id. *)
MayInsertRun_Always(o) == TRUE

MayInsertRun(o) == RunOf(o) = {}

(* A run recorded by hand meanwhile violates the constraint: the           *)
(* transaction rolls back. *)
CommitRun(o) ==
    LET run == Run(MonitorOf(o), o, read[o].previous, read[o].created,
                   Observed(o))
    IN
    /\ phase[o] = "recording"
    /\ \/ /\ MayInsertRun(o)
          /\ runs' = runs \cup {run}
          /\ WriteNextRun(o, run.nextRun)
          /\ MoveTo(o, "posting")
       \/ /\ ~ MayInsertRun(o)
          /\ MoveTo(o, "over")
          /\ UNCHANGED <<runs, nextRun>>
    /\ read' = [read EXCEPT ![o] = NoRead]
    /\ UNCHANGED <<now, manual, active, taskVars, queueVars, begun, alerts>>

(* deliver_webhook sends only after a material change.  It fails before it *)
(* sends anything (no secret, an address that is not safe, no connection), *)
(* when the receiver refuses, and when a timeout hides that it accepted.   *)
AlertIsDue(run) == run.changed /\ run.monitor \in Alerting

Send(o) == alerts' = [alerts EXCEPT ![o] = @ + 1]

DeliverWebhook(o) ==
    /\ phase[o] = "posting"
    /\ \E run \in RunOf(o) :
          \/ AlertIsDue(run) /\ Send(o) /\ MoveTo(o, "delivered")
          \/ AlertIsDue(run) /\ Send(o) /\ MoveTo(o, "failed")
          \/ AlertIsDue(run) /\ UNCHANGED alerts /\ MoveTo(o, "failed")
          \/ ~ AlertIsDue(run) /\ UNCHANGED alerts /\ MoveTo(o, "not_required")
    /\ UNCHANGED <<now, manual, monitorVars, taskVars, queueVars, read, begun,
                   runs>>

StoredRun_AsRead(r) == r

StoredRun(r) == [r EXCEPT !.webhook = phase[r.task]]

CommitWebhook(o) ==
    /\ phase[o] \in {"delivered", "failed", "not_required"}
    /\ runs' = (runs \ RunOf(o))
               \cup {StoredRun(r) : r \in RunOf(o)}
    /\ MoveTo(o, "over")
    /\ UNCHANGED <<now, manual, monitorVars, taskVars, queueVars, read, begun,
                   alerts>>

CrashFinalization(o) ==
    /\ "crash" \in Faults
    /\ phase[o] \notin {"none", "over"}
    /\ MoveTo(o, "over")
    /\ read' = [read EXCEPT ![o] = NoRead]
    /\ UNCHANGED <<now, manual, monitorVars, taskVars, queueVars, begun,
                   runVars>>

----------------------------------------------------------------------------
(* Requests *)

PauseMonitor(m) ==
    /\ "manual" \in Faults
    /\ active' = [active EXCEPT ![m] = FALSE]
    /\ UNCHANGED <<now, manual, nextRun, taskVars, queueVars, finalizeVars,
                   runVars>>

ResumeMonitor(m) ==
    /\ "manual" \in Faults
    /\ active' = [active EXCEPT ![m] = TRUE]
    /\ nextRun' = [nextRun EXCEPT ![m] = now + Interval]
    /\ UNCHANGED <<now, manual, taskVars, queueVars, finalizeVars, runVars>>

(* create_monitor_run: any monitor and any completed FindAll task.  Like a *)
(* finalization it reads without a lock, commits the run, which fails if   *)
(* the task has one by then, and posts; webhook_status is left as it is.   *)
(* Bounds: one such request is open at a time, and none is sent for a task *)
(* that has a run, since its insert can only fail. *)
BeginManualRun(m, o) ==
    /\ "manual" \in Faults
    /\ manual = NoManual
    /\ task[o] = "completed"
    /\ RunOf(o) = {}
    /\ manual' = [monitor |-> m, task |-> o, previous |-> PreviousHashes(m),
                  observed |-> now, nextRun |-> nextRun[m],
                  created |-> begun + 1, posting |-> FALSE]
    /\ begun' = begun + 1
    /\ UNCHANGED <<now, monitorVars, taskVars, queueVars, phase, read, runVars>>

CommitManualRun ==
    LET m   == manual.monitor
        o   == manual.task
        run == Run(m, o, manual.previous, manual.created, manual.observed)
    IN
    /\ manual # NoManual
    /\ ~ manual.posting
    /\ \/ /\ RunOf(o) = {}
          /\ runs' = runs \cup {run}
          /\ nextRun' = [nextRun EXCEPT ![m] =
                           IF run.nextRun = manual.nextRun THEN @ ELSE run.nextRun]
          /\ manual' = [manual EXCEPT !.posting = TRUE]
       \/ /\ RunOf(o) # {}
          /\ manual' = NoManual
          /\ UNCHANGED <<runs, nextRun>>
    /\ UNCHANGED <<now, active, taskVars, queueVars, finalizeVars, alerts>>

PostManualRun ==
    /\ manual # NoManual
    /\ manual.posting
    /\ \/ \E r \in RunOf(manual.task) : AlertIsDue(r) /\ Send(manual.task)
       \/ UNCHANGED alerts
    /\ manual' = NoManual
    /\ UNCHANGED <<now, monitorVars, taskVars, queueVars, finalizeVars, runs>>

----------------------------------------------------------------------------
(* Time *)

CronIsOnTime == Due = {}

TasksAreInTime ==
    \A o \in Launched :
        nextRun[MonitorOf(o)] =< now + 1 /\ active[MonitorOf(o)] => Over(o)

Tick ==
    /\ now < Horizon
    /\ "late_cron" \in Faults \/ CronIsOnTime
    /\ "overrun" \in Faults \/ TasksAreInTime
    /\ now' = now + 1
    /\ UNCHANGED <<manual, monitorVars, taskVars, queueVars, finalizeVars,
                   runVars>>

CronStep ==
    \/ LaunchDueMonitors
    \/ LaunchRollsBack
    \/ \E o \in Occurrences : Enqueue(o)
    \/ EnqueueFails
    \/ LoseJobs

WorkerStep(o) ==
    \/ StartTask(o)
    \/ CompleteTask(o)
    \/ EndTask(o)
    \/ BeginFinalize(o)
    \/ CommitRun(o)
    \/ DeliverWebhook(o)
    \/ CommitWebhook(o)
    \/ CrashFinalization(o)

RequestStep ==
    \/ \E o \in Occurrences : RetryTask(o) \/ CancelQueuedTask(o)
    \/ \E m \in Monitors : PauseMonitor(m) \/ ResumeMonitor(m)
    \/ \E m \in Monitors, o \in Occurrences : BeginManualRun(m, o)
    \/ CommitManualRun
    \/ PostManualRun

Next ==
    \/ Tick
    \/ CronStep
    \/ \E o \in Occurrences : WorkerStep(o)
    \/ RequestStep

Spec == Init /\ [][Next]_vars

(* The cron job runs every five minutes, a worker goes on, and neither     *)
(* every enqueue fails nor every job is lost before a worker takes it.     *)
(* Time need not pass, requests need not come.  No task is favoured: the   *)
(* worker and the cron job are fair as a whole, not to each occurrence.    *)
Fairness ==
    /\ WF_vars(LaunchDueMonitors)
    /\ SF_vars(\E o \in Occurrences : Enqueue(o))
    /\ SF_vars(\E o \in Occurrences : StartTask(o))
    /\ WF_vars(\E o \in Occurrences : CompleteTask(o) \/ EndTask(o))
    /\ WF_vars(\E o \in Occurrences : BeginFinalize(o) \/ CommitRun(o))
    /\ WF_vars(\E o \in Occurrences : DeliverWebhook(o) \/ CommitWebhook(o))

FairSpec == Spec /\ Fairness

----------------------------------------------------------------------------
(* Properties *)

TypeOK ==
    /\ now \in 0 .. Horizon
    /\ active \in [Monitors -> BOOLEAN]
    /\ nextRun \in [Monitors -> 1 .. Horizon + Interval]
    /\ task \in [Occurrences -> TaskStatus]
    /\ attempt \in [Occurrences -> 1 .. MaxAttempts]
    /\ hashes \in [Occurrences -> Contents \cup {"none"}]
    /\ toEnqueue \subseteq Occurrences
    /\ queue \subseteq Occurrences
    /\ phase \in [Occurrences -> Phase]
    /\ begun \in Nat
    /\ alerts \in [Occurrences -> Nat]
    /\ manual # NoManual => manual.monitor \in Monitors
                            /\ manual.task \in Launched
    /\ \A r \in runs : r.monitor \in Monitors /\ r.task \in Launched

(* The next occurrence of an active monitor has no task yet.  Otherwise    *)
(* the insert of launch_due_monitors fails once it is due, in every tick   *)
(* of the cron job and for all monitors. *)
CronNeverCollides ==
    \A m \in Monitors : active[m] => <<m, nextRun[m]>> \notin Launched

(* The finalization of a task, whenever it happens, does not shift the     *)
(* schedule off the grid that creation set up (README "advances from the   *)
(* scheduled timestamp"). *)
ScheduleDoesNotDrift == \A m \in Monitors : nextRun[m] % Interval = 0

(* The next occurrence of a monitor is never replaced by an earlier one,   *)
(* although the cron job and finalize_monitor_task both write it (README   *)
(* "advances from the scheduled timestamp"). *)
ScheduleNeverMovesBack ==
    [][\A m \in Monitors : nextRun'[m] >= nextRun[m]]_vars

(* Whether a run is a change is decided against the run of the latest      *)
(* earlier occurrence that has one (record_monitor_run). *)
RunsCompareWithTheRunBefore ==
    \A r, q \in runs :
        /\ r.monitor = q.monitor
        /\ ScheduledFor(q.task) < ScheduledFor(r.task)
        /\ ~ \E p \in runs : /\ p.monitor = r.monitor
                             /\ ScheduledFor(q.task) < ScheduledFor(p.task)
                             /\ ScheduledFor(p.task) < ScheduledFor(r.task)
        => (r.changed <=> r.hashes # q.hashes)

(* A run whose alert is pending is in the hands of a finalization that     *)
(* will send it or write down that it failed (finalize_monitor_task). *)
PendingAlertHasASender ==
    \A r \in runs :
        r.webhook = "pending" => phase[r.task] \in {"posting", "delivered", "failed"}

(* A task has at most one run, recorded by its finalization or by hand, in *)
(* whatever order the two read and commit (uq_monitor_runs_task_id). *)
OneRunPerTask ==
    \A r, q \in runs : r.task = q.task => r = q

(* The receiver is sent at most one request for a task, for a recorded     *)
(* material change of a monitor with a webhook, and exactly one when its   *)
(* run says delivered: whatever finalizations, manual runs and crashes     *)
(* come between the commit of the run, the request and the commit of its   *)
(* result (finalize_monitor_task, create_monitor_run). *)
AlertsAreSentOnce ==
    \A o \in Occurrences :
        /\ alerts[o] =< 1
        /\ alerts[o] = 1 => \E r \in RunOf(o) : AlertIsDue(r)
        /\ \A r \in RunOf(o) : r.webhook = "delivered" => alerts[o] = 1

(* A queued monitor task is started although jobs get lost: the cron job   *)
(* dispatches it again (README "redispatches queued monitor tasks"). *)
QueuedTasksAreStarted ==
    \A o \in Occurrences : task[o] = "queued" ~> task[o] # "queued"

(* A due occurrence of an active monitor is launched (README "A due        *)
(* occurrence creates exactly one linked FindAll task"). *)
DueMonitorsAreLaunched ==
    \A m \in Monitors : m \in Due ~> m \notin Due

(* A completed monitor task gets its run (README "When that task           *)
(* completes, its immutable monitor run and webhook outcome are finalized  *)
(* automatically"). *)
EveryCompletionIsRecorded ==
    \A o \in Occurrences : task[o] = "completed" ~> RunOf(o) # {}
=============================================================================
