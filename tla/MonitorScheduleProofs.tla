------------------------ MODULE MonitorScheduleProofs ------------------------
(***************************************************************************)
(* Proofs about MonitorSchedule, for every set of monitors, interval and   *)
(* horizon.  As long as the cron job is on time and a task is over before  *)
(* the next occurrence of its monitor is due, the schedule only advances,  *)
(* the cron job never meets an occurrence it has launched already, and     *)
(* runs are compared in order.  The schedule stays on its grid without     *)
(* that, as long as no client interferes.                                  *)
(* Whatever goes wrong, a task has one run and is alerted of once at most. *)
(***************************************************************************)
EXTENDS MonitorSchedule, TLAPS

----------------------------------------------------------------------------
(* The schedule.  Two writers of next_run_at, the cron job and the         *)
(* finalization, agree because a task that is not over is the one of the   *)
(* occurrence before the next: what its finalization writes is there       *)
(* already.                                                                *)

ScheduleTypes ==
    /\ now \in 0 .. Horizon
    /\ active = [m \in Monitors |-> TRUE]
    /\ nextRun \in [Monitors -> Nat \ {0}]
    /\ task \in [Occurrences -> TaskStatus]
    /\ phase \in [Occurrences -> Phase]
    /\ manual = NoManual

NothingIsMissed == \A m \in Monitors : now =< nextRun[m]

LaunchedBeforeNext ==
    \A o \in Launched : ScheduledFor(o) + Interval =< nextRun[MonitorOf(o)]

OneBeforeNextIsLaunched ==
    \A m \in Monitors :
        \/ <<m, nextRun[m] - Interval>> \in Launched
        \/ \A o \in Launched : MonitorOf(o) # m

OpenTasksAreLatest ==
    \A o \in Launched :
        Over(o) \/ /\ ScheduledFor(o) + Interval = nextRun[MonitorOf(o)]
                   /\ now < nextRun[MonitorOf(o)]

FinalizedTasksAreCompleted ==
    \A o \in Occurrences : phase[o] # "none" => task[o] = "completed"

ScheduleInv ==
    /\ ScheduleTypes
    /\ NothingIsMissed
    /\ LaunchedBeforeNext
    /\ OneBeforeNextIsLaunched
    /\ OpenTasksAreLatest
    /\ FinalizedTasksAreCompleted

(* Nothing is late and no client interferes. *)
InTime == {"late_cron", "overrun", "manual"} \cap Faults = {}

LEMMA OccurrenceFields ==
    ASSUME NEW o \in Occurrences
    PROVE  /\ MonitorOf(o) \in Monitors
           /\ ScheduledFor(o) \in Nat \ {0}
           /\ o = <<MonitorOf(o), ScheduledFor(o)>>
  BY MonitorAssumption DEF Occurrences, MonitorOf, ScheduledFor

(* An occurrence that is launched as it falls due is followed by the one   *)
(* an interval later. *)
LEMMA NextOfDue ==
    ASSUME NEW s \in Nat, now = s
    PROVE  NextAfterNow(s) = s + Interval
<1>1. 0 \div Interval = 0
  BY MonitorAssumption
<1>2. now - s = 0
  OBVIOUS
<1> QED
  BY <1>1, <1>2, MonitorAssumption DEF NextAfterNow

LEMMA LaunchKeepsSchedule ==
    ASSUME ScheduleInv, LaunchDueMonitors
    PROVE  ScheduleInv' /\ \A m \in Monitors : nextRun'[m] >= nextRun[m]
<1> USE MonitorAssumption
<1> DEFINE created == {<<m, nextRun[m]>> : m \in Due}
<1>1. \A m \in Due : m \in Monitors /\ nextRun[m] = now
  BY DEF Due, ScheduleInv, ScheduleTypes, NothingIsMissed
<1>2. \A m \in Monitors :
         nextRun'[m] = IF m \in Due THEN now + Interval ELSE nextRun[m]
  BY <1>1, NextOfDue DEF LaunchDueMonitors, ScheduleInv, ScheduleTypes
<1>3. \A m \in Due : <<m, nextRun[m]>> \in Occurrences
  BY <1>1 DEF Occurrences, ScheduleInv, ScheduleTypes
<1>4. \A o \in Occurrences :
         task'[o] = IF o \in created THEN "queued" ELSE task[o]
  BY DEF LaunchDueMonitors
<1>5. created \cap Launched = {}
  BY DEF LaunchDueMonitors
<1>6. Launched' = Launched \cup created
  BY <1>3, <1>4, <1>5 DEF Launched
<1>7. \A o \in created : /\ MonitorOf(o) \in Due
                         /\ ScheduledFor(o) = now
                         /\ o = <<MonitorOf(o), now>>
  BY <1>1 DEF MonitorOf, ScheduledFor
<1>8. \A o \in Launched : /\ o \in Occurrences
                          /\ task'[o] = task[o]
                          /\ MonitorOf(o) \in Monitors
  BY <1>4, <1>5, OccurrenceFields DEF Launched
<1> HIDE DEF created
<1>9. ScheduleTypes'
  <2>1. nextRun' \in [Monitors -> Nat \ {0}]
    BY <1>2 DEF LaunchDueMonitors, ScheduleInv, ScheduleTypes
  <2>2. task' \in [Occurrences -> TaskStatus]
    BY <1>4 DEF LaunchDueMonitors, ScheduleInv, ScheduleTypes, TaskStatus
  <2> QED
    BY <2>1, <2>2
       DEF LaunchDueMonitors, ScheduleInv, ScheduleTypes, finalizeVars
<1>10. NothingIsMissed'
  BY <1>2 DEF LaunchDueMonitors, ScheduleInv, ScheduleTypes, NothingIsMissed
<1>11. \A m \in Monitors : nextRun'[m] >= nextRun[m]
  BY <1>1, <1>2 DEF ScheduleInv, ScheduleTypes
<1>12. LaunchedBeforeNext'
  <2> SUFFICES ASSUME NEW o \in Launched'
               PROVE  ScheduledFor(o) + Interval =< nextRun'[MonitorOf(o)]
    BY DEF LaunchedBeforeNext, MonitorOf, ScheduledFor
  <2>1. CASE o \in created
    BY <1>1, <1>2, <1>7, <2>1 DEF ScheduleInv, ScheduleTypes
  <2>2. CASE o \in Launched
    BY <1>2, <1>8, <1>9, <1>11, <2>2, OccurrenceFields
       DEF ScheduleInv, ScheduleTypes, LaunchedBeforeNext
  <2> QED
    BY <1>6, <2>1, <2>2
<1>13. OneBeforeNextIsLaunched'
  <2> SUFFICES ASSUME NEW m \in Monitors
               PROVE  \/ <<m, nextRun'[m] - Interval>> \in Launched'
                      \/ \A o \in Launched' : MonitorOf(o) # m
    BY DEF OneBeforeNextIsLaunched, MonitorOf
  <2>1. CASE m \in Due
    <3>1. nextRun'[m] - Interval = nextRun[m]
      BY <1>1, <1>2, <2>1 DEF ScheduleInv, ScheduleTypes
    <3> QED
      BY <1>6, <2>1, <3>1 DEF created
  <2>2. CASE m \notin Due
    BY <1>2, <1>6, <1>7, <2>2 DEF ScheduleInv, OneBeforeNextIsLaunched
  <2> QED
    BY <2>1, <2>2
<1>14. OpenTasksAreLatest'
  <2> SUFFICES ASSUME NEW o \in Launched'
               PROVE  \/ Over(o)'
                      \/ /\ ScheduledFor(o) + Interval = nextRun'[MonitorOf(o)]
                         /\ now' < nextRun'[MonitorOf(o)]
    BY DEF OpenTasksAreLatest, MonitorOf, ScheduledFor
  <2>0. now' = now /\ phase' = phase
    BY DEF LaunchDueMonitors, finalizeVars
  <2>1. CASE o \in created
    BY <1>1, <1>2, <1>7, <2>0, <2>1 DEF ScheduleInv, ScheduleTypes
  <2>2. CASE o \in Launched
    <3>1. CASE MonitorOf(o) \in Due
      BY <1>1, <1>8, <2>0, <2>2, <3>1
         DEF ScheduleInv, ScheduleTypes, OpenTasksAreLatest, Over
    <3>2. CASE MonitorOf(o) \notin Due
      BY <1>2, <1>8, <2>0, <2>2, <3>2 DEF ScheduleInv, OpenTasksAreLatest, Over
    <3> QED
      BY <3>1, <3>2
  <2> QED
    BY <1>6, <2>1, <2>2
<1>15. FinalizedTasksAreCompleted'
  <2>1. \A o \in created : phase[o] = "none"
    BY <1>3, <1>5 DEF ScheduleInv, FinalizedTasksAreCompleted, Launched, created
  <2> QED
    BY <1>4, <2>1 DEF LaunchDueMonitors, ScheduleInv, ScheduleTypes,
                      FinalizedTasksAreCompleted, finalizeVars
<1> QED
  BY <1>9, <1>10, <1>11, <1>12, <1>13, <1>14, <1>15 DEF ScheduleInv

(* The steps of a task: it stays launched, and it stays over or it is the  *)
(* latest one. *)
LEMMA TaskStepKeepsSchedule ==
    ASSUME ScheduleInv, NEW o \in Occurrences, task[o] # "absent",
           NEW status \in TaskStatus \ {"absent"},
           task' = [task EXCEPT ![o] = status],
           NEW label \in Phase, phase' = [phase EXCEPT ![o] = label],
           label # "none" => status = "completed",
           \/ /\ status \in {"completed", "partial", "cancelled"}
              /\ label \in {"none", "over"}
           \/ ~ Over(o) \/ Current(o),
           UNCHANGED <<now, active, nextRun, manual>>
    PROVE  ScheduleInv'
<1>1. /\ task \in [Occurrences -> TaskStatus]
      /\ phase \in [Occurrences -> Phase]
      /\ nextRun \in [Monitors -> Nat \ {0}]
      /\ now \in 0 .. Horizon
  BY DEF ScheduleInv, ScheduleTypes
<1>2. /\ task'[o] = status /\ phase'[o] = label
      /\ \A p \in Occurrences \ {o} : task'[p] = task[p] /\ phase'[p] = phase[p]
  BY <1>1
<1>3. Launched' = Launched
  BY <1>2 DEF Launched
<1>4. ScheduleTypes' /\ NothingIsMissed'
  BY DEF ScheduleInv, ScheduleTypes, NothingIsMissed
<1>5. LaunchedBeforeNext' /\ OneBeforeNextIsLaunched'
  BY <1>3 DEF ScheduleInv, LaunchedBeforeNext, OneBeforeNextIsLaunched,
              MonitorOf, ScheduledFor
<1>6. o \in Launched
  BY DEF Launched
<1>7. Current(o) => /\ ScheduledFor(o) + Interval = nextRun[MonitorOf(o)]
                    /\ now < nextRun[MonitorOf(o)]
  <2> SUFFICES ASSUME Current(o)
               PROVE  ScheduledFor(o) + Interval = nextRun[MonitorOf(o)]
    BY DEF Current
  <2>1. MonitorOf(o) \in Monitors /\ ScheduledFor(o) \in Nat
    BY OccurrenceFields
  <2>2. <<MonitorOf(o), nextRun[MonitorOf(o)] - Interval>> \in Launched
    BY <1>6, <2>1 DEF ScheduleInv, OneBeforeNextIsLaunched
  <2>3. nextRun[MonitorOf(o)] - Interval =< ScheduledFor(o)
    BY <2>2 DEF Current, MonitorOf, ScheduledFor
  <2>4. ScheduledFor(o) + Interval =< nextRun[MonitorOf(o)]
    BY <1>6 DEF ScheduleInv, LaunchedBeforeNext
  <2>5. nextRun[MonitorOf(o)] \in Nat /\ Interval \in Nat
    BY <1>1, <2>1, MonitorAssumption
  <2> QED
    BY <2>1, <2>3, <2>4, <2>5
<1>8. OpenTasksAreLatest'
  <2> SUFFICES ASSUME NEW p \in Launched
               PROVE  \/ Over(p)'
                      \/ /\ ScheduledFor(p) + Interval = nextRun[MonitorOf(p)]
                         /\ now < nextRun[MonitorOf(p)]
    BY <1>3 DEF OpenTasksAreLatest, MonitorOf, ScheduledFor
  <2>1. CASE p = o
    BY <1>2, <1>6, <1>7, <2>1 DEF ScheduleInv, OpenTasksAreLatest, Over
  <2>2. CASE p # o
    <3>1. p \in Occurrences
      BY DEF Launched
    <3>2. Over(p)' = Over(p)
      BY <1>2, <2>2, <3>1 DEF Over
    <3> QED
      BY <3>2 DEF ScheduleInv, OpenTasksAreLatest
  <2> QED
    BY <2>1, <2>2
<1>9. FinalizedTasksAreCompleted'
  BY <1>2 DEF ScheduleInv, FinalizedTasksAreCompleted
<1> QED
  BY <1>4, <1>5, <1>8, <1>9 DEF ScheduleInv

(* What a finalization writes to next_run_at is there already. *)
LEMMA CommitRunKeepsNext ==
    ASSUME ScheduleInv, NEW o \in Occurrences, CommitRun(o)
    PROVE  nextRun' = nextRun
<1>1. nextRun \in [Monitors -> Nat \ {0}] /\ MonitorOf(o) \in Monitors
  BY OccurrenceFields DEF ScheduleInv, ScheduleTypes
<1>2. o \in Launched /\ ~ Over(o)
  BY DEF CommitRun, ScheduleInv, FinalizedTasksAreCompleted, Launched, Over
<1>3. ScheduledFor(o) + Interval = nextRun[MonitorOf(o)]
  BY <1>2 DEF ScheduleInv, OpenTasksAreLatest
<1>4. \/ nextRun' = nextRun
      \/ WriteNextRun(o, ScheduledFor(o) + Interval)
  BY DEF CommitRun, Run, Observed
<1> QED
  BY <1>1, <1>3, <1>4 DEF WriteNextRun

LEMMA TickKeepsSchedule ==
    ASSUME ScheduleInv, InTime, Tick
    PROVE  ScheduleInv'
<1>1. CronIsOnTime /\ TasksAreInTime
  BY DEF Tick, InTime
<1>2. now' = now + 1 /\ now < Horizon /\ now \in Nat /\ Horizon \in Nat
  BY MonitorAssumption DEF Tick, ScheduleInv, ScheduleTypes
<1>3. UNCHANGED <<active, nextRun, task, phase, manual>>
  BY DEF Tick, monitorVars, taskVars, finalizeVars
<1>4. Launched' = Launched
  BY <1>3 DEF Launched
<1>5. ScheduleTypes'
  BY <1>2, <1>3 DEF ScheduleInv, ScheduleTypes
<1>6. NothingIsMissed'
  BY <1>1, <1>2, <1>3 DEF ScheduleInv, ScheduleTypes, NothingIsMissed,
                          CronIsOnTime, Due
<1>7. LaunchedBeforeNext' /\ OneBeforeNextIsLaunched'
  BY <1>3, <1>4 DEF ScheduleInv, LaunchedBeforeNext, OneBeforeNextIsLaunched,
                    MonitorOf, ScheduledFor
<1>8. OpenTasksAreLatest'
  <2> SUFFICES ASSUME NEW o \in Launched, ~ Over(o)
               PROVE  /\ ScheduledFor(o) + Interval = nextRun[MonitorOf(o)]
                      /\ now + 1 < nextRun[MonitorOf(o)]
    BY <1>2, <1>3, <1>4 DEF OpenTasksAreLatest, Over, MonitorOf, ScheduledFor
  <2>1. MonitorOf(o) \in Monitors
    BY OccurrenceFields DEF Launched
  <2>2. active[MonitorOf(o)] /\ nextRun[MonitorOf(o)] \in Nat
    BY <2>1 DEF ScheduleInv, ScheduleTypes
  <2>3. ~ (nextRun[MonitorOf(o)] =< now + 1)
    BY <1>1, <2>2 DEF TasksAreInTime
  <2> QED
    BY <1>2, <2>2, <2>3 DEF ScheduleInv, OpenTasksAreLatest
<1>9. FinalizedTasksAreCompleted'
  BY <1>3 DEF ScheduleInv, FinalizedTasksAreCompleted
<1> QED
  BY <1>5, <1>6, <1>7, <1>8, <1>9 DEF ScheduleInv

(* A step that touches neither the schedule nor the tasks. *)
LEMMA SameSchedule ==
    ASSUME ScheduleInv,
           UNCHANGED <<now, active, nextRun, task, phase, manual>>
    PROVE  ScheduleInv'
<1>1. Launched' = Launched
  BY DEF Launched
<1> QED
  BY <1>1 DEF ScheduleInv, ScheduleTypes, NothingIsMissed, LaunchedBeforeNext,
              OneBeforeNextIsLaunched, OpenTasksAreLatest,
              FinalizedTasksAreCompleted, Over, MonitorOf, ScheduledFor

LEMMA ScheduleInvIsInductive ==
    ASSUME ScheduleInv, InTime, [Next]_vars
    PROVE  ScheduleInv' /\ \A m \in Monitors : nextRun'[m] >= nextRun[m]
<1>0. \A m \in Monitors : nextRun[m] \in Nat
  BY DEF ScheduleInv, ScheduleTypes
<1>1. CASE LaunchDueMonitors
  BY <1>1, LaunchKeepsSchedule
<1> SUFFICES ASSUME ~ LaunchDueMonitors
             PROVE  ScheduleInv' /\ nextRun' = nextRun
  BY <1>0, <1>1
<1>2. CASE Tick
  BY <1>2, TickKeepsSchedule DEF Tick, monitorVars
<1>3. CASE CronStep
  <2>1. UNCHANGED <<now, active, nextRun, task, phase, manual>>
    BY <1>3 DEF CronStep, LaunchRollsBack, Enqueue, EnqueueFails, LoseJobs,
                monitorVars, taskVars, finalizeVars, vars
  <2> QED
    BY <2>1, SameSchedule
<1>4. ASSUME NEW o \in Occurrences, WorkerStep(o)
      PROVE  ScheduleInv' /\ nextRun' = nextRun
  <2> USE DEF ScheduleInv, ScheduleTypes
  <2>0. /\ task[o] \in TaskStatus /\ phase[o] \in Phase
        /\ phase[o] # "none" => task[o] = "completed"
        /\ task = [task EXCEPT ![o] = task[o]]
        /\ phase = [phase EXCEPT ![o] = phase[o]]
    BY DEF FinalizedTasksAreCompleted
  <2> HIDE DEF ScheduleInv, ScheduleTypes
  <2>1. CASE StartTask(o)
    <3>1. CASE task[o] = "queued"
      <4>1. task' = [task EXCEPT ![o] = "running"] /\ ~ Over(o)
        BY <2>1, <3>1 DEF StartTask, Over
      <4>2. phase[o] = "none"
        BY <2>0, <3>1
      <4> QED
        BY <2>0, <2>1, <3>1, <4>1, <4>2, TaskStepKeepsSchedule
           DEF StartTask, monitorVars, finalizeVars, TaskStatus
    <3>2. CASE task[o] # "queued"
      BY <2>0, <2>1, <3>2, SameSchedule
         DEF StartTask, monitorVars, finalizeVars
    <3> QED
      BY <3>1, <3>2
  <2>2. CASE CompleteTask(o)
    <3>1. ~ Over(o)
      BY <2>2 DEF CompleteTask, Over
    <3> QED
      BY <2>2, <3>1, TaskStepKeepsSchedule
         DEF CompleteTask, monitorVars, TaskStatus, Phase
  <2>3. CASE EndTask(o)
    <3>1. phase[o] = "none"
      BY <2>0, <2>3 DEF EndTask
    <3> QED
      BY <2>0, <2>3, <3>1, TaskStepKeepsSchedule
         DEF EndTask, monitorVars, finalizeVars, TaskStatus
  <2>4. ASSUME NEW label \in Phase, phase[o] \notin {"none", "over"},
               MoveTo(o, label),
               UNCHANGED <<now, active, nextRun, task, manual>>
        PROVE  ScheduleInv'
    <3>1. task[o] = "completed" /\ ~ Over(o)
      BY <2>0, <2>4 DEF Over
    <3>2. task' = [task EXCEPT ![o] = "completed"]
      BY <2>0, <2>4, <3>1
    <3> QED
      BY <2>4, <3>1, <3>2, TaskStepKeepsSchedule DEF MoveTo, TaskStatus
  <2>5. CASE BeginFinalize(o)
    BY <2>4, <2>5 DEF BeginFinalize, monitorVars, taskVars, Phase
  <2>6. CASE CommitRun(o)
    BY <2>4, <2>6, CommitRunKeepsNext DEF CommitRun, taskVars, Phase
  <2>7. CASE DeliverWebhook(o)
    BY <2>4, <2>7 DEF DeliverWebhook, monitorVars, taskVars, Phase
  <2>8. CASE CommitWebhook(o)
    BY <2>4, <2>8 DEF CommitWebhook, monitorVars, taskVars, Phase
  <2>9. CASE CrashFinalization(o)
    BY <2>4, <2>9 DEF CrashFinalization, monitorVars, taskVars, Phase
  <2> QED
    BY <1>4, <2>1, <2>2, <2>3, <2>5, <2>6, <2>7, <2>8, <2>9
       DEF WorkerStep, StartTask, CompleteTask, EndTask, BeginFinalize,
           DeliverWebhook, CommitWebhook, CrashFinalization, monitorVars
<1>5. CASE RequestStep
  <2>1. PICK o \in Occurrences : RetryTask(o) \/ CancelQueuedTask(o)
    BY <1>5 DEF RequestStep, InTime, PauseMonitor, ResumeMonitor,
                BeginManualRun, CommitManualRun, PostManualRun,
                ScheduleInv, ScheduleTypes
  <2>2. /\ task[o] \in {"partial", "queued"}
        /\ UNCHANGED <<now, active, nextRun, phase, manual>>
        /\ \/ Current(o) /\ task' = [task EXCEPT ![o] = "queued"]
           \/ task' = [task EXCEPT ![o] = "cancelled"]
    BY <2>1 DEF RetryTask, CancelQueuedTask, InTime, monitorVars, finalizeVars
  <2>3. phase[o] = "none"
    BY <2>2 DEF ScheduleInv, FinalizedTasksAreCompleted
  <2>4. phase' = [phase EXCEPT ![o] = "none"]
    BY <2>2, <2>3 DEF ScheduleInv, ScheduleTypes
  <2>5. ScheduleInv'
    BY <2>2, <2>4, TaskStepKeepsSchedule DEF TaskStatus, Phase
  <2> QED
    BY <2>2, <2>5
<1>6. CASE UNCHANGED vars
  BY <1>6, SameSchedule DEF vars
<1> QED
  BY <1>2, <1>3, <1>4, <1>5, <1>6 DEF Next

LEMMA ScheduleInvInitially == Init => ScheduleInv
<1> SUFFICES ASSUME Init PROVE ScheduleInv
  OBVIOUS
<1>1. Launched = {}
  BY DEF Init, Launched
<1>2. ScheduleTypes /\ NothingIsMissed
  BY MonitorAssumption
     DEF Init, ScheduleTypes, NothingIsMissed, TaskStatus, Phase
<1> QED
  BY <1>1, <1>2 DEF Init, ScheduleInv, LaunchedBeforeNext,
     OneBeforeNextIsLaunched, OpenTasksAreLatest, FinalizedTasksAreCompleted

(* Two processes write next_run_at and neither ever moves it back, nor     *)
(* meets an occurrence that has its task.  This rests on tasks ending      *)
(* before the next occurrence: without it both are false. *)
THEOREM ScheduleInvariant ==
    ASSUME InTime
    PROVE  Spec => []ScheduleInv
<1>1. ScheduleInv /\ [Next]_vars => ScheduleInv'
  BY ScheduleInvIsInductive
<1> QED
  BY <1>1, ScheduleInvInitially, PTL DEF Spec

(* next_run_at never goes back, although the cron job and the              *)
(* finalization of the task before both write it. *)
THEOREM ScheduleAdvances ==
    ASSUME InTime
    PROVE  Spec => ScheduleNeverMovesBack
<1>1. ScheduleInv /\ [Next]_vars
        => [\A m \in Monitors : nextRun'[m] >= nextRun[m]]_vars
  BY ScheduleInvIsInductive
<1> QED
  BY <1>1, ScheduleInvariant, PTL DEF Spec, ScheduleNeverMovesBack

(* The occurrence an active monitor is due for next has no task yet: the   *)
(* unique constraint never rolls the cron job back. *)
THEOREM CronNeverRollsBack ==
    ASSUME InTime
    PROVE  Spec => []CronNeverCollides
<1>1. ScheduleInv => CronNeverCollides
  <2> SUFFICES ASSUME ScheduleInv, NEW m \in Monitors,
                      <<m, nextRun[m]>> \in Launched
               PROVE  FALSE
    BY DEF CronNeverCollides
  <2>1. nextRun[m] + Interval =< nextRun[m]
    BY DEF ScheduleInv, LaunchedBeforeNext, MonitorOf, ScheduledFor
  <2> QED
    BY <2>1, MonitorAssumption DEF ScheduleInv, ScheduleTypes
<1> QED
  BY <1>1, ScheduleInvariant, PTL
----------------------------------------------------------------------------
(* Runs, whatever goes wrong.  A request that posts the run it committed   *)
(* by hand finds that run when it posts.                                   *)

MonitorRun ==
    [monitor : Monitors,
     task    : Occurrences,
     hashes  : Contents \cup {"none"},
     changed : BOOLEAN,
     webhook : Phase \cup {"pending"},
     nextRun : Nat,
     created : Nat]

RunTypes ==
    /\ runs \subseteq MonitorRun
    /\ hashes \in [Occurrences -> Contents \cup {"none"}]
    /\ phase \in [Occurrences -> Phase]
    /\ begun \in Nat
    /\ \A o \in Occurrences : phase[o] = "recording" => read[o].created \in Nat
    /\ read = [o \in Occurrences |-> read[o]]
    /\ now \in Nat
    /\ manual # NoManual =>
         /\ manual = [monitor |-> manual.monitor, task |-> manual.task,
                      previous |-> manual.previous,
                      observed |-> manual.observed,
                      nextRun |-> manual.nextRun, created |-> manual.created,
                      posting |-> manual.posting]
         /\ manual.monitor \in Monitors
         /\ manual.task \in Occurrences
         /\ manual.observed \in Nat
         /\ manual.created \in Nat

PostedRunIsStored ==
    manual # NoManual /\ manual.posting => RunOf(manual.task) # {}

RunInv ==
    /\ RunTypes
    /\ OneRunPerTask
    /\ PostedRunIsStored

LEMMA RunIsARow ==
    ASSUME RunTypes, NEW m \in Monitors, NEW o \in Occurrences, NEW previous,
           NEW created \in Nat, NEW observed \in Nat
    PROVE  /\ Run(m, o, previous, created, observed) \in MonitorRun
           /\ Run(m, o, previous, created, observed).task = o
           /\ Run(m, o, previous, created, observed).monitor = m
           /\ Run(m, o, previous, created, observed).nextRun = observed + Interval
  BY MonitorAssumption DEF Run, MonitorRun, RunTypes, Changed, Phase

(* A run is inserted for a task that has none only. *)
LEMMA InsertKeepsRuns ==
    ASSUME RunInv, NEW run \in MonitorRun, RunOf(run.task) = {},
           runs' = runs \cup {run},
           \/ UNCHANGED manual
           \/ /\ manual # NoManual /\ manual.task = run.task
              /\ manual' = [manual EXCEPT !.posting = TRUE]
    PROVE  runs' \subseteq MonitorRun /\ OneRunPerTask' /\ PostedRunIsStored'
<1>1. runs' \subseteq MonitorRun /\ OneRunPerTask'
  BY DEF RunInv, RunTypes, OneRunPerTask, RunOf
<1>2. \A o : RunOf(o)' = IF o = run.task THEN {run} ELSE RunOf(o)
  BY DEF RunOf
<1>3. PostedRunIsStored'
  <2>1. CASE UNCHANGED manual
    BY <1>2, <2>1 DEF RunInv, PostedRunIsStored, NoManual
  <2>2. CASE /\ manual # NoManual /\ manual.task = run.task
             /\ manual' = [manual EXCEPT !.posting = TRUE]
    <3>1. manual'.task = run.task
      BY <2>2 DEF RunInv, RunTypes
    <3> QED
      BY <1>2, <3>1 DEF PostedRunIsStored
  <2> QED
    BY <2>1, <2>2
<1> QED
  BY <1>1, <1>3

(* The result of the webhook is written to the run of the task. *)
LEMMA CommitWebhookKeepsRuns ==
    ASSUME RunInv, NEW o \in Occurrences, CommitWebhook(o)
    PROVE  RunInv'
<1>1. UNCHANGED <<now, manual, hashes, begun, read, alerts>>
  BY DEF CommitWebhook, taskVars
<1>2. \A r \in runs : /\ StoredRun(r) \in MonitorRun
                      /\ StoredRun(r).task = r.task
                      /\ StoredRun(r).monitor = r.monitor
                      /\ StoredRun(r).changed = r.changed
  BY DEF RunInv, RunTypes, MonitorRun, StoredRun
<1>3. runs' = (runs \ RunOf(o)) \cup {StoredRun(r) : r \in RunOf(o)}
  BY DEF CommitWebhook
<1>4. runs' \subseteq MonitorRun
  BY <1>2, <1>3 DEF RunInv, RunTypes, RunOf
<1>5. OneRunPerTask'
  BY <1>2, <1>3 DEF RunInv, OneRunPerTask, RunOf
<1>6. \A p : RunOf(p)' = IF p = o THEN {StoredRun(r) : r \in RunOf(o)}
                                  ELSE RunOf(p)
  BY <1>2, <1>3 DEF RunOf
<1>7. PostedRunIsStored'
  <2> SUFFICES ASSUME manual # NoManual, manual.posting
               PROVE  RunOf(manual.task)' # {}
    BY <1>1 DEF PostedRunIsStored, NoManual
  <2>1. RunOf(manual.task) # {}
    BY DEF RunInv, PostedRunIsStored
  <2> QED
    BY <1>1, <1>6, <2>1
<1>8. RunTypes'
  BY <1>1, <1>4 DEF CommitWebhook, MoveTo, RunInv, RunTypes, Phase, NoManual
<1> QED
  BY <1>5, <1>7, <1>8 DEF RunInv

(* A step that adds no run. *)
LEMMA SameRuns ==
    ASSUME RunInv, RunTypes', UNCHANGED runs,
           \/ UNCHANGED manual
           \/ manual' = NoManual \/ ~ manual'.posting
    PROVE  RunInv'
<1>1. \A o : RunOf(o)' = RunOf(o)
  BY DEF RunOf
<1> QED
  BY <1>1 DEF RunInv, OneRunPerTask, PostedRunIsStored, NoManual

LEMMA RunInvIsInductive ==
    ASSUME RunInv, [Next]_vars
    PROVE  RunInv'
<1> USE MonitorAssumption
<1>0. RunTypes
  BY DEF RunInv
<1>1. ASSUME UNCHANGED <<hashes, phase, begun, read, manual, runs>>,
             now' \in Nat
      PROVE  RunInv'
  <2>1. RunTypes'
    BY <1>0, <1>1 DEF RunTypes, NoManual
  <2> QED
    BY <1>1, <2>1, SameRuns
<1>2. CASE Tick
  BY <1>0, <1>1, <1>2 DEF Tick, taskVars, finalizeVars, runVars, RunTypes
<1>3. CASE CronStep
  BY <1>0, <1>1, <1>3
     DEF CronStep, LaunchDueMonitors, LaunchRollsBack, Enqueue, EnqueueFails,
         LoseJobs, taskVars, finalizeVars, runVars, vars, RunTypes
<1>4. ASSUME NEW o \in Occurrences, WorkerStep(o)
      PROVE  RunInv'
  <2>1. CASE StartTask(o) \/ EndTask(o)
    BY <1>0, <1>1, <2>1
       DEF StartTask, EndTask, finalizeVars, runVars, RunTypes
  <2>2. CASE CompleteTask(o)
    <3>1. RunTypes'
      BY <1>0, <2>2 DEF CompleteTask, runVars, RunTypes, Phase, NoManual
    <3> QED
      BY <2>2, <3>1, SameRuns DEF CompleteTask, runVars
  <2>3. CASE BeginFinalize(o)
    <3>1. RunTypes'
      <4>1. CASE MoveTo(o, "over") /\ UNCHANGED <<begun, read>>
        BY <1>0, <2>3, <4>1
           DEF BeginFinalize, MoveTo, taskVars, runVars, RunTypes, Phase, NoManual
      <4>2. CASE /\ MoveTo(o, "recording")
                 /\ begun' = begun + 1
                 /\ read' = [read EXCEPT ![o] =
                              [previous |-> PreviousHashes(MonitorOf(o)),
                               nextRun  |-> nextRun[MonitorOf(o)],
                               created  |-> begun + 1]]
        BY <1>0, <2>3, <4>2
           DEF BeginFinalize, MoveTo, taskVars, runVars, RunTypes, Phase, NoManual
      <4> QED
        BY <2>3, <4>1, <4>2 DEF BeginFinalize
    <3> QED
      BY <2>3, <3>1, SameRuns DEF BeginFinalize, runVars
  <2>4. CASE CommitRun(o)
    <3> DEFINE run == Run(MonitorOf(o), o, read[o].previous, read[o].created,
                          Observed(o))
    <3>1. run \in MonitorRun /\ run.task = o
      BY <1>0, <2>4, RunIsARow
         DEF CommitRun, RunTypes, Observed, Occurrences, MonitorOf, ScheduledFor
    <3>2. \E label \in Phase \ {"recording"} : MoveTo(o, label)
      BY <2>4 DEF CommitRun, Phase
    <3>3. /\ UNCHANGED <<now, manual, hashes, begun, alerts>>
          /\ read' = [read EXCEPT ![o] = NoRead]
      BY <2>4 DEF CommitRun, taskVars
    <3>4. CASE UNCHANGED runs
      <4>1. RunTypes'
        BY <1>0, <3>2, <3>3, <3>4 DEF MoveTo, RunTypes, NoManual
      <4> QED
        BY <3>3, <3>4, <4>1, SameRuns
    <3>5. CASE RunOf(o) = {} /\ runs' = runs \cup {run}
      <4> HIDE DEF run
      <4>1. runs' \subseteq MonitorRun /\ OneRunPerTask' /\ PostedRunIsStored'
        BY <3>1, <3>3, <3>5, InsertKeepsRuns
      <4>2. RunTypes'
        BY <1>0, <3>2, <3>3, <4>1 DEF MoveTo, RunTypes, NoManual
      <4> QED
        BY <4>1, <4>2 DEF RunInv
    <3> QED
      BY <2>4, <3>4, <3>5 DEF CommitRun, MayInsertRun
  <2>5. CASE DeliverWebhook(o)
    <3>1. RunTypes'
      BY <1>0, <2>5
         DEF DeliverWebhook, MoveTo, taskVars, RunTypes, Phase, NoManual
    <3> QED
      BY <2>5, <3>1, SameRuns DEF DeliverWebhook
  <2>6. CASE CommitWebhook(o)
    BY <2>6, CommitWebhookKeepsRuns
  <2>7. CASE CrashFinalization(o)
    <3>1. RunTypes'
      BY <1>0, <2>7
         DEF CrashFinalization, MoveTo, taskVars, runVars, RunTypes, Phase,
             NoManual
    <3> QED
      BY <2>7, <3>1, SameRuns DEF CrashFinalization, runVars
  <2> QED
    BY <1>4, <2>1, <2>2, <2>3, <2>4, <2>5, <2>6, <2>7 DEF WorkerStep
<1>5. CASE RequestStep
  <2>1. CASE \/ \E o \in Occurrences : RetryTask(o) \/ CancelQueuedTask(o)
             \/ \E m \in Monitors : PauseMonitor(m) \/ ResumeMonitor(m)
    BY <1>0, <1>1, <2>1
       DEF RetryTask, CancelQueuedTask, PauseMonitor, ResumeMonitor, taskVars,
           finalizeVars, runVars, RunTypes
  <2>2. ASSUME NEW m \in Monitors, NEW o \in Occurrences, BeginManualRun(m, o)
        PROVE  RunInv'
    <3>1. RunTypes'
      BY <1>0, <2>2 DEF BeginManualRun, taskVars, runVars, RunTypes
    <3> QED
      BY <2>2, <3>1, SameRuns DEF BeginManualRun, runVars
  <2>3. CASE CommitManualRun
    <3> DEFINE o == manual.task
               run == Run(manual.monitor, o, manual.previous, manual.created,
                          manual.observed)
    <3>1. run \in MonitorRun /\ run.task = o /\ run.monitor = manual.monitor
      BY <1>0, <2>3, RunIsARow DEF CommitManualRun, RunTypes
    <3>2. /\ UNCHANGED <<now, hashes, phase, begun, read, alerts>>
          /\ manual # NoManual
      BY <2>3 DEF CommitManualRun, taskVars, finalizeVars
    <3>3. CASE manual' = NoManual /\ UNCHANGED runs
      <4>1. RunTypes'
        BY <1>0, <3>2, <3>3 DEF RunTypes, NoManual
      <4> QED
        BY <3>2, <3>3, <4>1, SameRuns
    <3>4. CASE /\ RunOf(o) = {} /\ runs' = runs \cup {run}
               /\ manual' = [manual EXCEPT !.posting = TRUE]
      <4> HIDE DEF run
      <4>1. runs' \subseteq MonitorRun /\ OneRunPerTask' /\ PostedRunIsStored'
        BY <3>1, <3>2, <3>4, InsertKeepsRuns
      <4>2. RunTypes'
        BY <1>0, <3>2, <3>4, <4>1 DEF RunTypes, NoManual
      <4> QED
        BY <4>1, <4>2 DEF RunInv
    <3> QED
      BY <2>3, <3>3, <3>4 DEF CommitManualRun
  <2>4. CASE PostManualRun
    <3>1. RunTypes'
      BY <1>0, <2>4 DEF PostManualRun, taskVars, finalizeVars, RunTypes, NoManual
    <3> QED
      BY <2>4, <3>1, SameRuns DEF PostManualRun
  <2> QED
    BY <1>5, <2>1, <2>2, <2>3, <2>4 DEF RequestStep
<1>6. CASE UNCHANGED vars
  BY <1>0, <1>1, <1>6 DEF vars, RunTypes
<1> QED
  BY <1>2, <1>3, <1>4, <1>5, <1>6 DEF Next

THEOREM RunInvariant == Spec => []RunInv
<1>1. Init => RunInv
  BY MonitorAssumption
     DEF Init, RunInv, RunTypes, OneRunPerTask, PostedRunIsStored, Phase,
         NoManual
<1>2. RunInv /\ [Next]_vars => RunInv'
  BY RunInvIsInductive
<1> QED
  BY <1>1, <1>2, PTL DEF Spec

(* A task has at most one run, whether its finalization or a client        *)
(* records it, in whatever order they read and commit. *)
THEOREM RunsAreUnique == Spec => []OneRunPerTask
<1>1. RunInv => OneRunPerTask
  BY DEF RunInv
<1> QED
  BY <1>1, RunInvariant, PTL

----------------------------------------------------------------------------
(* Alerts.  One process at a time is about to send the alert of a task: it *)
(* is the one whose insert of the run succeeded.                           *)

Posting(o) == manual # NoManual /\ manual.posting /\ manual.task = o

Finalizing == {"posting", "delivered", "failed", "not_required"}

AlertState(o) ==
    /\ alerts[o] = 0 \/ alerts[o] = 1
    /\ alerts[o] = 1 => \E r \in RunOf(o) : AlertIsDue(r)
    /\ phase[o] \in Finalizing => RunOf(o) # {} /\ ~ Posting(o)
    /\ phase[o] = "posting" \/ Posting(o) => alerts[o] = 0
    /\ phase[o] = "delivered" => alerts[o] = 1
    /\ \A r \in RunOf(o) : r.webhook = "delivered" => alerts[o] = 1

AlertInv ==
    /\ alerts = [o \in Occurrences |-> alerts[o]]
    /\ \A o \in Occurrences : AlertState(o)

(* A step that neither stores a run nor sends, nor begins to post. *)
LEMMA SameAlerts ==
    ASSUME AlertInv, UNCHANGED <<runs, alerts>>,
           \A o \in Occurrences :
              phase'[o] = phase[o] \/ phase'[o] \notin Finalizing,
           \/ UNCHANGED manual
           \/ manual' = NoManual \/ ~ manual'.posting
    PROVE  AlertInv'
<1> SUFFICES ASSUME NEW o \in Occurrences
             PROVE  AlertState(o)'
  BY DEF AlertInv
<1>1. AlertState(o) /\ RunOf(o)' = RunOf(o)
  BY DEF AlertInv, RunOf
<1>2. Posting(o)' => Posting(o)
  BY DEF Posting, NoManual
<1> QED
  BY <1>1, <1>2 DEF AlertState, Finalizing

(* The process that inserted the run of o goes on to post it. *)
LEMMA InsertKeepsAlerts ==
    ASSUME AlertInv, PostedRunIsStored, NEW run, RunOf(run.task) = {},
           run.webhook # "delivered",
           runs' = runs \cup {run}, UNCHANGED alerts,
           \/ MoveTo(run.task, "posting") /\ UNCHANGED manual
           \/ UNCHANGED phase /\ \A o : Posting(o)' => o = run.task,
           phase \in [Occurrences -> Phase]
    PROVE  AlertInv'
<1> SUFFICES ASSUME NEW o \in Occurrences
             PROVE  AlertState(o)'
  BY DEF AlertInv
<1>1. AlertState(o)
  BY DEF AlertInv
<1>2. RunOf(o)' = IF o = run.task THEN {run} ELSE RunOf(o)
  BY DEF RunOf
<1>3. CASE o # run.task
  <2>1. phase'[o] = phase[o]
    BY <1>3 DEF MoveTo
  <2>2. Posting(o)' => Posting(o)
    BY <1>3 DEF Posting
  <2> QED
    BY <1>1, <1>2, <1>3, <2>1, <2>2 DEF AlertState, Finalizing, AlertIsDue
<1>4. CASE o = run.task
  <2>1. alerts[o] = 0 /\ ~ Posting(o) /\ phase[o] \notin Finalizing
    BY <1>1, <1>4 DEF AlertState, PostedRunIsStored, Posting
  <2>2. \/ phase'[o] = "posting" /\ ~ Posting(o)'
        \/ phase'[o] \notin Finalizing
    BY <1>4, <2>1 DEF MoveTo, Posting
  <2> QED
    BY <1>2, <1>4, <2>1, <2>2 DEF AlertState, Finalizing
<1> QED
  BY <1>3, <1>4

LEMMA CommitWebhookKeepsAlerts ==
    ASSUME RunInv, AlertInv, NEW w \in Occurrences, CommitWebhook(w)
    PROVE  AlertInv'
<1>1. /\ runs' = (runs \ RunOf(w)) \cup {StoredRun(r) : r \in RunOf(w)}
      /\ MoveTo(w, "over") /\ UNCHANGED <<manual, alerts>>
      /\ phase[w] \in {"delivered", "failed", "not_required"}
  BY DEF CommitWebhook
<1>2. \A r \in RunOf(w) : /\ StoredRun(r).task = w
                          /\ StoredRun(r).webhook = phase[w]
                          /\ AlertIsDue(r) => AlertIsDue(StoredRun(r))
  BY DEF RunInv, RunTypes, MonitorRun, StoredRun, RunOf, AlertIsDue
<1> SUFFICES ASSUME NEW o \in Occurrences
             PROVE  AlertState(o)'
  BY <1>1 DEF AlertInv
<1>3. AlertState(o) /\ (Posting(o)' <=> Posting(o))
  BY <1>1 DEF AlertInv, Posting, NoManual
<1>4. phase \in [Occurrences -> Phase]
  BY DEF RunInv, RunTypes
<1>5. CASE o # w
  <2>1. RunOf(o)' = RunOf(o) /\ phase'[o] = phase[o]
    BY <1>1, <1>2, <1>4, <1>5 DEF RunOf, MoveTo
  <2> QED
    BY <1>1, <1>3, <2>1 DEF AlertState, AlertIsDue
<1>6. CASE o = w
  <2>1. /\ RunOf(o)' = {StoredRun(r) : r \in RunOf(w)}
        /\ phase'[o] = "over"
    BY <1>1, <1>2, <1>4, <1>6 DEF RunOf, MoveTo
  <2>2. alerts[o] = 1 => \E r \in RunOf(o)' : AlertIsDue(r)
    BY <1>2, <1>3, <1>6, <2>1 DEF AlertState
  <2>3. \A r \in RunOf(o)' : r.webhook = "delivered" => alerts[o] = 1
    BY <1>2, <1>3, <1>6, <2>1 DEF AlertState
  <2> QED
    BY <1>1, <1>3, <2>1, <2>2, <2>3 DEF AlertState, Finalizing, AlertIsDue
<1> QED
  BY <1>5, <1>6

LEMMA AlertInvIsInductive ==
    ASSUME RunInv, AlertInv, [Next]_vars
    PROVE  AlertInv'
<1>0. RunTypes /\ PostedRunIsStored /\ phase \in [Occurrences -> Phase]
  BY DEF RunInv, RunTypes
<1>1. ASSUME NEW o \in Occurrences, NEW label, label \notin Finalizing,
             MoveTo(o, label), UNCHANGED <<manual, runs, alerts>>
      PROVE  AlertInv'
  BY <1>0, <1>1, SameAlerts DEF MoveTo
<1>2. CASE Tick \/ CronStep \/ UNCHANGED vars
  <2>1. UNCHANGED <<phase, manual, runs, alerts>>
    BY <1>2 DEF Tick, CronStep, LaunchDueMonitors, LaunchRollsBack, Enqueue,
                EnqueueFails, LoseJobs, finalizeVars, runVars, vars
  <2> QED
    BY <2>1, SameAlerts
<1>3. ASSUME NEW w \in Occurrences, WorkerStep(w)
      PROVE  AlertInv'
  <2>1. CASE StartTask(w) \/ EndTask(w)
    <3>1. UNCHANGED <<phase, manual, runs, alerts>>
      BY <2>1 DEF StartTask, EndTask, finalizeVars, runVars
    <3> QED
      BY <3>1, SameAlerts
  <2>2. CASE CompleteTask(w)
    BY <1>1, <2>2 DEF CompleteTask, MoveTo, runVars, Finalizing
  <2>3. CASE BeginFinalize(w)
    BY <1>1, <2>3 DEF BeginFinalize, runVars, Finalizing
  <2>4. CASE CommitRun(w)
    <3> DEFINE run == Run(MonitorOf(w), w, read[w].previous, read[w].created,
                          Observed(w))
    <3>1. run.task = w /\ run.webhook # "delivered"
      BY DEF Run
    <3>2. UNCHANGED <<manual, alerts>>
      BY <2>4 DEF CommitRun
    <3>3. CASE MoveTo(w, "over") /\ UNCHANGED runs
      BY <1>1, <3>2, <3>3 DEF Finalizing
    <3>4. CASE /\ RunOf(w) = {} /\ runs' = runs \cup {run}
               /\ MoveTo(w, "posting")
      <4> HIDE DEF run
      <4> QED
        BY <1>0, <3>1, <3>2, <3>4, InsertKeepsAlerts
    <3> QED
      BY <2>4, <3>3, <3>4 DEF CommitRun, MayInsertRun
  <2>5. CASE DeliverWebhook(w)
    <3> SUFFICES ASSUME NEW o \in Occurrences
                 PROVE  AlertState(o)' /\ alerts' = [p \in Occurrences |-> alerts'[p]]
      BY DEF AlertInv
    <3>1. PICK run \in RunOf(w) :
             \/ AlertIsDue(run) /\ Send(w) /\ MoveTo(w, "delivered")
             \/ AlertIsDue(run) /\ Send(w) /\ MoveTo(w, "failed")
             \/ AlertIsDue(run) /\ UNCHANGED alerts /\ MoveTo(w, "failed")
             \/ ~ AlertIsDue(run) /\ UNCHANGED alerts /\ MoveTo(w, "not_required")
      BY <2>5 DEF DeliverWebhook
    <3>2. phase[w] = "posting" /\ UNCHANGED <<manual, runs>>
      BY <2>5 DEF DeliverWebhook
    <3>3. alerts' = [p \in Occurrences |-> alerts'[p]]
      BY <3>1 DEF Send, AlertInv
    <3>4. /\ AlertState(o) /\ AlertState(w)
          /\ RunOf(o)' = RunOf(o) /\ (Posting(o)' <=> Posting(o))
      BY <3>2 DEF AlertInv, RunOf, Posting, NoManual
    <3>5. alerts[w] = 0 /\ ~ Posting(w)
      BY <3>2, <3>4 DEF AlertState, Finalizing
    <3>6. CASE o # w
      <4>1. alerts'[o] = alerts[o] /\ phase'[o] = phase[o]
        BY <1>0, <3>1, <3>6 DEF Send, MoveTo, AlertInv
      <4> QED
        BY <3>3, <3>4, <4>1 DEF AlertState, AlertIsDue
    <3>7. CASE o = w
      <4>1. CASE Send(w)
        <5>1. AlertIsDue(run) /\ phase'[w] \in {"delivered", "failed"}
          BY <1>0, <3>1, <3>5, <4>1 DEF MoveTo, Send, AlertInv
        <5>2. alerts'[w] = 1
          BY <3>5, <4>1 DEF Send, AlertInv
        <5> QED
          BY <3>3, <3>4, <3>5, <3>7, <5>1, <5>2
             DEF AlertState, AlertIsDue, Finalizing
      <4>2. CASE UNCHANGED alerts
        <5>1. phase'[w] \in {"failed", "not_required"}
          BY <1>0, <3>1, <3>5, <4>2 DEF MoveTo, Send, AlertInv
        <5> QED
          BY <3>3, <3>4, <3>5, <3>7, <4>2, <5>1
             DEF AlertState, AlertIsDue, Finalizing
      <4> QED
        BY <3>1, <4>1, <4>2
    <3> QED
      BY <3>3, <3>6, <3>7
  <2>6. CASE CommitWebhook(w)
    BY <2>6, CommitWebhookKeepsAlerts
  <2>7. CASE CrashFinalization(w)
    BY <1>1, <2>7 DEF CrashFinalization, runVars, Finalizing
  <2> QED
    BY <1>3, <2>1, <2>2, <2>3, <2>4, <2>5, <2>6, <2>7 DEF WorkerStep
<1>4. CASE RequestStep
  <2>1. CASE \/ \E o \in Occurrences : RetryTask(o) \/ CancelQueuedTask(o)
             \/ \E m \in Monitors : PauseMonitor(m) \/ ResumeMonitor(m)
    <3>1. UNCHANGED <<phase, manual, runs, alerts>>
      BY <2>1 DEF RetryTask, CancelQueuedTask, PauseMonitor, ResumeMonitor,
                  finalizeVars, runVars
    <3> QED
      BY <3>1, SameAlerts
  <2>2. CASE \E m \in Monitors, o \in Occurrences : BeginManualRun(m, o)
    <3>1. ~ manual'.posting /\ UNCHANGED <<phase, runs, alerts>>
      BY <2>2 DEF BeginManualRun, runVars
    <3> QED
      BY <3>1, SameAlerts
  <2>3. CASE CommitManualRun
    <3> DEFINE run == Run(manual.monitor, manual.task, manual.previous,
                          manual.created, manual.observed)
    <3>1. run.task = manual.task /\ run.webhook # "delivered"
      BY DEF Run
    <3>2. manual # NoManual /\ UNCHANGED <<phase, alerts>>
      BY <2>3 DEF CommitManualRun, finalizeVars
    <3>3. CASE manual' = NoManual /\ UNCHANGED runs
      BY <3>2, <3>3, SameAlerts
    <3>4. CASE /\ RunOf(manual.task) = {} /\ runs' = runs \cup {run}
               /\ manual' = [manual EXCEPT !.posting = TRUE]
      <4>1. \A o : Posting(o)' => o = manual.task
        BY <1>0, <3>2, <3>4 DEF Posting, RunTypes
      <4> HIDE DEF run
      <4> QED
        BY <1>0, <3>1, <3>2, <3>4, <4>1, InsertKeepsAlerts
    <3> QED
      BY <2>3, <3>3, <3>4 DEF CommitManualRun
  <2>4. CASE PostManualRun
    <3>1. /\ Posting(manual.task) /\ manual.task \in Occurrences
          /\ manual' = NoManual /\ UNCHANGED <<phase, runs>>
      BY <1>0, <2>4 DEF PostManualRun, Posting, RunTypes, finalizeVars
    <3>2. CASE UNCHANGED alerts
      BY <3>1, <3>2, SameAlerts
    <3>3. CASE \E r \in RunOf(manual.task) : AlertIsDue(r) /\ Send(manual.task)
      <4> SUFFICES ASSUME NEW o \in Occurrences
                   PROVE  /\ AlertState(o)'
                          /\ alerts' = [p \in Occurrences |-> alerts'[p]]
        BY <3>1 DEF AlertInv
      <4>1. alerts' = [p \in Occurrences |-> alerts'[p]]
        BY <3>3 DEF Send, AlertInv
      <4>2. /\ AlertState(o) /\ RunOf(o)' = RunOf(o) /\ ~ Posting(o)'
            /\ phase'[o] = phase[o]
        BY <3>1 DEF AlertInv, RunOf, Posting
      <4>3. CASE o # manual.task
        <5>1. alerts'[o] = alerts[o]
          BY <3>3, <4>3 DEF Send, AlertInv
        <5> QED
          BY <4>1, <4>2, <5>1 DEF AlertState, AlertIsDue, Finalizing
      <4>4. CASE o = manual.task
        <5>1. /\ Posting(o) /\ alerts[o] = 0 /\ phase[o] \notin Finalizing
              /\ \E r \in RunOf(o) : AlertIsDue(r)
          BY <3>1, <3>3, <4>2, <4>4 DEF AlertState
        <5>2. alerts'[o] = 1
          BY <3>3, <4>4, <5>1 DEF Send, AlertInv
        <5> QED
          BY <4>1, <4>2, <5>1, <5>2 DEF AlertState, AlertIsDue, Finalizing
      <4> QED
        BY <4>3, <4>4
    <3> QED
      BY <2>4, <3>2, <3>3 DEF PostManualRun
  <2> QED
    BY <1>4, <2>1, <2>2, <2>3, <2>4 DEF RequestStep
<1> QED
  BY <1>2, <1>3, <1>4 DEF Next

(* The receiver is sent at most one request for a task, and one exactly    *)
(* when its run says delivered, for any number of racing finalizations,    *)
(* manual runs and crashes (finalize_monitor_task, create_monitor_run). *)
THEOREM AlertsAreSentAtMostOnce == Spec => []AlertsAreSentOnce
<1>1. Init => AlertInv
  BY DEF Init, AlertInv, AlertState, Finalizing, Posting, NoManual, RunOf
<1>2. RunInv /\ AlertInv /\ [Next]_vars => AlertInv'
  BY AlertInvIsInductive
<1>3. AlertInv => AlertsAreSentOnce
  BY DEF AlertInv, AlertState, AlertsAreSentOnce
<1> QED
  BY <1>1, <1>2, <1>3, RunInvariant, PTL DEF Spec
----------------------------------------------------------------------------
(* Pending alerts.  A run is pending from the commit of its finalization   *)
(* on, and a task is finalized once: it has completed by then.             *)

PendingAlertsAreDue ==
    \A r \in runs : r.webhook = "pending" => AlertIsDue(r)

PendingInv ==
    /\ task \in [Occurrences -> TaskStatus]
    /\ manual = NoManual
    /\ FinalizedTasksAreCompleted
    /\ PendingAlertHasASender
    /\ PendingAlertsAreDue

LEMMA PendingInvIsInductive ==
    ASSUME {"crash", "manual"} \cap Faults = {}, RunInv, PendingInv, [Next]_vars
    PROVE  PendingInv'
<1> USE DEF PendingInv, FinalizedTasksAreCompleted, PendingAlertHasASender,
            PendingAlertsAreDue
<1>0. RunTypes /\ OneRunPerTask
  BY DEF RunInv
<1>1. CASE LaunchDueMonitors
  <2>1. \A o \in Occurrences : task[o] # "absent" => task'[o] = task[o]
    BY <1>1 DEF LaunchDueMonitors, Launched
  <2>2. task' \in [Occurrences -> TaskStatus]
    BY <1>1 DEF LaunchDueMonitors, TaskStatus
  <2> QED
    BY <1>1, <2>1, <2>2 DEF LaunchDueMonitors, finalizeVars, runVars
<1>2. CASE Tick \/ (CronStep /\ ~ LaunchDueMonitors) \/ UNCHANGED vars
  BY <1>2 DEF Tick, CronStep, LaunchRollsBack, Enqueue, EnqueueFails, LoseJobs,
              monitorVars, taskVars, finalizeVars, runVars, vars
<1>3. CASE RequestStep
  <2>1. PICK o \in Occurrences : RetryTask(o) \/ CancelQueuedTask(o)
    BY <1>3 DEF RequestStep, PauseMonitor, ResumeMonitor, BeginManualRun,
                CommitManualRun, PostManualRun
  <2> QED
    BY <2>1 DEF RetryTask, CancelQueuedTask, TaskStatus, finalizeVars, runVars
<1>4. ASSUME NEW o \in Occurrences, WorkerStep(o)
      PROVE  PendingInv'
  <2>1. CASE StartTask(o) \/ EndTask(o)
    BY <2>1 DEF StartTask, EndTask, TaskStatus, finalizeVars, runVars
  <2>2. CASE CompleteTask(o)
    <3>1. \A r \in runs : r.webhook = "pending" => r.task # o
      BY <1>0, <2>2 DEF CompleteTask, RunTypes, MonitorRun
    <3> QED
      BY <1>0, <2>2, <3>1 DEF CompleteTask, TaskStatus, runVars, RunTypes
  <2>3. ASSUME NEW label \in Phase, MoveTo(o, label), phase[o] # "none",
               UNCHANGED <<task, manual>>
        PROVE  /\ task' \in [Occurrences -> TaskStatus] /\ manual' = NoManual
               /\ FinalizedTasksAreCompleted'
    BY <1>0, <2>3 DEF MoveTo, RunTypes
  <2>4. CASE BeginFinalize(o)
    <3>1. \A r \in runs : r.webhook = "pending" => r.task # o
      BY <2>4 DEF BeginFinalize
    <3>2. PICK label \in {"over", "recording"} : MoveTo(o, label)
      BY <2>4 DEF BeginFinalize
    <3>3. /\ UNCHANGED <<task, manual, runs>>
          /\ phase[o] # "none" /\ label \in Phase
      BY <2>4 DEF BeginFinalize, taskVars, runVars, Phase
    <3>4. PendingAlertHasASender' /\ PendingAlertsAreDue'
      BY <1>0, <3>1, <3>2, <3>3 DEF MoveTo, RunTypes, MonitorRun, AlertIsDue
    <3> QED
      BY <2>3, <3>2, <3>3, <3>4
  <2>5. CASE CommitRun(o)
    <3>1. \A r \in runs : r.webhook = "pending" => r.task # o
      BY <2>5 DEF CommitRun
    <3> DEFINE run == Run(MonitorOf(o), o, read[o].previous, read[o].created,
                          Observed(o))
    <3>2. /\ run.task = o
          /\ run.webhook = "pending" => AlertIsDue(run)
      BY DEF Run, AlertIsDue
    <3> HIDE DEF run
    <3>3. \/ MoveTo(o, "posting") /\ runs' = runs \cup {run}
          \/ MoveTo(o, "over") /\ UNCHANGED runs
      BY <2>5 DEF CommitRun, run
    <3>4. PendingAlertHasASender' /\ PendingAlertsAreDue'
      BY <1>0, <3>1, <3>2, <3>3 DEF MoveTo, RunTypes, MonitorRun
    <3> QED
      BY <2>3, <2>5, <3>3, <3>4 DEF CommitRun, taskVars, Phase
  <2>6. CASE DeliverWebhook(o)
    <3>1. PICK run \in RunOf(o) :
             \/ AlertIsDue(run) /\ (MoveTo(o, "delivered") \/ MoveTo(o, "failed"))
             \/ ~ AlertIsDue(run) /\ MoveTo(o, "not_required")
      BY <2>6 DEF DeliverWebhook
    <3>2. PICK label \in {"delivered", "failed", "not_required"} :
             MoveTo(o, label) /\ (label = "not_required" => ~ AlertIsDue(run))
      BY <3>1
    <3>3. /\ UNCHANGED <<task, manual, runs>>
          /\ phase[o] # "none" /\ label \in Phase
      BY <2>6 DEF DeliverWebhook, taskVars, Phase
    <3>4. label = "not_required"
            => \A r \in runs : r.webhook = "pending" => r.task # o
      BY <1>0, <3>2 DEF RunOf, OneRunPerTask
    <3>5. PendingAlertHasASender' /\ PendingAlertsAreDue'
      BY <1>0, <3>2, <3>3, <3>4 DEF MoveTo, RunTypes, MonitorRun, AlertIsDue
    <3> QED
      BY <2>3, <3>2, <3>3, <3>5
  <2>7. CASE CommitWebhook(o)
    <3>1. \A r \in runs : /\ StoredRun(r).webhook = phase[r.task]
                          /\ StoredRun(r).task = r.task
      BY <1>0 DEF StoredRun, RunTypes, MonitorRun
    <3>2. \A r \in runs' : \/ r \in runs /\ r.task # o
                           \/ r.webhook = phase[o] /\ r.task = o
      <4>1. runs' = (runs \ RunOf(o)) \cup {StoredRun(r) : r \in RunOf(o)}
        BY <2>7 DEF CommitWebhook
      <4>2. \A q \in {StoredRun(r) : r \in RunOf(o)} :
               q.webhook = phase[o] /\ q.task = o
        BY <3>1 DEF RunOf
      <4>3. \A r \in runs \ RunOf(o) : r \in runs /\ r.task # o
        BY DEF RunOf
      <4> QED
        BY <4>1, <4>2, <4>3
    <3>3. PendingAlertHasASender' /\ PendingAlertsAreDue'
      BY <1>0, <2>7, <3>2 DEF CommitWebhook, MoveTo, RunTypes, Phase
    <3> QED
      BY <2>3, <2>7, <3>3 DEF CommitWebhook, taskVars, Phase
  <2> QED
    BY <1>4, <2>1, <2>2, <2>4, <2>5, <2>6, <2>7
       DEF WorkerStep, CrashFinalization
<1> QED
  BY <1>1, <1>2, <1>3, <1>4 DEF Next

(* Unless its process dies, a finalization sends the alert of a run that   *)
(* is pending or writes down that it failed: no alert is left pending by   *)
(* the order in which occurrences, retries and attempts finalize. *)
THEOREM PendingAlertsAreSent ==
    ASSUME {"crash", "manual"} \cap Faults = {}
    PROVE  Spec => []PendingAlertHasASender
<1>1. Init => PendingInv
  BY DEF Init, PendingInv, FinalizedTasksAreCompleted, PendingAlertHasASender,
         PendingAlertsAreDue, TaskStatus
<1>2. RunInv /\ PendingInv /\ [Next]_vars => PendingInv'
  BY PendingInvIsInductive
<1>3. PendingInv => PendingAlertHasASender
  BY DEF PendingInv
<1> QED
  BY <1>1, <1>2, <1>3, RunInvariant, PTL DEF Spec
----------------------------------------------------------------------------
(* The grid.  Occurrences lie a whole number of intervals after creation:  *)
(* the cron job skips whole intervals, and a finalization counts from the  *)
(* occurrence of its task, however late it comes.                          *)

Multiples == {Interval * k : k \in Nat}

LEMMA MultiplesGoOn ==
    ASSUME NEW a \in Multiples, NEW k \in Nat
    PROVE  a + Interval * k \in Multiples
<1>1. PICK j \in Nat : a = Interval * j
  BY DEF Multiples
<1>2. Interval \in Nat
  BY MonitorAssumption
<1>3. a + Interval * k = Interval * (j + k)
  BY <1>1, <1>2
<1>4. j + k \in Nat
  OBVIOUS
<1> QED
  BY <1>3, <1>4 DEF Multiples

LEMMA MultiplesHaveNoRest ==
    ASSUME NEW a \in Multiples
    PROVE  a \in Nat /\ a % Interval = 0
<1>1. PICK k \in Nat : a = Interval * k
  BY DEF Multiples
<1>2. Interval \in Nat /\ Interval > 0
  BY MonitorAssumption
<1>3. a \in Nat
  BY <1>1, <1>2
<1>4. a % Interval = 0
  BY <1>1, <1>2
<1> QED
  BY <1>3, <1>4

GridInv ==
    /\ now \in Nat
    /\ manual = NoManual
    /\ nextRun \in [Monitors -> Multiples]
    /\ task \in [Occurrences -> TaskStatus]
    /\ phase \in [Occurrences -> Phase]
    /\ \A o \in Occurrences : phase[o] # "none" => o \in Launched
    /\ \A o \in Launched : ScheduledFor(o) \in Multiples

LEMMA NextStaysOnGrid ==
    ASSUME NEW s \in Multiples, now \in Nat, s =< now
    PROVE  NextAfterNow(s) \in Multiples
<1>1. Interval \in Nat /\ Interval > 0 /\ s \in Nat
  BY MonitorAssumption, MultiplesHaveNoRest
<1>2. now - s \in Nat
  BY <1>1
<1>3. (now - s) \div Interval + 1 \in Nat
  BY <1>1, <1>2
<1> QED
  BY <1>3, MultiplesGoOn DEF NextAfterNow

LEMMA LaunchStaysOnGrid ==
    ASSUME GridInv, LaunchDueMonitors
    PROVE  GridInv'
<1> DEFINE created == {<<m, nextRun[m]>> : m \in Due}
<1>1. \A m \in Due : m \in Monitors /\ nextRun[m] =< now
  BY DEF Due
<1>2. nextRun' \in [Monitors -> Multiples]
  BY <1>1, NextStaysOnGrid DEF LaunchDueMonitors, GridInv
<1>3. \A o \in Occurrences :
         task'[o] = IF o \in created THEN "queued" ELSE task[o]
  BY DEF LaunchDueMonitors
<1>4. task' \in [Occurrences -> TaskStatus]
  BY <1>3 DEF LaunchDueMonitors, GridInv, TaskStatus
<1>5. Launched \subseteq Launched' /\ Launched' \subseteq Launched \cup created
  BY <1>3 DEF Launched
<1>6. \A o \in created : ScheduledFor(o) \in Multiples
  BY <1>1 DEF ScheduledFor, GridInv
<1>7. \A o \in Launched' : ScheduledFor(o) \in Multiples
  BY <1>5, <1>6 DEF GridInv
<1>8. \A o \in Occurrences : phase[o] # "none" => o \in Launched'
  BY <1>5 DEF GridInv
<1>9. UNCHANGED <<now, manual, phase>>
  BY DEF LaunchDueMonitors, finalizeVars
<1> QED
  BY <1>2, <1>4, <1>7, <1>8, <1>9 DEF GridInv, ScheduledFor

(* A step that launches nothing. *)
LEMMA NothingLaunchedStaysOnGrid ==
    ASSUME GridInv, now' \in Nat, UNCHANGED manual,
           nextRun' \in [Monitors -> Multiples],
           task' \in [Occurrences -> TaskStatus],
           phase' \in [Occurrences -> Phase],
           \A o \in Occurrences : task'[o] # "absent" <=> task[o] # "absent",
           \A o \in Occurrences :
              phase'[o] # "none" => phase[o] # "none" \/ task'[o] # "absent"
    PROVE  GridInv'
<1>1. Launched' = Launched
  BY DEF Launched
<1>2. \A o \in Occurrences : phase'[o] # "none" => o \in Launched
  BY DEF GridInv, Launched
<1> QED
  BY <1>1, <1>2 DEF GridInv, ScheduledFor

(* A task moves, or its finalization does. *)
LEMMA TaskStepStaysOnGrid ==
    ASSUME GridInv, NEW o \in Occurrences, task[o] # "absent",
           NEW status \in TaskStatus \ {"absent"}, NEW label \in Phase,
           task' = [task EXCEPT ![o] = status],
           phase' = [phase EXCEPT ![o] = label],
           nextRun' \in [Monitors -> Multiples],
           UNCHANGED <<now, manual>>
    PROVE  GridInv'
<1>1. \A p \in Occurrences :
         /\ task'[p] = IF p = o THEN status ELSE task[p]
         /\ phase'[p] = IF p = o THEN label ELSE phase[p]
  BY DEF GridInv
<1>2. /\ task' \in [Occurrences -> TaskStatus]
      /\ phase' \in [Occurrences -> Phase]
  BY DEF GridInv
<1> QED
  BY <1>1, <1>2, NothingLaunchedStaysOnGrid DEF GridInv

(* A finalization counts the next run from the occurrence of its task. *)
LEMMA CommitRunStaysOnGrid ==
    ASSUME GridInv, NEW o \in Occurrences, CommitRun(o)
    PROVE  nextRun' \in [Monitors -> Multiples]
<1>1. ScheduledFor(o) \in Multiples
  BY DEF GridInv, CommitRun
<1>2. Interval * 1 = Interval
  BY MonitorAssumption
<1>3. ScheduledFor(o) + Interval \in Multiples
  BY <1>1, <1>2, MultiplesGoOn
<1>4. \/ nextRun' = nextRun
      \/ WriteNextRun(o, ScheduledFor(o) + Interval)
  BY DEF CommitRun, Run, Observed
<1> QED
  BY <1>3, <1>4 DEF WriteNextRun, GridInv

LEMMA GridInvIsInductive ==
    ASSUME "manual" \notin Faults, GridInv, [Next]_vars
    PROVE  GridInv'
<1>0. /\ nextRun \in [Monitors -> Multiples] /\ now \in Nat
      /\ task \in [Occurrences -> TaskStatus]
      /\ phase \in [Occurrences -> Phase]
      /\ \A o \in Occurrences : phase[o] # "none" => task[o] # "absent"
  BY DEF GridInv, Launched
<1>1. CASE LaunchDueMonitors
  BY <1>1, LaunchStaysOnGrid
<1>2. CASE Tick \/ (CronStep /\ ~ LaunchDueMonitors) \/ UNCHANGED vars
  <2>1. UNCHANGED <<manual, nextRun, task, phase>> /\ now' \in Nat
    BY <1>0, <1>2
       DEF Tick, CronStep, LaunchRollsBack, Enqueue, EnqueueFails, LoseJobs,
           monitorVars, taskVars, finalizeVars, vars
  <2> QED
    BY <1>0, <2>1, NothingLaunchedStaysOnGrid
<1>3. CASE RequestStep
  <2>1. PICK o \in Occurrences : RetryTask(o) \/ CancelQueuedTask(o)
    BY <1>3 DEF RequestStep, GridInv, PauseMonitor, ResumeMonitor,
                BeginManualRun, CommitManualRun, PostManualRun
  <2>2. PICK status \in {"queued", "cancelled"} :
           task[o] # "absent" /\ task' = [task EXCEPT ![o] = status]
    BY <2>1 DEF RetryTask, CancelQueuedTask
  <2>3. /\ phase' = [phase EXCEPT ![o] = phase[o]]
        /\ UNCHANGED <<now, manual, nextRun>>
    BY <1>0, <2>1 DEF RetryTask, CancelQueuedTask, monitorVars, finalizeVars
  <2> QED
    BY <1>0, <2>2, <2>3, TaskStepStaysOnGrid DEF TaskStatus
<1>4. ASSUME NEW o \in Occurrences, WorkerStep(o)
      PROVE  GridInv'
  <2>0. /\ task = [task EXCEPT ![o] = task[o]]
        /\ phase = [phase EXCEPT ![o] = phase[o]]
        /\ task[o] \in TaskStatus /\ phase[o] \in Phase
    BY <1>0
  <2>1. CASE StartTask(o)
    <3>1. UNCHANGED <<now, manual, nextRun, phase>>
      BY <2>1 DEF StartTask, monitorVars, finalizeVars
    <3>2. CASE task[o] = "queued"
      BY <1>0, <2>0, <2>1, <3>1, <3>2, TaskStepStaysOnGrid
         DEF StartTask, TaskStatus
    <3>3. CASE task[o] # "queued"
      BY <1>0, <2>0, <2>1, <3>1, <3>3, NothingLaunchedStaysOnGrid
         DEF StartTask
    <3> QED
      BY <3>2, <3>3
  <2>2. CASE CompleteTask(o)
    BY <1>0, <2>2, TaskStepStaysOnGrid
       DEF CompleteTask, monitorVars, TaskStatus, Phase
  <2>3. CASE EndTask(o)
    <3>1. PICK outcome \in {"partial", "cancelled"} :
             task' = [task EXCEPT ![o] = outcome]
      BY <2>3 DEF EndTask
    <3>2. /\ UNCHANGED <<now, manual, nextRun, phase>>
          /\ task[o] # "absent"
      BY <2>3 DEF EndTask, monitorVars, finalizeVars
    <3>3. outcome \in TaskStatus \ {"absent"}
      BY DEF TaskStatus
    <3>4. phase' = [phase EXCEPT ![o] = phase[o]]
      BY <2>0, <3>2
    <3> QED
      BY <1>0, <2>0, <3>1, <3>2, <3>3, <3>4, TaskStepStaysOnGrid
  <2>4. ASSUME NEW label \in Phase, MoveTo(o, label), phase[o] # "none",
               nextRun' \in [Monitors -> Multiples],
               UNCHANGED <<now, task, manual>>
        PROVE  GridInv'
    <3>1. task[o] \in TaskStatus \ {"absent"} /\ task' = [task EXCEPT ![o] = task[o]]
      BY <1>0, <2>0, <2>4
    <3> QED
      BY <2>4, <3>1, TaskStepStaysOnGrid DEF MoveTo
  <2>5. CASE BeginFinalize(o)
    BY <1>0, <2>4, <2>5 DEF BeginFinalize, monitorVars, taskVars, Phase
  <2>6. CASE CommitRun(o)
    BY <1>0, <2>4, <2>6, CommitRunStaysOnGrid DEF CommitRun, taskVars, Phase
  <2>7. CASE DeliverWebhook(o)
    BY <1>0, <2>4, <2>7 DEF DeliverWebhook, monitorVars, taskVars, Phase
  <2>8. CASE CommitWebhook(o)
    BY <1>0, <2>4, <2>8 DEF CommitWebhook, monitorVars, taskVars, Phase
  <2>9. CASE CrashFinalization(o)
    BY <1>0, <2>4, <2>9 DEF CrashFinalization, monitorVars, taskVars, Phase
  <2> QED
    BY <1>4, <2>1, <2>2, <2>3, <2>5, <2>6, <2>7, <2>8, <2>9 DEF WorkerStep
<1> QED
  BY <1>1, <1>2, <1>3, <1>4 DEF Next

(* Unless a client resumes a monitor or records a run itself, occurrences  *)
(* stay a whole number of intervals apart, however late the cron job runs  *)
(* and however long tasks and their finalizations take. *)
THEOREM ScheduleStaysOnGrid ==
    ASSUME "manual" \notin Faults
    PROVE  Spec => []ScheduleDoesNotDrift
<1>1. Init => GridInv
  <2> SUFFICES ASSUME Init PROVE GridInv
    OBVIOUS
  <2>1. Interval \in Multiples
    BY MonitorAssumption DEF Multiples
  <2>2. Launched = {}
    BY DEF Init, Launched
  <2> QED
    BY <2>1, <2>2 DEF Init, GridInv, TaskStatus, Phase
<1>2. GridInv /\ [Next]_vars => GridInv'
  BY GridInvIsInductive
<1>3. GridInv => ScheduleDoesNotDrift
  BY MultiplesHaveNoRest DEF GridInv, ScheduleDoesNotDrift
<1> QED
  BY <1>1, <1>2, <1>3, PTL DEF Spec
----------------------------------------------------------------------------
(* The order of runs.  Of the tasks of a monitor at most one is open, that *)
(* of its latest occurrence: a finalization reads the run of the latest    *)
(* occurrence that has one, and no run comes between its read and its      *)
(* commit.  The order of created_at is therefore that of the occurrences.  *)

CompletedTasksHaveContents ==
    \A o \in Occurrences : task[o] = "completed" => hashes[o] \in Contents

RunsAreOfFinalizedTasks ==
    \A r \in runs :
        /\ r.monitor = MonitorOf(r.task)
        /\ task[r.task] = "completed"
        /\ phase[r.task] \notin {"none", "completed", "recording"}
        /\ r.hashes \in Contents
        /\ r.created =< begun

RunsAreStampedInOrder ==
    \A r, q \in runs :
        r.monitor = q.monitor /\ ScheduledFor(q.task) < ScheduledFor(r.task)
            => q.created < r.created

IsLatest(r) ==
    \A q \in RunsOf(r.monitor) : ScheduledFor(q.task) =< ScheduledFor(r.task)

LatestRunsExist ==
    \A m \in Monitors : RunsOf(m) = {} \/ \E r \in RunsOf(m) : IsLatest(r)

ReadIsCurrent(o) ==
    /\ read[o].created \in 0 .. begun
    /\ \A q \in RunsOf(MonitorOf(o)) : /\ q.created < read[o].created
                                       /\ ScheduledFor(q.task) < ScheduledFor(o)
    /\ \/ RunsOf(MonitorOf(o)) = {} /\ read[o].previous = "none"
       \/ \E q \in RunsOf(MonitorOf(o)) :
             IsLatest(q) /\ read[o].previous = q.hashes

ReadsAreCurrent ==
    \A o \in Occurrences : phase[o] = "recording" => ReadIsCurrent(o)

CompareInv ==
    /\ CompletedTasksHaveContents
    /\ RunsAreOfFinalizedTasks
    /\ RunsAreStampedInOrder
    /\ LatestRunsExist
    /\ ReadsAreCurrent
    /\ RunsCompareWithTheRunBefore

(* What the numbers below range over. *)
LEMMA RunFields ==
    ASSUME RunTypes, NEW r \in runs
    PROVE  /\ r.monitor \in Monitors /\ r.task \in Occurrences
           /\ r.created \in Nat
           /\ MonitorOf(r.task) \in Monitors
           /\ ScheduledFor(r.task) \in Nat
           /\ r.task = <<MonitorOf(r.task), ScheduledFor(r.task)>>
<1>1. r \in MonitorRun
  BY DEF RunTypes
<1>2. /\ r.monitor \in Monitors /\ r.task \in Occurrences /\ r.created \in Nat
  BY <1>1 DEF MonitorRun
<1> QED
  BY <1>2, OccurrenceFields

(* Two runs of a monitor for one occurrence are the same run. *)
LEMMA SameOccurrenceSameRun ==
    ASSUME RunTypes, OneRunPerTask, RunsAreOfFinalizedTasks,
           NEW r \in runs, NEW q \in runs, r.monitor = q.monitor,
           ScheduledFor(r.task) = ScheduledFor(q.task)
    PROVE  r = q
<1>1. /\ r.task = <<MonitorOf(r.task), ScheduledFor(r.task)>>
      /\ q.task = <<MonitorOf(q.task), ScheduledFor(q.task)>>
  BY RunFields
<1>2. MonitorOf(r.task) = r.monitor /\ MonitorOf(q.task) = q.monitor
  BY DEF RunsAreOfFinalizedTasks
<1>3. r.task = q.task
  BY <1>1, <1>2
<1> QED
  BY <1>3 DEF OneRunPerTask

(* The newest run is that of the latest occurrence. *)
LEMMA PreviousIsLatest ==
    ASSUME RunTypes, OneRunPerTask, RunsAreOfFinalizedTasks,
           RunsAreStampedInOrder, LatestRunsExist, NEW m \in Monitors,
           RunsOf(m) # {}
    PROVE  \E r \in RunsOf(m) : IsLatest(r) /\ PreviousHashes(m) = r.hashes
<1>1. PICK l \in RunsOf(m) : IsLatest(l)
  BY DEF LatestRunsExist
<1>2. \A q \in RunsOf(m) : q \in runs /\ q.monitor = m
  BY DEF RunsOf
<1>3. \A q \in RunsOf(m) : q.created =< l.created
  <2> SUFFICES ASSUME NEW q \in RunsOf(m)
               PROVE  q.created =< l.created
    OBVIOUS
  <2>1. /\ ScheduledFor(q.task) \in Nat /\ ScheduledFor(l.task) \in Nat
        /\ q.created \in Nat /\ l.created \in Nat
    BY <1>2, RunFields
  <2>2. ScheduledFor(q.task) =< ScheduledFor(l.task)
    BY <1>1, <1>2 DEF IsLatest
  <2>3. CASE ScheduledFor(q.task) = ScheduledFor(l.task)
    <3>1. q = l
      BY <1>2, <2>3, SameOccurrenceSameRun
    <3> QED
      BY <2>1, <3>1
  <2>4. CASE ScheduledFor(q.task) < ScheduledFor(l.task)
    <3>1. q.created < l.created
      BY <1>2, <2>4 DEF RunsAreStampedInOrder
    <3> QED
      BY <2>1, <3>1
  <2> QED
    BY <2>1, <2>2, <2>3, <2>4
<1> DEFINE newest == CHOOSE r \in RunsOf(m) :
                        \A q \in RunsOf(m) : q.created =< r.created
<1>4. newest \in RunsOf(m) /\ \A q \in RunsOf(m) : q.created =< newest.created
  BY <1>1, <1>3
<1>5. PreviousHashes(m) = newest.hashes
  BY DEF PreviousHashes
<1> HIDE DEF newest
<1>6. newest = l
  <2>1. /\ ScheduledFor(newest.task) \in Nat /\ ScheduledFor(l.task) \in Nat
        /\ newest.created \in Nat /\ l.created \in Nat
    BY <1>1, <1>2, <1>4, RunFields
  <2>2. ScheduledFor(newest.task) =< ScheduledFor(l.task)
    BY <1>1, <1>2, <1>4 DEF IsLatest
  <2>3. ~ (ScheduledFor(newest.task) < ScheduledFor(l.task))
    <3> SUFFICES ASSUME ScheduledFor(newest.task) < ScheduledFor(l.task)
                 PROVE  FALSE
      OBVIOUS
    <3>1. newest.created < l.created
      BY <1>1, <1>2, <1>4 DEF RunsAreStampedInOrder
    <3>2. l.created =< newest.created
      BY <1>1, <1>4
    <3> QED
      BY <2>1, <3>1, <3>2
  <2>4. ScheduledFor(newest.task) = ScheduledFor(l.task)
    BY <2>1, <2>2, <2>3
  <2> QED
    BY <1>1, <1>2, <1>4, <2>4, SameOccurrenceSameRun
<1> QED
  BY <1>1, <1>5, <1>6

(* Of the tasks of a monitor at most one is being finalized, and every run *)
(* is of an earlier occurrence. *)
LEMMA OpenTaskIsAfterRuns ==
    ASSUME ScheduleInv, RunTypes, RunsAreOfFinalizedTasks,
           NEW o \in Occurrences, phase[o] \notin {"none", "over"},
           NEW r \in runs, r.monitor = MonitorOf(o), r.task # o
    PROVE  ScheduledFor(r.task) < ScheduledFor(o)
<1>1. /\ MonitorOf(o) \in Monitors /\ ScheduledFor(o) \in Nat
      /\ o = <<MonitorOf(o), ScheduledFor(o)>>
      /\ ScheduledFor(r.task) \in Nat /\ r.task \in Occurrences
      /\ r.task = <<MonitorOf(r.task), ScheduledFor(r.task)>>
  BY OccurrenceFields, RunFields
<1>2. o \in Launched /\ ~ Over(o)
  BY DEF ScheduleInv, FinalizedTasksAreCompleted, Launched, Over
<1>3. r.task \in Launched /\ MonitorOf(r.task) = MonitorOf(o)
  BY <1>1 DEF RunsAreOfFinalizedTasks, Launched
<1>4. /\ ScheduledFor(o) + Interval = nextRun[MonitorOf(o)]
      /\ ScheduledFor(r.task) + Interval =< nextRun[MonitorOf(o)]
  BY <1>2, <1>3 DEF ScheduleInv, OpenTasksAreLatest, LaunchedBeforeNext
<1>5. Interval \in Nat
  BY MonitorAssumption
<1>6. ScheduledFor(r.task) =< ScheduledFor(o)
  BY <1>1, <1>4, <1>5
<1>7. ScheduledFor(r.task) # ScheduledFor(o)
  BY <1>1, <1>3
<1> QED
  BY <1>1, <1>6, <1>7

LEMMA OpenTasksAreOfDifferentMonitors ==
    ASSUME ScheduleInv,
           NEW o \in Occurrences, phase[o] \notin {"none", "over"},
           NEW p \in Occurrences, phase[p] \notin {"none", "over"},
           MonitorOf(o) = MonitorOf(p)
    PROVE  o = p
<1>1. /\ o \in Launched /\ ~ Over(o)
      /\ p \in Launched /\ ~ Over(p)
  BY DEF ScheduleInv, FinalizedTasksAreCompleted, Launched, Over
<1>2. /\ ScheduledFor(o) + Interval = nextRun[MonitorOf(o)]
      /\ ScheduledFor(p) + Interval = nextRun[MonitorOf(p)]
  BY <1>1 DEF ScheduleInv, OpenTasksAreLatest
<1>3. /\ ScheduledFor(o) \in Nat /\ o = <<MonitorOf(o), ScheduledFor(o)>>
      /\ ScheduledFor(p) \in Nat /\ p = <<MonitorOf(p), ScheduledFor(p)>>
  BY OccurrenceFields
<1>4. Interval \in Nat
  BY MonitorAssumption
<1>5. ScheduledFor(o) = ScheduledFor(p)
  BY <1>2, <1>3, <1>4
<1> QED
  BY <1>3, <1>5

(* Rows that differ in their webhook_status at most. *)
Twins(r, q) ==
    /\ q.monitor = r.monitor
    /\ q.task = r.task
    /\ q.hashes = r.hashes
    /\ q.changed = r.changed
    /\ q.created = r.created

(* A read stays current as long as no run is inserted. *)
LEMMA ReadStaysCurrent ==
    ASSUME NEW o \in Occurrences, ReadIsCurrent(o), read'[o] = read[o],
           begun \in Nat, begun' \in Nat, begun =< begun',
           \A q \in runs' : \E r \in runs : Twins(r, q),
           \A r \in runs : \E q \in runs' : Twins(r, q)
    PROVE  ReadIsCurrent(o)'
<1> DEFINE m == MonitorOf(o)
<1>0. MonitorOf(o)' = m /\ ScheduledFor(o)' = ScheduledFor(o)
  BY DEF MonitorOf, ScheduledFor
<1> HIDE DEF m
<1>1. \A q \in RunsOf(m)' : \E r \in RunsOf(m) : Twins(r, q)
  BY DEF RunsOf, Twins
<1>2. \A r \in RunsOf(m) : \E q \in RunsOf(m)' : Twins(r, q)
  BY DEF RunsOf, Twins
<1>3. /\ read[o].created \in 0 .. begun
      /\ \A q \in RunsOf(m) : /\ q.created < read[o].created
                              /\ ScheduledFor(q.task) < ScheduledFor(o)
      /\ \/ RunsOf(m) = {} /\ read[o].previous = "none"
         \/ \E q \in RunsOf(m) : IsLatest(q) /\ read[o].previous = q.hashes
  BY DEF ReadIsCurrent, m
<1>4. read'[o].created \in 0 .. begun'
  BY <1>3
<1>5. \A q \in RunsOf(m)' : /\ q.created < read'[o].created
                            /\ ScheduledFor(q.task) < ScheduledFor(o)
  BY <1>1, <1>3 DEF Twins
<1>6. \/ RunsOf(m)' = {} /\ read'[o].previous = "none"
      \/ \E q \in RunsOf(m)' : IsLatest(q)' /\ read'[o].previous = q.hashes
  <2>1. CASE RunsOf(m) = {} /\ read[o].previous = "none"
    BY <1>1, <2>1
  <2>2. ASSUME NEW r \in RunsOf(m), IsLatest(r), read[o].previous = r.hashes
        PROVE  \E q \in RunsOf(m)' : IsLatest(q)' /\ read'[o].previous = q.hashes
    <3>1. PICK q \in RunsOf(m)' : Twins(r, q)
      BY <1>2
    <3>2. r.monitor = m /\ q.monitor = m /\ q.task = r.task
      BY <3>1 DEF Twins, RunsOf
    <3>3. \A p \in RunsOf(m) : ScheduledFor(p.task) =< ScheduledFor(r.task)
      BY <2>2, <3>2 DEF IsLatest
    <3>4. \A p \in RunsOf(m)' : ScheduledFor(p.task) =< ScheduledFor(q.task)
      BY <1>1, <3>2, <3>3 DEF Twins
    <3>5. IsLatest(q)'
      BY <3>2, <3>4 DEF IsLatest, ScheduledFor
    <3> QED
      BY <2>2, <3>1, <3>5 DEF Twins
  <2> QED
    BY <1>3, <2>1, <2>2
<1> QED
  BY <1>0, <1>4, <1>5, <1>6 DEF ReadIsCurrent, ScheduledFor

(* A step that inserts no run. *)
LEMMA SameRunsSameOrder ==
    ASSUME CompareInv, begun \in Nat, begun' \in Nat, begun =< begun',
           \A r \in runs : r.created \in Nat,
           \A q \in runs' : \E r \in runs : Twins(r, q),
           \A r \in runs : \E q \in runs' : Twins(r, q),
           \A r \in runs :
              /\ task'[r.task] = "completed"
              /\ phase'[r.task] \notin {"none", "completed", "recording"},
           CompletedTasksHaveContents',
           \A o \in Occurrences :
              phase'[o] = "recording" => \/ /\ phase[o] = "recording"
                                            /\ read'[o] = read[o]
                                         \/ ReadIsCurrent(o)'
    PROVE  CompareInv'
<1>1. RunsAreOfFinalizedTasks'
  <2> SUFFICES ASSUME NEW q \in runs'
               PROVE  /\ q.monitor = MonitorOf(q.task)
                      /\ task'[q.task] = "completed"
                      /\ phase'[q.task] \notin {"none", "completed", "recording"}
                      /\ q.hashes \in Contents
                      /\ q.created =< begun'
    BY DEF RunsAreOfFinalizedTasks, MonitorOf
  <2>1. PICK r \in runs : Twins(r, q)
    OBVIOUS
  <2>2. /\ r.monitor = MonitorOf(r.task) /\ r.hashes \in Contents
        /\ r.created =< begun /\ r.created \in Nat
    BY DEF CompareInv, RunsAreOfFinalizedTasks
  <2> QED
    BY <2>1, <2>2 DEF Twins
<1>2. RunsAreStampedInOrder'
  <2> SUFFICES ASSUME NEW r1 \in runs', NEW q1 \in runs',
                      r1.monitor = q1.monitor,
                      ScheduledFor(q1.task) < ScheduledFor(r1.task)
               PROVE  q1.created < r1.created
    BY DEF RunsAreStampedInOrder, ScheduledFor
  <2>1. PICK r \in runs : Twins(r, r1)
    OBVIOUS
  <2>2. PICK q \in runs : Twins(q, q1)
    OBVIOUS
  <2>3. r.monitor = q.monitor /\ ScheduledFor(q.task) < ScheduledFor(r.task)
    BY <2>1, <2>2 DEF Twins
  <2>4. q.created < r.created
    BY <2>3 DEF CompareInv, RunsAreStampedInOrder
  <2> QED
    BY <2>1, <2>2, <2>4 DEF Twins
<1>3. LatestRunsExist'
  <2> SUFFICES ASSUME NEW m \in Monitors, RunsOf(m)' # {}
               PROVE  \E q \in RunsOf(m)' : IsLatest(q)'
    BY DEF LatestRunsExist
  <2>1. \A q \in RunsOf(m)' : \E r \in RunsOf(m) : Twins(r, q)
    BY DEF RunsOf, Twins
  <2>2. \A r \in RunsOf(m) : \E q \in RunsOf(m)' : Twins(r, q)
    BY DEF RunsOf, Twins
  <2>3. RunsOf(m) # {}
    BY <2>1
  <2>4. PICK l \in RunsOf(m) : IsLatest(l)
    BY <2>3 DEF CompareInv, LatestRunsExist
  <2>5. PICK q \in RunsOf(m)' : Twins(l, q)
    BY <2>2
  <2>6. l.monitor = m /\ q.monitor = m /\ q.task = l.task
    BY <2>5 DEF RunsOf, Twins
  <2>7. \A p \in RunsOf(m) : ScheduledFor(p.task) =< ScheduledFor(l.task)
    BY <2>4, <2>6 DEF IsLatest
  <2>8. \A p \in RunsOf(m)' : ScheduledFor(p.task) =< ScheduledFor(q.task)
    BY <2>1, <2>6, <2>7 DEF Twins
  <2> QED
    BY <2>6, <2>8 DEF IsLatest, ScheduledFor
<1>4. ReadsAreCurrent'
  <2> SUFFICES ASSUME NEW o \in Occurrences, phase'[o] = "recording"
               PROVE  ReadIsCurrent(o)'
    BY DEF ReadsAreCurrent
  <2>1. phase[o] = "recording" => ReadIsCurrent(o)
    BY DEF CompareInv, ReadsAreCurrent
  <2> QED
    BY <2>1, ReadStaysCurrent
<1>5. RunsCompareWithTheRunBefore'
  <2> SUFFICES ASSUME NEW r1 \in runs', NEW q1 \in runs',
                      r1.monitor = q1.monitor,
                      ScheduledFor(q1.task) < ScheduledFor(r1.task),
                      ~ \E p \in runs' :
                          /\ p.monitor = r1.monitor
                          /\ ScheduledFor(q1.task) < ScheduledFor(p.task)
                          /\ ScheduledFor(p.task) < ScheduledFor(r1.task)
               PROVE  r1.changed <=> r1.hashes # q1.hashes
    BY DEF RunsCompareWithTheRunBefore, ScheduledFor
  <2>1. PICK r \in runs : Twins(r, r1)
    OBVIOUS
  <2>2. PICK q \in runs : Twins(q, q1)
    OBVIOUS
  <2>3. ~ \E p \in runs : /\ p.monitor = r.monitor
                          /\ ScheduledFor(q.task) < ScheduledFor(p.task)
                          /\ ScheduledFor(p.task) < ScheduledFor(r.task)
    BY <2>1, <2>2 DEF Twins
  <2>4. r.monitor = q.monitor /\ ScheduledFor(q.task) < ScheduledFor(r.task)
    BY <2>1, <2>2 DEF Twins
  <2>5. r.changed <=> r.hashes # q.hashes
    BY <2>3, <2>4 DEF CompareInv, RunsCompareWithTheRunBefore
  <2> QED
    BY <2>1, <2>2, <2>5 DEF Twins
<1> QED
  BY <1>1, <1>2, <1>3, <1>4, <1>5 DEF CompareInv

(* The run a finalization commits is the latest of its monitor, and is     *)
(* compared with the latest before it. *)
LEMMA CommitRunKeepsOrder ==
    ASSUME ScheduleInv, RunInv, CompareInv, NEW o \in Occurrences, CommitRun(o)
    PROVE  CompareInv'
<1> DEFINE m   == MonitorOf(o)
           run == Run(MonitorOf(o), o, read[o].previous, read[o].created,
                      Observed(o))
<1>0. /\ RunTypes /\ OneRunPerTask
      /\ phase[o] = "recording" /\ phase \in [Occurrences -> Phase]
      /\ read' = [read EXCEPT ![o] = NoRead]
      /\ read = [p \in Occurrences |-> read[p]]
      /\ begun \in Nat /\ UNCHANGED <<task, hashes, begun>>
  BY DEF RunInv, RunTypes, CommitRun, taskVars
<1>1. ReadIsCurrent(o)
  BY <1>0 DEF CompareInv, ReadsAreCurrent
<1>2. \A p \in Occurrences \ {o} : phase'[p] = phase[p] /\ read'[p] = read[p]
  BY <1>0 DEF CommitRun, MoveTo
<1>3. CompletedTasksHaveContents'
  BY <1>0 DEF CompareInv, CompletedTasksHaveContents
<1>4. \A r \in runs : /\ r.task \in Occurrences \ {o} /\ r.created \in Nat
                      /\ task[r.task] = "completed"
                      /\ phase'[r.task] \notin {"none", "completed", "recording"}
  BY <1>0, <1>2, RunFields DEF CompareInv, RunsAreOfFinalizedTasks
<1>5. CASE UNCHANGED runs /\ MoveTo(o, "over")
  <2>1. \A r \in runs : Twins(r, r)
    BY DEF Twins
  <2>2. phase'[o] = "over"
    BY <1>0, <1>5 DEF MoveTo
  <2> QED
    BY <1>0, <1>2, <1>3, <1>4, <1>5, <2>1, <2>2, SameRunsSameOrder
<1>6. CASE MayInsertRun(o) /\ runs' = runs \cup {run} /\ MoveTo(o, "posting")
  <2>1. /\ m \in Monitors /\ o = <<m, ScheduledFor(o)>>
        /\ ScheduledFor(o) \in Nat
    BY OccurrenceFields
  <2>2. /\ run.monitor = m /\ run.task = o /\ run.hashes = hashes[o]
        /\ run.created = read[o].created
        /\ run.changed = Changed(read[o].previous, hashes[o])
    BY DEF Run
  <2>3. phase'[o] = "posting"
    BY <1>0, <1>6 DEF MoveTo
  <2>4. task[o] = "completed"
    BY <1>0 DEF ScheduleInv, FinalizedTasksAreCompleted
  <2>5. hashes[o] \in Contents
    BY <2>4 DEF CompareInv, CompletedTasksHaveContents
  <2> HIDE DEF run
  <2>6. PICK row : row = run
    OBVIOUS
  <2>7. runs' = runs \cup {row}
    BY <1>6, <2>6
  <2>8. /\ row.monitor = m /\ row.task = o /\ row.hashes = hashes[o]
        /\ row.created = read[o].created
        /\ row.changed = Changed(read[o].previous, hashes[o])
    BY <2>2, <2>6
  <2>9. /\ RunsOf(m)' = RunsOf(m) \cup {row}
        /\ \A n \in Monitors \ {m} : RunsOf(n)' = RunsOf(n)
    BY <2>7, <2>8 DEF RunsOf
  <2>10. \A q \in RunsOf(m) : /\ q.created < row.created
                              /\ ScheduledFor(q.task) < ScheduledFor(o)
                              /\ q \in runs /\ q.monitor = m
    BY <1>1, <2>8 DEF ReadIsCurrent, RunsOf
  <2>11. read[o].created \in 0 .. begun
    BY <1>1 DEF ReadIsCurrent
  <2>12. \A r \in runs : r.monitor = m => r \in RunsOf(m)
    BY DEF RunsOf
  <2>13. \A r \in runs : ScheduledFor(r.task) \in Nat
    BY <1>0, RunFields
  <2> HIDE DEF m
  <2>14. RunsAreOfFinalizedTasks'
    <3>1. \A r \in runs : /\ r.monitor = MonitorOf(r.task)
                          /\ r.hashes \in Contents /\ r.created =< begun
      BY DEF CompareInv, RunsAreOfFinalizedTasks
    <3>2. row.monitor = MonitorOf(row.task)
      BY <2>8 DEF m
    <3>3. row.created =< begun
      BY <1>0, <2>8, <2>11
    <3> QED
      BY <1>0, <1>4, <2>3, <2>4, <2>5, <2>7, <2>8, <3>1, <3>2, <3>3
         DEF RunsAreOfFinalizedTasks, MonitorOf
  <2>15. RunsAreStampedInOrder'
    <3> SUFFICES ASSUME NEW r \in runs', NEW q \in runs',
                        r.monitor = q.monitor,
                        ScheduledFor(q.task) < ScheduledFor(r.task)
                 PROVE  q.created < r.created
      BY DEF RunsAreStampedInOrder, ScheduledFor
    <3>1. CASE r \in runs /\ q \in runs
      BY <3>1 DEF CompareInv, RunsAreStampedInOrder
    <3>2. CASE r = row /\ q \in runs
      BY <2>8, <2>10, <2>12, <3>2
    <3>3. CASE q = row /\ r \in runs
      <4>1. ScheduledFor(r.task) < ScheduledFor(o)
        BY <2>8, <2>10, <2>12, <3>3
      <4>2. ScheduledFor(o) < ScheduledFor(r.task)
        BY <2>8, <3>3
      <4> QED
        BY <2>1, <2>13, <3>3, <4>1, <4>2
    <3>4. CASE r = row /\ q = row
      BY <2>1, <2>8, <3>4
    <3> QED
      BY <2>7, <3>1, <3>2, <3>3, <3>4
  <2>16. IsLatest(row)'
    BY <2>1, <2>8, <2>9, <2>10, <2>13 DEF IsLatest, ScheduledFor
  <2>17. ASSUME NEW n \in Monitors \ {m}, NEW l \in RunsOf(n), IsLatest(l)
         PROVE  IsLatest(l)'
    <3>1. l.monitor = n
      BY DEF RunsOf
    <3> QED
      BY <2>9, <2>17, <3>1 DEF IsLatest, ScheduledFor
  <2>18. LatestRunsExist'
    <3> SUFFICES ASSUME NEW n \in Monitors, RunsOf(n)' # {}
                 PROVE  \E r \in RunsOf(n)' : IsLatest(r)'
      BY DEF LatestRunsExist
    <3>1. CASE n = m
      BY <2>9, <2>16, <3>1
    <3>2. CASE n # m
      <4>1. RunsOf(n)' = RunsOf(n)
        BY <2>9, <3>2
      <4>2. PICK l \in RunsOf(n) : IsLatest(l)
        BY <4>1 DEF CompareInv, LatestRunsExist
      <4> QED
        BY <2>17, <3>2, <4>1, <4>2
    <3> QED
      BY <3>1, <3>2
  <2>19. ReadsAreCurrent'
    <3> SUFFICES ASSUME NEW p \in Occurrences, phase'[p] = "recording"
                 PROVE  ReadIsCurrent(p)'
      BY DEF ReadsAreCurrent
    <3>1. p # o /\ phase[p] = "recording" /\ read'[p] = read[p]
      BY <1>2, <2>3
    <3>2. ReadIsCurrent(p)
      BY <3>1 DEF CompareInv, ReadsAreCurrent
    <3>3. MonitorOf(p) # m
      BY <1>0, <3>1, OpenTasksAreOfDifferentMonitors DEF m
    <3>4. PICK n \in Monitors \ {m} : n = MonitorOf(p)
      BY <3>3, OccurrenceFields
    <3>5. RunsOf(n)' = RunsOf(n) /\ MonitorOf(p)' = n
      BY <2>9, <3>4 DEF MonitorOf
    <3>6. \/ RunsOf(n) = {} /\ read[p].previous = "none"
          \/ \E q \in RunsOf(n) : IsLatest(q)' /\ read[p].previous = q.hashes
      BY <2>17, <3>2, <3>4 DEF ReadIsCurrent
    <3> QED
      BY <1>0, <3>1, <3>2, <3>4, <3>5, <3>6 DEF ReadIsCurrent, ScheduledFor
  <2>20. RunsCompareWithTheRunBefore'
    <3> SUFFICES ASSUME NEW r \in runs', NEW q \in runs',
                        r.monitor = q.monitor,
                        ScheduledFor(q.task) < ScheduledFor(r.task),
                        ~ \E p \in runs' :
                            /\ p.monitor = r.monitor
                            /\ ScheduledFor(q.task) < ScheduledFor(p.task)
                            /\ ScheduledFor(p.task) < ScheduledFor(r.task)
                 PROVE  r.changed <=> r.hashes # q.hashes
      BY DEF RunsCompareWithTheRunBefore, ScheduledFor
    <3>1. CASE r \in runs /\ q \in runs
      <4>1. ~ \E p \in runs : /\ p.monitor = r.monitor
                              /\ ScheduledFor(q.task) < ScheduledFor(p.task)
                              /\ ScheduledFor(p.task) < ScheduledFor(r.task)
        BY <2>7
      <4> QED
        BY <3>1, <4>1 DEF CompareInv, RunsCompareWithTheRunBefore
    <3>2. CASE r = row /\ q \in runs
      <4>1. q \in RunsOf(m)
        BY <2>8, <2>12, <3>2
      <4>2. PICK l \in RunsOf(m) : IsLatest(l) /\ read[o].previous = l.hashes
        BY <1>1, <4>1 DEF ReadIsCurrent, m
      <4>3. l \in runs /\ l.monitor = m /\ q.monitor = m
        BY <2>10, <4>1
      <4>4. /\ ScheduledFor(q.task) =< ScheduledFor(l.task)
            /\ ScheduledFor(l.task) < ScheduledFor(r.task)
        BY <2>8, <2>10, <3>2, <4>1, <4>2, <4>3 DEF IsLatest
      <4>5. ~ (ScheduledFor(q.task) < ScheduledFor(l.task))
        BY <2>7, <2>8, <3>2, <4>3, <4>4
      <4>6. ScheduledFor(q.task) = ScheduledFor(l.task)
        BY <2>13, <3>2, <4>3, <4>4, <4>5
      <4>7. q = l
        BY <1>0, <3>2, <4>3, <4>6, SameOccurrenceSameRun DEF CompareInv
      <4>8. q.hashes \in Contents
        BY <3>2 DEF CompareInv, RunsAreOfFinalizedTasks
      <4>9. read[o].previous = q.hashes /\ q.hashes # "none"
        BY <4>2, <4>7, <4>8, MonitorAssumption
      <4> QED
        BY <2>8, <3>2, <4>9 DEF Changed
    <3>3. CASE q = row /\ r \in runs
      <4>1. ScheduledFor(r.task) < ScheduledFor(o)
        BY <2>8, <2>10, <2>12, <3>3
      <4>2. ScheduledFor(o) < ScheduledFor(r.task)
        BY <2>8, <3>3
      <4> QED
        BY <2>1, <2>13, <3>3, <4>1, <4>2
    <3>4. CASE r = row /\ q = row
      BY <2>1, <2>8, <3>4
    <3> QED
      BY <2>7, <3>1, <3>2, <3>3, <3>4
  <2> QED
    BY <1>3, <2>14, <2>15, <2>18, <2>19, <2>20 DEF CompareInv
<1> QED
  BY <1>5, <1>6 DEF CommitRun

(* The result of a webhook is written to a row, which stays in its place.  *)
LEMMA CommitWebhookKeepsOrder ==
    ASSUME RunInv, CompareInv, NEW o \in Occurrences, CommitWebhook(o)
    PROVE  CompareInv'
<1>0. /\ RunTypes /\ begun \in Nat /\ phase \in [Occurrences -> Phase]
      /\ UNCHANGED <<task, hashes, read, begun>> /\ MoveTo(o, "over")
  BY DEF RunInv, RunTypes, CommitWebhook, taskVars
<1>1. \A r \in runs : Twins(r, StoredRun(r)) /\ Twins(r, r)
  BY <1>0 DEF RunTypes, MonitorRun, StoredRun, Twins
<1>2. runs' = (runs \ RunOf(o)) \cup {StoredRun(r) : r \in RunOf(o)}
  BY DEF CommitWebhook
<1>3. RunOf(o) \subseteq runs
  BY DEF RunOf
<1>4. \A q \in runs' : \E r \in runs : Twins(r, q)
  BY <1>1, <1>2, <1>3
<1>5. \A r \in runs : \E q \in runs' : Twins(r, q)
  BY <1>1, <1>2, <1>3
<1>6. CompletedTasksHaveContents'
  BY <1>0 DEF CompareInv, CompletedTasksHaveContents
<1>7. \A p \in Occurrences : phase'[p] = IF p = o THEN "over" ELSE phase[p]
  BY <1>0 DEF MoveTo
<1>8. \A r \in runs : /\ r.created \in Nat
                      /\ task'[r.task] = "completed"
                      /\ phase'[r.task] \notin {"none", "completed", "recording"}
  BY <1>0, <1>7, RunFields DEF CompareInv, RunsAreOfFinalizedTasks
<1> QED
  BY <1>0, <1>4, <1>5, <1>6, <1>7, <1>8, SameRunsSameOrder

(* A finalization reads the run of the latest occurrence, and what it      *)
(* reads it at is later than every run. *)
LEMMA BeginFinalizeReadsCurrent ==
    ASSUME ScheduleInv, RunInv, CompareInv, NEW o \in Occurrences,
           phase[o] = "completed", ~ AlreadyRecorded(o),
           begun' = begun + 1, UNCHANGED runs,
           read' = [read EXCEPT ![o] =
                      [previous |-> PreviousHashes(MonitorOf(o)),
                       nextRun  |-> nextRun[MonitorOf(o)],
                       created  |-> begun + 1]]
    PROVE  ReadIsCurrent(o)'
<1> DEFINE m == MonitorOf(o)
<1>0. /\ RunTypes /\ OneRunPerTask /\ begun \in Nat
      /\ read = [p \in Occurrences |-> read[p]]
  BY DEF RunInv, RunTypes
<1>1. m \in Monitors /\ MonitorOf(o)' = m /\ ScheduledFor(o)' = ScheduledFor(o)
  BY OccurrenceFields DEF MonitorOf, ScheduledFor
<1>2. /\ read'[o].created = begun + 1
      /\ read'[o].previous = PreviousHashes(m)
  BY <1>0
<1>3. \A r \in RunsOf(m) : r \in runs /\ r.monitor = m /\ r.task # o
  BY DEF RunsOf, RunOf, AlreadyRecorded
<1>4. \A r \in RunsOf(m) : /\ r.created < begun + 1
                           /\ ScheduledFor(r.task) < ScheduledFor(o)
  <2> SUFFICES ASSUME NEW r \in RunsOf(m)
               PROVE  /\ r.created < begun + 1
                      /\ ScheduledFor(r.task) < ScheduledFor(o)
    OBVIOUS
  <2>1. r.created \in Nat /\ r.created =< begun
    BY <1>0, <1>3, RunFields DEF CompareInv, RunsAreOfFinalizedTasks
  <2>2. ScheduledFor(r.task) < ScheduledFor(o)
    BY <1>0, <1>3, OpenTaskIsAfterRuns DEF CompareInv
  <2> QED
    BY <1>0, <2>1, <2>2
<1>5. \/ RunsOf(m) = {} /\ PreviousHashes(m) = "none"
      \/ \E q \in RunsOf(m) : IsLatest(q) /\ PreviousHashes(m) = q.hashes
  BY <1>0, <1>1, PreviousIsLatest DEF CompareInv, PreviousHashes
<1>6. RunsOf(m)' = RunsOf(m) /\ \A q : IsLatest(q)' <=> IsLatest(q)
  BY DEF RunsOf, IsLatest, ScheduledFor
<1> HIDE DEF m
<1>7. begun + 1 \in 0 .. begun'
  BY <1>0
<1> QED
  BY <1>1, <1>2, <1>4, <1>5, <1>6, <1>7 DEF ReadIsCurrent, ScheduledFor

LEMMA CompareInvIsInductive ==
    ASSUME InTime, ScheduleInv, RunInv, CompareInv, [Next]_vars
    PROVE  CompareInv'
<1>0. /\ begun \in Nat /\ phase \in [Occurrences -> Phase]
      /\ task \in [Occurrences -> TaskStatus]
      /\ hashes \in [Occurrences -> Contents \cup {"none"}]
      /\ manual = NoManual
  BY DEF RunInv, RunTypes, ScheduleInv, ScheduleTypes
<1>1. \A r \in runs : /\ r.task \in Occurrences /\ r.created \in Nat
                      /\ task[r.task] = "completed"
                      /\ phase[r.task] \notin {"none", "completed", "recording"}
  BY RunFields DEF RunInv, CompareInv, RunsAreOfFinalizedTasks
<1>2. \A r \in runs : Twins(r, r)
  BY DEF Twins
(* Tasks that have not completed move, finalizations stay where they are.  *)
<1>3. ASSUME UNCHANGED <<runs, hashes, phase, read, begun>>,
             \A o \in Occurrences : task'[o] = "completed" <=> task[o] = "completed"
      PROVE  CompareInv'
  <2>1. CompletedTasksHaveContents'
    BY <1>3 DEF CompareInv, CompletedTasksHaveContents
  <2> QED
    BY <1>0, <1>1, <1>2, <1>3, <2>1, SameRunsSameOrder
(* A finalization moves on, with the runs as they are. *)
<1>4. ASSUME NEW o \in Occurrences, NEW label \in Phase, MoveTo(o, label),
             UNCHANGED <<runs, task, hashes>>,
             begun' \in Nat, begun =< begun',
             \A p \in Occurrences \ {o} : read'[p] = read[p],
             \A r \in runs :
                r.task = o => label \notin {"none", "completed", "recording"},
             label = "recording" => ReadIsCurrent(o)'
      PROVE  CompareInv'
  <2>1. \A p \in Occurrences : phase'[p] = IF p = o THEN label ELSE phase[p]
    BY <1>0, <1>4 DEF MoveTo
  <2>2. CompletedTasksHaveContents'
    BY <1>4 DEF CompareInv, CompletedTasksHaveContents
  <2>3. \A r \in runs :
           /\ task'[r.task] = "completed"
           /\ phase'[r.task] \notin {"none", "completed", "recording"}
    BY <1>1, <1>4, <2>1
  <2> QED
    BY <1>0, <1>1, <1>2, <1>4, <2>1, <2>2, <2>3, SameRunsSameOrder
<1>5. CASE LaunchDueMonitors
  <2>1. \A o \in Occurrences :
           task'[o] = "completed" <=> task[o] = "completed"
    BY <1>5 DEF LaunchDueMonitors, Launched
  <2> QED
    BY <1>3, <1>5, <2>1 DEF LaunchDueMonitors, finalizeVars, runVars
<1>6. CASE Tick \/ (CronStep /\ ~ LaunchDueMonitors) \/ UNCHANGED vars
  BY <1>3, <1>6
     DEF Tick, CronStep, LaunchRollsBack, Enqueue, EnqueueFails, LoseJobs,
         taskVars, finalizeVars, runVars, vars
<1>7. CASE RequestStep
  <2>1. PICK o \in Occurrences : RetryTask(o) \/ CancelQueuedTask(o)
    BY <1>0, <1>7 DEF RequestStep, InTime, PauseMonitor, ResumeMonitor,
                      BeginManualRun, CommitManualRun, PostManualRun
  <2>2. \A p \in Occurrences :
           task'[p] = "completed" <=> task[p] = "completed"
    BY <1>0, <2>1 DEF RetryTask, CancelQueuedTask
  <2> QED
    BY <1>3, <2>1, <2>2 DEF RetryTask, CancelQueuedTask, finalizeVars, runVars
<1>8. ASSUME NEW o \in Occurrences, WorkerStep(o)
      PROVE  CompareInv'
  <2>0. read = [p \in Occurrences |-> read[p]]
    BY DEF RunInv, RunTypes
  <2>1. CASE StartTask(o) \/ EndTask(o)
    <3>1. \A p \in Occurrences :
             task'[p] = "completed" <=> task[p] = "completed"
      BY <1>0, <2>1 DEF StartTask, EndTask
    <3> QED
      BY <1>3, <2>1, <3>1 DEF StartTask, EndTask, finalizeVars, runVars
  <2>2. CASE CompleteTask(o)
    <3>1. /\ task' = [task EXCEPT ![o] = "completed"]
          /\ phase' = [phase EXCEPT ![o] = "completed"]
          /\ task[o] = "running"
          /\ UNCHANGED <<runs, read, begun>>
      BY <2>2 DEF CompleteTask, runVars
    <3>2. \A p \in Occurrences \ {o} : hashes'[p] = hashes[p]
      BY <1>0, <2>2 DEF CompleteTask
    <3>3. hashes'[o] \in Contents
      BY <1>0, <2>2 DEF CompleteTask
    <3>4. CompletedTasksHaveContents'
      BY <1>0, <3>1, <3>2, <3>3 DEF CompareInv, CompletedTasksHaveContents
    <3>5. \A r \in runs :
             /\ task'[r.task] = "completed"
             /\ phase'[r.task] \notin {"none", "completed", "recording"}
      BY <1>0, <1>1, <3>1
    <3>6. \A p \in Occurrences : phase'[p] = "recording" => phase[p] = "recording"
      BY <1>0, <3>1
    <3> QED
      BY <1>0, <1>1, <1>2, <3>1, <3>4, <3>5, <3>6, SameRunsSameOrder
  <2>3. CASE BeginFinalize(o)
    <3>1. UNCHANGED <<runs, task, hashes>> /\ phase[o] = "completed"
      BY <2>3 DEF BeginFinalize, taskVars, runVars
    <3>2. \A r \in runs : r.task # o
      BY <1>1, <3>1
    <3>3. ~ AlreadyRecorded(o)
      BY <3>2 DEF AlreadyRecorded, RunOf
    <3>4. /\ MoveTo(o, "recording")
          /\ begun' = begun + 1
          /\ read' = [read EXCEPT ![o] =
                        [previous |-> PreviousHashes(MonitorOf(o)),
                         nextRun  |-> nextRun[MonitorOf(o)],
                         created  |-> begun + 1]]
      BY <2>3, <3>3 DEF BeginFinalize
    <3>5. ReadIsCurrent(o)'
      BY <3>1, <3>3, <3>4, BeginFinalizeReadsCurrent
    <3>6. begun' \in Nat /\ begun =< begun'
      BY <1>0, <3>4
    <3>7. \A p \in Occurrences \ {o} : read'[p] = read[p]
      BY <2>0, <3>4
    <3> QED
      BY <1>4, <3>1, <3>2, <3>4, <3>5, <3>6, <3>7 DEF Phase
  <2>4. CASE CommitRun(o)
    BY <2>4, CommitRunKeepsOrder
  <2>5. CASE DeliverWebhook(o)
    <3>1. PICK label \in {"delivered", "failed", "not_required"} :
             MoveTo(o, label)
      BY <2>5 DEF DeliverWebhook
    <3>2. label \in Phase /\ label \notin {"none", "completed", "recording"}
      BY DEF Phase
    <3>3. UNCHANGED <<runs, task, hashes, read, begun>>
      BY <2>5 DEF DeliverWebhook, taskVars
    <3> QED
      BY <1>0, <1>4, <3>1, <3>2, <3>3
  <2>6. CASE CommitWebhook(o)
    BY <2>6, CommitWebhookKeepsOrder
  <2>7. CASE CrashFinalization(o)
    <3>1. /\ MoveTo(o, "over") /\ UNCHANGED <<runs, task, hashes, begun>>
          /\ read' = [read EXCEPT ![o] = NoRead]
      BY <2>7 DEF CrashFinalization, taskVars, runVars
    <3>2. \A p \in Occurrences \ {o} : read'[p] = read[p]
      BY <2>0, <3>1
    <3> QED
      BY <1>0, <1>4, <3>1, <3>2 DEF Phase
  <2> QED
    BY <1>8, <2>1, <2>2, <2>3, <2>4, <2>5, <2>6, <2>7 DEF WorkerStep
<1> QED
  BY <1>5, <1>6, <1>7, <1>8 DEF Next

(* If the cron job is on time and tasks end before the next occurrence,    *)
(* whether a run is a change is decided against the run of the latest      *)
(* earlier occurrence that has one, through crashes of finalizations and   *)
(* although they read the last run and commit their own apart. *)
THEOREM RunsAreComparedInOrder ==
    ASSUME InTime
    PROVE  Spec => []RunsCompareWithTheRunBefore
<1>1. Init => CompareInv
  <2> SUFFICES ASSUME Init PROVE CompareInv
    OBVIOUS
  <2>1. \A o \in Occurrences : task[o] = "absent" /\ phase[o] = "none"
    BY DEF Init
  <2>2. runs = {}
    BY DEF Init
  <2> QED
    BY <2>1, <2>2
       DEF CompareInv, CompletedTasksHaveContents, RunsAreOfFinalizedTasks,
           RunsAreStampedInOrder, LatestRunsExist, ReadsAreCurrent, RunsOf,
           RunsCompareWithTheRunBefore
<1>2. ScheduleInv /\ RunInv /\ CompareInv /\ [Next]_vars => CompareInv'
  BY CompareInvIsInductive
<1>3. CompareInv => RunsCompareWithTheRunBefore
  BY DEF CompareInv
<1> QED
  BY <1>1, <1>2, <1>3, ScheduleInvariant, RunInvariant, PTL DEF Spec
=============================================================================
