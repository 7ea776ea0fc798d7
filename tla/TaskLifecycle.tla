--------------------------- MODULE TaskLifecycle ---------------------------
(***************************************************************************)
(* The durable lifecycle of a research or FindAll task: the API requests   *)
(* that create, cancel and retry it (main.py, research.py), the Redis/arq  *)
(* queue that carries its jobs (queue.py) and the workers that run them    *)
(* (worker.py).  PostgreSQL holds the task row and its event log; every    *)
(* database transaction of the code is one action, except the appends that *)
(* read the last sequence number without a lock, which take two.           *)
(*                                                                         *)
(* What happens inside an attempt (queries, fetches, budgets) is the       *)
(* subject of ResearchLoop; here an attempt is a bounded number of event   *)
(* appends between cancellation checks.                                    *)
(***************************************************************************)
EXTENDS Naturals, FiniteSetsExt

CONSTANTS Tasks,        \* task identifiers
          Workers,      \* concurrent executions of run_research_task
          NoTask,       \* the job of an idle worker
          MaxAttempts,  \* the attempt at which retry_task refuses (3)
          MaxAppends,   \* bound: events one attempt appends (its budgets)
          MaxClaims,    \* bound: claims one synthesis verifies
          MaxQueued,    \* bound: jobs a replayed creation may pile up
          Faults        \* the faults that may happen, see AllFaults

(***************************************************************************)
(* crash:     the worker process dies, arq delivers its job again          *)
(* tries:     the crash was the last of the max_tries (arq's default, 5) a  *)
(*            job has, and arq drops it instead of running it once more    *)
(* timeout:   arq cancels the job (CancelledError passes                   *)
(*            `except Exception`) and does not deliver it again            *)
(* defect:    a provider, parser or fetch error leaves run_research_task   *)
(* statement: a statement of a running attempt or of _finish_cancelled     *)
(*            fails and rolls back                                         *)
(* claim:     one of _claim_task does                                      *)
(* handler:   one of _fail_task does                                       *)
(* enqueue:   enqueue_research_task raises QueueUnavailableError           *)
(* redis:     Redis loses the jobs it holds for a task                     *)
(***************************************************************************)
AllFaults == {"crash", "tries", "timeout", "defect", "statement", "claim",
              "handler", "enqueue", "redis"}

ASSUME LifecycleAssumption ==
    /\ NoTask \notin Tasks
    /\ MaxAttempts \in Nat \ {0}
    /\ MaxAppends \in Nat
    /\ MaxClaims \in Nat
    /\ MaxQueued \in Nat
    /\ Faults \subseteq AllFaults

VARIABLES status,    \* ResearchTask.status, "absent" before the insert
          attempt,   \* ResearchTask.attempt
          events,    \* TaskEvent rows of the task, a set of [sequence, type]
          dispatch,  \* API requests that committed and have yet to enqueue
          jobs,      \* jobs of the task that wait in Redis
          pc,        \* where an execution of run_research_task stands
          job,       \* the task it works on
          seqRead,   \* the sequence number its open append will insert
          appends    \* events it has appended in this attempt

taskVars   == <<status, attempt, events>>
queueVars  == <<dispatch, jobs>>
workerVars == <<pc, job, seqRead, appends>>
vars       == <<taskVars, queueVars, workerVars>>

----------------------------------------------------------------------------
(* States and rows *)

TaskStatus == {"queued", "running", "cancel_requested", "completed",
               "partial", "failed", "cancelled"}

TERMINAL_STATES == {"completed", "partial", "failed", "cancelled"}

(* The event an outcome is announced with has the name of its status.      *)
(* "progress" stands for the three loop events that are appended without a *)
(* lock: progress, search_completed and evidence_extracted/unavailable.    *)
EventType == TERMINAL_STATES \cup
             {"created", "stage_started", "progress",
              "evidence_extracted", "claim_verified"}

TaskEvent == [sequence : Nat \ {0}, type : EventType]

(* idle      no job                                                        *)
(* claiming  in _claim_task                                                *)
(* working   in the loop, before the next _cancel_at_boundary              *)
(* cleared   past a _cancel_at_boundary that found no request              *)
(* append    in an unlocked _append_event, sequence read, not committed    *)
(* cancelling  in _finish_cancelled                                        *)
(* failing   in the `except Exception` handler, before _finish_failed      *)
PC == {"idle", "claiming", "working", "cleared", "append", "cancelling",
       "failing"}

SequencesOf(t) == {e.sequence : e \in events[t]}

(* select coalesce(max(sequence), 0) + 1 *)
NextSequence(t) == Max({0} \cup SequencesOf(t)) + 1

(* _append_event / _append_task_event inside a transaction that holds the  *)
(* lock on the task row *)
AppendEvent(t, type) ==
    events' = [events EXCEPT
                 ![t] = @ \cup {[sequence |-> NextSequence(t), type |-> type]}]

Init ==
    /\ status = [t \in Tasks |-> "absent"]
    /\ attempt = [t \in Tasks |-> 1]
    /\ events = [t \in Tasks |-> {}]
    /\ dispatch = [t \in Tasks |-> 0]
    /\ jobs = [t \in Tasks |-> 0]
    /\ pc = [w \in Workers |-> "idle"]
    /\ job = [w \in Workers |-> NoTask]
    /\ seqRead = [w \in Workers |-> 0]
    /\ appends = [w \in Workers |-> 0]

----------------------------------------------------------------------------
(* API requests.  A request commits first and enqueues afterwards, so its   *)
(* job is handed to Redis by a later Dispatch that may fail.               *)

Committed(t) == dispatch' = [dispatch EXCEPT ![t] = @ + 1]

CreateTask_NoEnqueue(t) ==
    /\ status[t] = "absent"
    /\ status' = [status EXCEPT ![t] = "queued"]
    /\ AppendEvent(t, "created")
    /\ UNCHANGED <<attempt, queueVars, workerVars>>

CreateTask(t) ==
    /\ status[t] = "absent"
    /\ status' = [status EXCEPT ![t] = "queued"]
    /\ AppendEvent(t, "created")
    /\ Committed(t)
    /\ UNCHANGED <<attempt, jobs, workerVars>>

(* The same idempotency key again: the stored task is returned and        *)
(* enqueued once more, whatever its status. *)
ReplayCreate(t) ==
    /\ status[t] # "absent"
    /\ dispatch[t] + jobs[t] < MaxQueued
    /\ Committed(t)
    /\ UNCHANGED <<taskVars, jobs, workerVars>>

CancelTask_Partial(t) ==
    /\ status[t] \in {"queued", "running", "partial"}
    /\ status' = [status EXCEPT ![t] = "cancel_requested"]
    /\ AppendEvent(t, "progress")
    /\ Committed(t)
    /\ UNCHANGED <<attempt, jobs, workerVars>>

CancelTask(t) ==
    /\ status[t] \in {"queued", "running"}
    /\ status' = [status EXCEPT ![t] = "cancel_requested"]
    /\ AppendEvent(t, "progress")
    /\ Committed(t)
    /\ UNCHANGED <<attempt, jobs, workerVars>>

RetryTask(t) ==
    /\ status[t] \in {"partial", "failed"}
    /\ attempt[t] < MaxAttempts
    /\ attempt' = [attempt EXCEPT ![t] = @ + 1]
    /\ status' = [status EXCEPT ![t] = "queued"]
    /\ AppendEvent(t, "progress")
    /\ Committed(t)
    /\ UNCHANGED <<jobs, workerVars>>

Dispatch(t) ==
    /\ dispatch[t] > 0
    /\ dispatch' = [dispatch EXCEPT ![t] = @ - 1]
    /\ jobs' = [jobs EXCEPT ![t] = @ + 1]
    /\ UNCHANGED <<taskVars, workerVars>>

DispatchFails(t) ==
    /\ "enqueue" \in Faults
    /\ dispatch[t] > 0
    /\ dispatch' = [dispatch EXCEPT ![t] = @ - 1]
    /\ UNCHANGED <<taskVars, jobs, workerVars>>

LoseJobs(t) ==
    /\ "redis" \in Faults
    /\ jobs[t] > 0
    /\ jobs' = [jobs EXCEPT ![t] = 0]
    /\ UNCHANGED <<taskVars, dispatch, workerVars>>

----------------------------------------------------------------------------
(* The worker.  A step of execution w works on job[w]. *)

Goto(w, label) == pc' = [pc EXCEPT ![w] = label]

EndJob(w) ==
    /\ Goto(w, "idle")
    /\ job' = [job EXCEPT ![w] = NoTask]
    /\ seqRead' = [seqRead EXCEPT ![w] = 0]
    /\ appends' = [appends EXCEPT ![w] = 0]

Deliver(w, t) ==
    /\ pc[w] = "idle"
    /\ jobs[t] > 0
    /\ jobs' = [jobs EXCEPT ![t] = @ - 1]
    /\ job' = [job EXCEPT ![w] = t]
    /\ Goto(w, "claiming")
    /\ UNCHANGED <<taskVars, dispatch, seqRead, appends>>

(* _claim_task: only a queued task is started, a requested cancellation is *)
(* handed to _finish_cancelled, any other status ends the job. *)
ClaimQueued(w, t) ==
    /\ status[t] = "queued"
    /\ status' = [status EXCEPT ![t] = "running"]
    /\ AppendEvent(t, "stage_started")
    /\ Goto(w, "working")
    /\ UNCHANGED <<attempt, queueVars, job, seqRead, appends>>

ClaimCancelRequested(w, t) ==
    /\ status[t] = "cancel_requested"
    /\ Goto(w, "cancelling")
    /\ UNCHANGED <<taskVars, queueVars, job, seqRead, appends>>

ClaimNothing(w, t) ==
    /\ status[t] \notin {"queued", "cancel_requested"}
    /\ EndJob(w)
    /\ UNCHANGED <<taskVars, queueVars>>

ClaimTask_StartsRunning(w) ==
    /\ pc[w] = "claiming"
    /\ \/ /\ status[job[w]] \in {"queued", "running"}
          /\ status' = [status EXCEPT ![job[w]] = "running"]
          /\ AppendEvent(job[w], "stage_started")
          /\ Goto(w, "working")
          /\ UNCHANGED <<attempt, queueVars, job, seqRead, appends>>
       \/ ClaimCancelRequested(w, job[w])
       \/ /\ status[job[w]] # "running"
          /\ ClaimNothing(w, job[w])

ClaimTask(w) ==
    /\ pc[w] = "claiming"
    /\ \/ ClaimQueued(w, job[w])
       \/ ClaimCancelRequested(w, job[w])
       \/ ClaimNothing(w, job[w])

(* _cancel_at_boundary reads the status without a lock. *)
CheckCancel(w) ==
    /\ pc[w] \in {"working", "cleared"}
    /\ Goto(w, IF status[job[w]] = "cancel_requested" THEN "cancelling"
                                                      ELSE "cleared")
    /\ UNCHANGED <<taskVars, queueVars, job, seqRead, appends>>

(* _record_progress, _record_search_outcome and _record_fetch_skip read    *)
(* max(sequence) without a lock on the task row ... *)
BeginAppend(w) ==
    /\ pc[w] = "cleared"
    /\ appends[w] < MaxAppends
    /\ seqRead' = [seqRead EXCEPT ![w] = NextSequence(job[w])]
    /\ Goto(w, "append")
    /\ UNCHANGED <<taskVars, queueVars, job, appends>>

(* Executions that read max(sequence) in _finish_cancelled before the      *)
(* append of w committed; the unique constraint rejects their row.         *)
Overtaken(w) == {v \in Workers \ {w} : job[v] = job[w] /\ pc[v] = "cancelling"}

(* ... and insert it, unless the unique constraint on (task_id, sequence)  *)
(* finds that another transaction took the number meanwhile. *)
CommitAppend_NoUniqueConstraint(w) ==
    LET t == job[w] IN
    /\ pc[w] = "append"
    /\ seqRead' = [seqRead EXCEPT ![w] = 0]
    /\ events' = [events EXCEPT
                    ![t] = @ \cup {[sequence |-> seqRead[w],
                                    type |-> "progress"]}]
    /\ appends' = [appends EXCEPT ![w] = @ + 1]
    /\ Goto(w, "working")
    /\ UNCHANGED <<status, attempt, queueVars, job>>

CommitAppend(w) ==
    LET t == job[w] IN
    /\ pc[w] = "append"
    /\ seqRead' = [seqRead EXCEPT ![w] = 0]
    /\ \/ /\ seqRead[w] \notin SequencesOf(t)
          /\ events' = [events EXCEPT
                          ![t] = @ \cup {[sequence |-> seqRead[w],
                                          type |-> "progress"]}]
          /\ appends' = [appends EXCEPT ![w] = @ + 1]
          /\ \E losers \in SUBSET Overtaken(w) :
                pc' = [v \in Workers |->
                         IF v = w THEN "working"
                         ELSE IF v \in losers THEN "failing" ELSE pc[v]]
       \/ /\ seqRead[w] \in SequencesOf(t)
          /\ Goto(w, "failing")
          /\ UNCHANGED <<events, appends>>
    /\ UNCHANGED <<status, attempt, queueVars, job>>

(* _collect_evidence inserts the Evidence row first: the foreign key takes *)
(* a share lock on the task row, so that no locking transaction comes      *)
(* between reading the number and inserting the row.  An unlocked append   *)
(* can, which needs a second runner of the task and shows as DatabaseError. *)
StoreEvidence(w) ==
    /\ pc[w] = "cleared"
    /\ appends[w] < MaxAppends
    /\ AppendEvent(job[w], "evidence_extracted")
    /\ appends' = [appends EXCEPT ![w] = @ + 1]
    /\ Goto(w, "working")
    /\ UNCHANGED <<status, attempt, queueVars, job, seqRead>>

(* The last transaction of an attempt: it holds the lock on the task row   *)
(* and changes nothing when the task is not in the status it expects. *)
Finish(w, from, outcome) ==
    LET t == job[w] IN
    /\ \/ /\ status[t] = from
          /\ status' = [status EXCEPT ![t] = outcome]
          /\ AppendEvent(t, outcome)
       \/ /\ status[t] # from
          /\ UNCHANGED <<status, events>>
    /\ EndJob(w)
    /\ UNCHANGED <<attempt, queueVars>>

FinishPartial_Unguarded(w) ==
    /\ pc[w] \in {"working", "cleared"}
    /\ status' = [status EXCEPT ![job[w]] = "partial"]
    /\ AppendEvent(job[w], "partial")
    /\ EndJob(w)
    /\ UNCHANGED <<attempt, queueVars>>

FinishPartial(w) ==
    /\ pc[w] \in {"working", "cleared"}
    /\ Finish(w, "running", "partial")

FinishFailed_Skipped(w) ==
    /\ pc[w] = "failing"
    /\ EndJob(w)
    /\ UNCHANGED <<taskVars, queueVars>>

FinishFailed(w) ==
    /\ pc[w] = "failing"
    /\ Finish(w, "running", "failed")

FinishCancelled_Unguarded(w) ==
    /\ pc[w] = "cancelling"
    /\ status' = [status EXCEPT ![job[w]] = "cancelled"]
    /\ AppendEvent(job[w], "cancelled")
    /\ EndJob(w)
    /\ UNCHANGED <<attempt, queueVars>>

FinishCancelled(w) ==
    /\ pc[w] = "cancelling"
    /\ Finish(w, "cancel_requested", "cancelled")

(* The claims of a synthesis, each with its event, and the outcome in one  *)
(* transaction; a FindAll task completes without claim events. *)
CompletionRows(t, claims) ==
    {[sequence |-> NextSequence(t) + i, type |-> "claim_verified"]
        : i \in 0 .. (claims - 1)}
    \cup {[sequence |-> NextSequence(t) + claims, type |-> "completed"]}

FinishCompleted(w) ==
    LET t == job[w] IN
    /\ pc[w] = "cleared"
    /\ \/ /\ status[t] = "running"
          /\ status' = [status EXCEPT ![t] = "completed"]
          /\ \E claims \in 0 .. MaxClaims :
                events' = [events EXCEPT ![t] = @ \cup CompletionRows(t, claims)]
       \/ /\ status[t] # "running"
          /\ UNCHANGED <<status, events>>
    /\ EndJob(w)
    /\ UNCHANGED <<attempt, queueVars>>

----------------------------------------------------------------------------
(* Faults of a worker *)

(* `except Exception`: the error is not looked at, the task is failed. *)
Defect(w) ==
    /\ "defect" \in Faults
    /\ pc[w] \in {"working", "cleared"}
    /\ Goto(w, "failing")
    /\ UNCHANGED <<taskVars, queueVars, job, seqRead, appends>>

(* The same handler takes a database error, wherever it happens; an error  *)
(* of the handler itself ends the job. *)
DatabaseError(w) ==
    /\ \/ /\ \/ /\ "statement" \in Faults
                /\ pc[w] \in {"working", "cleared", "append", "cancelling"}
             \/ "claim" \in Faults /\ pc[w] = "claiming"
          /\ Goto(w, "failing")
          /\ seqRead' = [seqRead EXCEPT ![w] = 0]
          /\ UNCHANGED <<job, appends>>
       \/ /\ "handler" \in Faults /\ pc[w] = "failing"
          /\ EndJob(w)
    /\ UNCHANGED <<taskVars, queueVars>>

Crash(w) ==
    /\ "crash" \in Faults
    /\ pc[w] # "idle"
    /\ \/ jobs' = [jobs EXCEPT ![job[w]] = @ + 1]
       \/ "tries" \in Faults /\ UNCHANGED jobs
    /\ EndJob(w)
    /\ UNCHANGED <<taskVars, dispatch>>

Timeout(w) ==
    /\ "timeout" \in Faults
    /\ pc[w] # "idle"
    /\ EndJob(w)
    /\ UNCHANGED <<taskVars, queueVars>>

----------------------------------------------------------------------------

ApiStep(t) ==
    \/ CreateTask(t)
    \/ ReplayCreate(t)
    \/ CancelTask(t)
    \/ RetryTask(t)
    \/ Dispatch(t)
    \/ DispatchFails(t)
    \/ LoseJobs(t)

RunStep(w) ==
    \/ ClaimTask(w)
    \/ CheckCancel(w)
    \/ BeginAppend(w)
    \/ CommitAppend(w)
    \/ StoreEvidence(w)
    \/ FinishPartial(w)
    \/ FinishCompleted(w)
    \/ FinishFailed(w)
    \/ FinishCancelled(w)

FaultStep(w) ==
    \/ Defect(w)
    \/ DatabaseError(w)
    \/ Crash(w)
    \/ Timeout(w)

Next ==
    \/ \E t \in Tasks : ApiStep(t)
    \/ \E w \in Workers, t \in Tasks : Deliver(w, t)
    \/ \E w \in Workers : RunStep(w) \/ FaultStep(w)

Spec == Init /\ [][Next]_vars

(* A request that committed goes on to enqueue, a running job goes on, and *)
(* arq takes the oldest job first, so that no task waits for ever while    *)
(* workers become free.  Users and faults are not fair. *)
Fairness ==
    /\ \A t \in Tasks : WF_vars(Dispatch(t) \/ DispatchFails(t))
    /\ \A t \in Tasks : SF_vars(\E w \in Workers : Deliver(w, t))
    /\ \A w \in Workers : WF_vars(RunStep(w))

FairSpec == Spec /\ Fairness

----------------------------------------------------------------------------
(* Properties *)

TypeOK ==
    /\ status \in [Tasks -> TaskStatus \cup {"absent"}]
    /\ attempt \in [Tasks -> 1 .. MaxAttempts]
    /\ events \in [Tasks -> SUBSET TaskEvent]
    /\ dispatch \in [Tasks -> Nat]
    /\ jobs \in [Tasks -> Nat]
    /\ pc \in [Workers -> PC]
    /\ job \in [Workers -> Tasks \cup {NoTask}]
    /\ seqRead \in [Workers -> Nat]
    /\ appends \in [Workers -> 0 .. MaxAppends]
    /\ \A w \in Workers : (pc[w] = "idle") <=> (job[w] = NoTask)

(* The event log of a task is numbered 1, 2, ... without a gap or a        *)
(* duplicate, although appends read the last number without a lock: what   *)
(* Last-Event-ID replay relies on (_append_event, _append_task_event). *)
EventLogGapFree ==
    \A t \in Tasks :
        /\ SequencesOf(t) = 1 .. (NextSequence(t) - 1)
        /\ \A e, f \in events[t] : e.sequence = f.sequence => e = f

Outcomes(t) == {e \in events[t] : e.type \in TERMINAL_STATES}

(* Every finished attempt left exactly one terminal event, whatever the    *)
(* duplicates, races and faults: the last attempt when the task is         *)
(* terminal, and each attempt before it (the _finish_* transactions). *)
OneOutcomePerAttempt ==
    \A t \in Tasks :
        Cardinality(Outcomes(t)) =
            attempt[t] - (IF status[t] \in TERMINAL_STATES THEN 0 ELSE 1)

(* The outcome of attempt k: the type of the k-th terminal event. *)
OutcomeOf(t, k) ==
    LET ended == {e \in Outcomes(t) :
                    Cardinality({f \in Outcomes(t) :
                                   f.sequence =< e.sequence}) = k}
    IN IF ended = {} THEN "none" ELSE (CHOOSE e \in ended : TRUE).type

Contract == INSTANCE TaskContract WITH
    ledger <- [t \in Tasks |-> [k \in 1 .. MaxAttempts |-> OutcomeOf(t, k)]]

(* The lifecycle implements the contract: through every race and fault the *)
(* status moves as the contract allows, and the k-th terminal event of the *)
(* log is the one outcome of attempt k. *)
ImplementsContract == Contract!Spec

Active == {"working", "cleared", "append"}

(* The execution that started an attempt is the only one that works on the *)
(* task: duplicate deliveries, replays, retries and crashed jobs that come *)
(* back never give it a second one (_claim_task; README "Duplicate queue   *)
(* delivery is safe"). *)
SingleRunner ==
    \A v, w \in Workers :
        pc[v] \in Active /\ pc[w] \in Active /\ job[v] = job[w] => v = w

(* No execution works on a task that waits for its next attempt or has an  *)
(* outcome other than cancelled: what a runner appends belongs to the      *)
(* attempt that is running (_claim_task, retry_task, the _finish_* guards). *)
RunnersHaveARunningTask ==
    \A w \in Workers :
        pc[w] \in Active =>
            status[job[w]] \in {"running", "cancel_requested", "cancelled"}

(* An event stream that ends at the outcome misses nothing: the last row   *)
(* of a completed, partial or failed task is that outcome. *)
NothingAfterOutcome ==
    \A t \in Tasks :
        status[t] \in {"completed", "partial", "failed"} =>
            \E e \in events[t] : /\ e.sequence = NextSequence(t) - 1
                                 /\ e.type = status[t]

(* A queued task is never forgotten: a request is about to enqueue it, a   *)
(* job waits in Redis or a worker is claiming it (create_research,         *)
(* retry_task: commit first, enqueue afterwards). *)
QueuedTaskHasAJob ==
    \A t \in Tasks :
        status[t] = "queued" =>
            \/ dispatch[t] + jobs[t] > 0
            \/ \E w \in Workers : job[w] = t /\ pc[w] = "claiming"

SameTask(t) == /\ status'[t] = status[t]
               /\ attempt'[t] = attempt[t]
               /\ events'[t] = events[t]

(* An outcome is final: a completed task keeps its status, its attempt and *)
(* every row of its event log, with no row added; a partial or failed one  *)
(* does so until a retry, which counts an attempt and queues it; a         *)
(* cancelled one keeps its status and attempt, but the append its runner   *)
(* had open may still add a row.  No row of a log is changed or removed    *)
(* (the _finish_* guards, _claim_task, cancel_task, retry_task). *)
HistoryStep(t) ==
    /\ events[t] \subseteq events'[t]
    /\ status[t] = "completed" => SameTask(t)
    /\ status[t] = "cancelled" =>
          status'[t] = "cancelled" /\ attempt'[t] = attempt[t]
    /\ status[t] \in {"partial", "failed"} =>
          \/ SameTask(t)
          \/ status'[t] = "queued" /\ attempt'[t] = attempt[t] + 1

HistoryIsKept == [][\A t \in Tasks : HistoryStep(t)]_vars

(* Every attempt that is queued or running ends, with an outcome or a      *)
(* requested cancellation, when only defects happen (run_research_task:    *)
(* "No provider, parser, or fetch defect may strand durable work"). *)
EveryAttemptEnds ==
    \A t \in Tasks :
        status[t] \in {"queued", "running"}
            ~> status[t] \notin {"queued", "running"}

(* A requested cancellation ends in the cancelled state, by the job that   *)
(* cancel_task enqueues or by the checks of the running worker             *)
(* (_finish_cancelled). *)
CancellationFinishes ==
    \A t \in Tasks : status[t] = "cancel_requested" ~> status[t] = "cancelled"
=============================================================================
