------------------------ MODULE TaskLifecycleProofs ------------------------
(***************************************************************************)
(* Proofs about TaskLifecycle, for every set of tasks and workers and      *)
(* every combination of faults: the event log stays gap free, history is   *)
(* kept and every attempt leaves one outcome.  As long as the database     *)
(* fails inside an attempt only, an attempt has one runner and nothing     *)
(* follows an outcome.                                                     *)
(***************************************************************************)
EXTENDS TaskLifecycle, TLAPS

----------------------------------------------------------------------------
(* The inductive invariant of the event log.  The number an open append    *)
(* read may have been taken by others, but is never beyond the next one:   *)
(* this is why the unique constraint is enough to keep the log gap free.   *)

LogContiguous ==
    \A t \in Tasks :
        /\ \E n \in Nat : SequencesOf(t) = 1 .. n
        /\ \A e, f \in events[t] : e.sequence = f.sequence => e = f

OpenAppendsInRange ==
    \A w \in Workers, t \in Tasks :
        pc[w] = "append" /\ job[w] = t =>
            seqRead[w] \in 1 .. NextSequence(t) /\ appends[w] < MaxAppends

LogInv == TypeOK /\ LogContiguous /\ OpenAppendsInRange

(* What every step does to the logs: rows are added, never lost. *)
LogGrows ==
    /\ events' \in [Tasks -> SUBSET TaskEvent]
    /\ LogContiguous'
    /\ \A t \in Tasks : /\ events[t] \subseteq events'[t]
                        /\ NextSequence(t)' \in Nat
                        /\ NextSequence(t) =< NextSequence(t)'

(* The largest number of a log numbered 1 to n, and so the next one. *)
LEMMA NextAfter ==
    ASSUME NEW n \in Nat
    PROVE  Max({0} \cup 1 .. n) = n
<1>1. \A x \in {0} \cup 1 .. n : n >= x
  OBVIOUS
<1>2. n \in {0} \cup 1 .. n
  OBVIOUS
<1>3. \A x \in {0} \cup 1 .. n : (\A y \in {0} \cup 1 .. n : x >= y) => x = n
  BY <1>1, <1>2
<1> QED
  BY <1>1, <1>2, <1>3 DEF Max

(* NextSequence returns the length of a contiguous log plus one. *)
LEMMA NextSequenceOfLog ==
    ASSUME NEW t \in Tasks, NEW n \in Nat, SequencesOf(t) = 1 .. n
    PROVE  NextSequence(t) = n + 1
  BY NextAfter DEF NextSequence

(* The same of the log after a step. *)
LEMMA NextSequenceOfLogPrime ==
    ASSUME NEW t \in Tasks, NEW n \in Nat, SequencesOf(t)' = 1 .. n
    PROVE  NextSequence(t)' = n + 1
  BY NextAfter DEF NextSequence

(* Rows numbered from the next number on keep a log contiguous.  Every     *)
(* insertion of the code is of this form, with k = 0 except for claims.    *)
LEMMA RowsKeepLog ==
    ASSUME TypeOK, LogContiguous,
           NEW t \in Tasks, NEW k \in Nat, NEW rows \in SUBSET TaskEvent,
           {e.sequence : e \in rows}
              = NextSequence(t) .. (NextSequence(t) + k),
           \A e, f \in rows : e.sequence = f.sequence => e = f,
           events' = [events EXCEPT ![t] = @ \cup rows]
    PROVE  LogGrows
<1>1. PICK n \in Nat : SequencesOf(t) = 1 .. n
  BY DEF LogContiguous
<1>2. NextSequence(t) = n + 1
  BY <1>1, NextSequenceOfLog
<1>3. /\ events \in [Tasks -> SUBSET TaskEvent]
      /\ events' \in [Tasks -> SUBSET TaskEvent]
  BY DEF TypeOK
<1>4. /\ events'[t] = events[t] \cup rows
      /\ \A s \in Tasks \ {t} : events'[s] = events[s]
  BY <1>3
<1>5. SequencesOf(t)' = 1 .. (n + 1 + k)
  <2>1. SequencesOf(t)' = SequencesOf(t) \cup {e.sequence : e \in rows}
    BY <1>4 DEF SequencesOf
  <2> QED
    BY <2>1, <1>1, <1>2
<1>6. \A e, f \in events'[t] : e.sequence = f.sequence => e = f
  <2>1. \A e \in events[t] : e.sequence \in 1 .. n
    BY <1>1 DEF SequencesOf
  <2>2. \A e \in rows : e.sequence \in (n + 1) .. (n + 1 + k)
    BY <1>2
  <2>3. \A e \in events[t], f \in rows : e.sequence # f.sequence
    BY <2>1, <2>2
  <2> QED
    BY <2>3, <1>4 DEF LogContiguous
<1>7. \A s \in Tasks \ {t} : SequencesOf(s)' = SequencesOf(s)
  BY <1>4 DEF SequencesOf
<1>8. LogContiguous'
  BY <1>4, <1>5, <1>6, <1>7 DEF LogContiguous
<1>9. NextSequence(t)' = n + 1 + k + 1
  BY <1>5, NextSequenceOfLogPrime
<1>10. ASSUME NEW s \in Tasks \ {t}
       PROVE  NextSequence(s)' = NextSequence(s) /\ NextSequence(s) \in Nat
  <2>1. PICK m \in Nat : SequencesOf(s) = 1 .. m
    BY DEF LogContiguous
  <2>2. NextSequence(s) = m + 1
    BY <2>1, NextSequenceOfLog
  <2>3. NextSequence(s)' = m + 1
    BY <2>1, <1>7, NextSequenceOfLogPrime
  <2> QED
    BY <2>2, <2>3
<1> QED
  BY <1>2, <1>3, <1>4, <1>8, <1>9, <1>10 DEF LogGrows

(* A log nobody touches. *)
LEMMA SameLog ==
    ASSUME TypeOK, LogContiguous, UNCHANGED events
    PROVE  LogGrows
<1>1. \A t \in Tasks : /\ SequencesOf(t)' = SequencesOf(t)
                       /\ NextSequence(t)' = NextSequence(t)
  BY DEF SequencesOf, NextSequence
<1>2. \A t \in Tasks : NextSequence(t) \in Nat
  BY NextSequenceOfLog DEF LogContiguous
<1>3. LogContiguous'
  BY <1>1 DEF LogContiguous
<1> QED
  BY <1>1, <1>2, <1>3 DEF LogGrows, TypeOK

(* One event, appended under the lock on the task row. *)
LEMMA AppendEventGrowsLog ==
    ASSUME TypeOK, LogContiguous, NEW t \in Tasks, NEW type \in EventType,
           AppendEvent(t, type)
    PROVE  LogGrows
<1> DEFINE rows == {[sequence |-> NextSequence(t), type |-> type]}
<1>1. NextSequence(t) \in Nat \ {0}
  BY NextSequenceOfLog DEF LogContiguous
<1>2. rows \in SUBSET TaskEvent
  BY <1>1 DEF TaskEvent
<1>3. {e.sequence : e \in rows} = NextSequence(t) .. (NextSequence(t) + 0)
  BY <1>1
<1>4. \A e, f \in rows : e.sequence = f.sequence => e = f
  OBVIOUS
<1>5. events' = [events EXCEPT ![t] = @ \cup rows]
  BY DEF AppendEvent
<1> HIDE DEF rows
<1> QED
  BY <1>2, <1>3, <1>4, <1>5, RowsKeepLog

(* The claims of a completed task and its outcome. *)
LEMMA CompletionGrowsLog ==
    ASSUME TypeOK, LogContiguous, NEW t \in Tasks, NEW claims \in Nat,
           events' = [events EXCEPT ![t] = @ \cup CompletionRows(t, claims)]
    PROVE  LogGrows
<1> DEFINE n == NextSequence(t)
           rows == CompletionRows(t, claims)
<1>1. n \in Nat \ {0}
  BY NextSequenceOfLog DEF LogContiguous
<1> HIDE DEF n
<1>2. rows = {[sequence |-> n + i, type |-> "claim_verified"]
                : i \in 0 .. (claims - 1)}
             \cup {[sequence |-> n + claims, type |-> "completed"]}
  BY DEF CompletionRows, n
<1> HIDE DEF rows
<1>3. rows \in SUBSET TaskEvent
  BY <1>1, <1>2 DEF TaskEvent, EventType, TERMINAL_STATES
<1>4. {e.sequence : e \in rows} = n .. (n + claims)
  <2>1. ASSUME NEW e \in rows PROVE e.sequence \in n .. (n + claims)
    BY <1>1, <1>2
  <2>2. ASSUME NEW s \in n .. (n + claims)
        PROVE  \E e \in rows : e.sequence = s
    <3>1. CASE s = n + claims
      <4>1. [sequence |-> n + claims, type |-> "completed"] \in rows
        BY <1>2
      <4> QED
        BY <3>1, <4>1
    <3>2. CASE s # n + claims
      <4>1. (s - n) \in 0 .. (claims - 1) /\ n + (s - n) = s
        BY <3>2, <1>1
      <4>2. [sequence |-> n + (s - n), type |-> "claim_verified"] \in rows
        BY <4>1, <1>2
      <4> QED
        BY <4>1, <4>2
    <3> QED
      BY <3>1, <3>2
  <2> QED
    BY <2>1, <2>2
<1>5. \A e, f \in rows : e.sequence = f.sequence => e = f
  BY <1>1, <1>2
<1> QED
  BY <1>3, <1>4, <1>5, RowsKeepLog DEF n, rows

(* The row of an append that read the last number without a lock: the      *)
(* unique constraint lets it in only if its number is still the next one. *)
LEMMA CommitAppendGrowsLog ==
    ASSUME LogInv, NEW w \in Workers, CommitAppend(w)
    PROVE  LogGrows
<1> DEFINE t == job[w]
           rows == {[sequence |-> seqRead[w], type |-> "progress"]}
<1>1. TypeOK /\ LogContiguous /\ pc[w] = "append"
  BY DEF LogInv, CommitAppend
<1>2. t \in Tasks
  BY <1>1 DEF TypeOK
<1>3. CASE UNCHANGED events
  BY <1>1, <1>3, SameLog
<1>4. CASE /\ seqRead[w] \notin SequencesOf(t)
           /\ events' = [events EXCEPT ![t] = @ \cup rows]
  <2>1. PICK n \in Nat : SequencesOf(t) = 1 .. n
    BY <1>1, <1>2 DEF LogContiguous
  <2>2. NextSequence(t) = n + 1
    BY <2>1, <1>2, NextSequenceOfLog
  <2>3. seqRead[w] \in 1 .. (n + 1)
    BY <1>1, <1>2, <2>2 DEF LogInv, OpenAppendsInRange
  <2>4. seqRead[w] = NextSequence(t)
    BY <1>4, <2>1, <2>2, <2>3
  <2>5. AppendEvent(t, "progress")
    BY <1>4, <2>4 DEF AppendEvent
  <2> QED
    BY <1>1, <1>2, <2>5, AppendEventGrowsLog DEF EventType
<1> QED
  BY <1>3, <1>4 DEF CommitAppend

----------------------------------------------------------------------------
(* Every step keeps every log. *)
LEMMA StepGrowsLog ==
    ASSUME LogInv, [Next]_vars
    PROVE  LogGrows
<1> USE DEF EventType, TERMINAL_STATES
<1>0. TypeOK /\ LogContiguous
  BY DEF LogInv
<1>1. ASSUME NEW t \in Tasks, ApiStep(t)
      PROVE  LogGrows
  <2>1. CASE CreateTask(t)
    BY <1>0, <2>1, AppendEventGrowsLog DEF CreateTask
  <2>2. CASE CancelTask(t)
    BY <1>0, <2>2, AppendEventGrowsLog DEF CancelTask
  <2>3. CASE RetryTask(t)
    BY <1>0, <2>3, AppendEventGrowsLog DEF RetryTask
  <2>4. CASE ReplayCreate(t) \/ Dispatch(t) \/ DispatchFails(t) \/ LoseJobs(t)
    BY <1>0, <2>4, SameLog
       DEF ReplayCreate, Dispatch, DispatchFails, LoseJobs, taskVars
  <2> QED
    BY <1>1, <2>1, <2>2, <2>3, <2>4 DEF ApiStep
<1>2. ASSUME NEW w \in Workers, NEW t \in Tasks, Deliver(w, t)
      PROVE  LogGrows
  BY <1>0, <1>2, SameLog DEF Deliver, taskVars
<1>3. ASSUME NEW w \in Workers, RunStep(w)
      PROVE  LogGrows
  <2>0. pc[w] # "idle" => job[w] \in Tasks
    BY <1>0 DEF TypeOK
  <2>1. CASE ClaimTask(w)
    <3>1. CASE ClaimQueued(w, job[w])
      BY <1>0, <2>0, <2>1, <3>1, AppendEventGrowsLog DEF ClaimTask, ClaimQueued
    <3>2. CASE ClaimCancelRequested(w, job[w]) \/ ClaimNothing(w, job[w])
      BY <1>0, <3>2, SameLog DEF ClaimCancelRequested, ClaimNothing, taskVars
    <3> QED
      BY <2>1, <3>1, <3>2 DEF ClaimTask
  <2>2. CASE CheckCancel(w) \/ BeginAppend(w)
    BY <1>0, <2>2, SameLog DEF CheckCancel, BeginAppend, taskVars
  <2>3. CASE CommitAppend(w)
    BY <2>3, CommitAppendGrowsLog
  <2>4. CASE StoreEvidence(w)
    BY <1>0, <2>0, <2>4, AppendEventGrowsLog DEF StoreEvidence
  <2>5. ASSUME NEW from, NEW outcome \in TERMINAL_STATES,
               pc[w] # "idle", Finish(w, from, outcome)
        PROVE  LogGrows
    <3>1. CASE UNCHANGED events
      BY <1>0, <3>1, SameLog
    <3>2. CASE AppendEvent(job[w], outcome)
      BY <1>0, <2>0, <2>5, <3>2, AppendEventGrowsLog
    <3> QED
      BY <2>5, <3>1, <3>2 DEF Finish
  <2>6. CASE FinishPartial(w) \/ FinishFailed(w) \/ FinishCancelled(w)
    BY <2>5, <2>6 DEF FinishPartial, FinishFailed, FinishCancelled
  <2>7. CASE FinishCompleted(w)
    <3>1. CASE UNCHANGED events
      BY <1>0, <3>1, SameLog
    <3>2. ASSUME NEW claims \in 0 .. MaxClaims,
                 events' = [events EXCEPT
                              ![job[w]] = @ \cup CompletionRows(job[w], claims)]
          PROVE  LogGrows
      <4>1. claims \in Nat /\ job[w] \in Tasks
        BY <2>0, <2>7, LifecycleAssumption DEF FinishCompleted
      <4> QED
        BY <1>0, <3>2, <4>1, CompletionGrowsLog
    <3> QED
      BY <2>7, <3>1, <3>2 DEF FinishCompleted
  <2> QED
    BY <1>3, <2>1, <2>2, <2>3, <2>4, <2>6, <2>7 DEF RunStep
<1>4. ASSUME NEW w \in Workers, FaultStep(w)
      PROVE  LogGrows
  BY <1>0, <1>4, SameLog
     DEF FaultStep, Defect, DatabaseError, Crash, Timeout, taskVars
<1>5. CASE UNCHANGED vars
  BY <1>0, <1>5, SameLog DEF vars, taskVars
<1> QED
  BY <1>1, <1>2, <1>3, <1>4, <1>5 DEF Next

(* Every step keeps the types, given that the logs keep theirs. *)
LEMMA StepKeepsTypes ==
    ASSUME LogInv, [Next]_vars, LogGrows
    PROVE  TypeOK'
<1> USE LifecycleAssumption DEF TypeOK, TaskStatus, TERMINAL_STATES, PC
<1>0. TypeOK /\ events' \in [Tasks -> SUBSET TaskEvent]
  BY DEF LogInv, LogGrows
<1>1. ASSUME NEW t \in Tasks, ApiStep(t)
      PROVE  TypeOK'
  <2>1. CASE CreateTask(t)
    BY <1>0, <2>1 DEF CreateTask, Committed, workerVars
  <2>2. CASE ReplayCreate(t)
    BY <1>0, <2>2 DEF ReplayCreate, Committed, taskVars, workerVars
  <2>3. CASE CancelTask(t)
    BY <1>0, <2>3 DEF CancelTask, Committed, workerVars
  <2>4. CASE RetryTask(t)
    BY <1>0, <2>4 DEF RetryTask, Committed, workerVars
  <2>5. CASE Dispatch(t) \/ DispatchFails(t)
    BY <1>0, <2>5 DEF Dispatch, DispatchFails, taskVars, workerVars
  <2>6. CASE LoseJobs(t)
    BY <1>0, <2>6 DEF LoseJobs, taskVars, workerVars
  <2> QED
    BY <1>1, <2>1, <2>2, <2>3, <2>4, <2>5, <2>6 DEF ApiStep
<1>2. ASSUME NEW w \in Workers, NEW t \in Tasks, Deliver(w, t)
      PROVE  TypeOK'
  BY <1>0, <1>2 DEF Deliver, Goto, taskVars
<1>3. ASSUME NEW w \in Workers, RunStep(w)
      PROVE  TypeOK'
  <2>0. pc[w] # "idle" => job[w] \in Tasks
    BY <1>0
  <2>1. CASE ClaimTask(w)
    <3>1. CASE ClaimQueued(w, job[w])
      BY <1>0, <2>0, <2>1, <3>1 DEF ClaimTask, ClaimQueued, Goto, queueVars
    <3>2. CASE ClaimCancelRequested(w, job[w])
      BY <1>0, <2>1, <3>2
         DEF ClaimTask, ClaimCancelRequested, Goto, taskVars, queueVars
    <3>3. CASE ClaimNothing(w, job[w])
      BY <1>0, <3>3 DEF ClaimNothing, EndJob, Goto, taskVars, queueVars
    <3> QED
      BY <2>1, <3>1, <3>2, <3>3 DEF ClaimTask
  <2>2. CASE CheckCancel(w)
    BY <1>0, <2>2 DEF CheckCancel, Goto, taskVars, queueVars
  <2>3. CASE BeginAppend(w)
    <3>1. NextSequence(job[w]) \in Nat
      BY <2>0, <2>3, NextSequenceOfLog DEF BeginAppend, LogInv, LogContiguous
    <3> QED
      BY <1>0, <2>3, <3>1 DEF BeginAppend, Goto, taskVars, queueVars
  <2>4. CASE CommitAppend(w)
    <3>1. CASE UNCHANGED appends /\ Goto(w, "failing")
      BY <1>0, <2>4, <3>1 DEF CommitAppend, Goto, queueVars
    <3>2. ASSUME appends' = [appends EXCEPT ![w] = @ + 1],
                 NEW losers \in SUBSET Overtaken(w),
                 pc' = [v \in Workers |->
                          IF v = w THEN "working"
                          ELSE IF v \in losers THEN "failing" ELSE pc[v]]
          PROVE  TypeOK'
      <4>1. appends[w] < MaxAppends
        BY <2>4 DEF LogInv, OpenAppendsInRange, CommitAppend
      <4> QED
        BY <1>0, <2>4, <3>2, <4>1 DEF CommitAppend, Overtaken, queueVars
    <3> QED
      BY <2>4, <3>1, <3>2 DEF CommitAppend
  <2>5. CASE StoreEvidence(w)
    BY <1>0, <2>5 DEF StoreEvidence, Goto, queueVars
  <2>6. CASE FinishPartial(w) \/ FinishFailed(w) \/ FinishCancelled(w)
    BY <1>0, <2>0, <2>6
       DEF FinishPartial, FinishFailed, FinishCancelled, Finish, EndJob, Goto,
           queueVars
  <2>7. CASE FinishCompleted(w)
    BY <1>0, <2>0, <2>7 DEF FinishCompleted, EndJob, Goto, queueVars
  <2> QED
    BY <1>3, <2>1, <2>2, <2>3, <2>4, <2>5, <2>6, <2>7 DEF RunStep
<1>4. ASSUME NEW w \in Workers, FaultStep(w)
      PROVE  TypeOK'
  <2>1. CASE Defect(w)
    BY <1>0, <2>1 DEF Defect, Goto, taskVars, queueVars
  <2>2. CASE DatabaseError(w)
    BY <1>0, <2>2 DEF DatabaseError, EndJob, Goto, taskVars, queueVars
  <2>3. CASE Crash(w)
    BY <1>0, <2>3 DEF Crash, EndJob, Goto, taskVars
  <2>4. CASE Timeout(w)
    BY <1>0, <2>4 DEF Timeout, EndJob, Goto, taskVars, queueVars
  <2> QED
    BY <1>4, <2>1, <2>2, <2>3, <2>4 DEF FaultStep
<1>5. CASE UNCHANGED vars
  BY <1>0, <1>5 DEF vars, taskVars, queueVars, workerVars
<1> QED
  BY <1>1, <1>2, <1>3, <1>4, <1>5 DEF Next

(* An append that stays open keeps its number while the log only grows,    *)
(* and one that opens holds exactly the next number. *)
LEMMA StepKeepsOpenAppends ==
    ASSUME LogInv, [Next]_vars, LogGrows
    PROVE  OpenAppendsInRange'
<1> SUFFICES ASSUME NEW v \in Workers, NEW s \in Tasks,
                    pc'[v] = "append", job'[v] = s
             PROVE  seqRead'[v] \in 1 .. NextSequence(s)' /\ appends'[v] < MaxAppends
  BY DEF OpenAppendsInRange
<1> DEFINE Kept == /\ pc[v] = "append"
                   /\ job'[v] = job[v]
                   /\ seqRead'[v] = seqRead[v]
                   /\ appends'[v] = appends[v]
<1> USE DEF Goto
<1>1. TypeOK
  BY DEF LogInv
<1>2. CASE Kept
  <2>1. seqRead[v] \in 1 .. NextSequence(s) /\ appends[v] < MaxAppends
    BY <1>2 DEF LogInv, OpenAppendsInRange
  <2>2. /\ NextSequence(s) =< NextSequence(s)'
        /\ NextSequence(s)' \in Nat
    BY DEF LogGrows
  <2>3. NextSequence(s) \in Nat
    BY NextSequenceOfLog DEF LogInv, LogContiguous
  <2> QED
    BY <1>2, <2>1, <2>2, <2>3
<1>3. CASE BeginAppend(v)
  <2>1. UNCHANGED <<events, job, appends>>
    BY <1>3 DEF BeginAppend, taskVars
  <2>2. seqRead'[v] = NextSequence(s)
    BY <1>1, <1>3, <2>1 DEF BeginAppend, TypeOK
  <2>3. NextSequence(s)' = NextSequence(s)
    BY <2>1 DEF NextSequence, SequencesOf
  <2>4. NextSequence(s) \in Nat \ {0}
    BY NextSequenceOfLog DEF LogInv, LogContiguous
  <2>5. appends[v] < MaxAppends
    BY <1>3 DEF BeginAppend
  <2> QED
    BY <2>1, <2>2, <2>3, <2>4, <2>5
<1>4. ASSUME NEW t \in Tasks, ApiStep(t)
      PROVE  Kept
  BY <1>4 DEF ApiStep, CreateTask, ReplayCreate, CancelTask, RetryTask,
              Dispatch, DispatchFails, LoseJobs, workerVars
<1>5. ASSUME NEW w \in Workers, NEW t \in Tasks, Deliver(w, t)
      PROVE  Kept
  BY <1>1, <1>5 DEF Deliver, TypeOK
<1>6. ASSUME NEW w \in Workers, RunStep(w), ~ BeginAppend(v)
      PROVE  Kept
  <2>1. CASE ClaimTask(w)
    BY <1>1, <2>1 DEF ClaimTask, ClaimQueued, ClaimCancelRequested,
                      ClaimNothing, EndJob, TypeOK
  <2>2. CASE CheckCancel(w)
    BY <1>1, <2>2 DEF CheckCancel, TypeOK
  <2>3. CASE BeginAppend(w)
    <3>1. w # v
      BY <1>6, <2>3
    <3> QED
      BY <1>1, <2>3, <3>1 DEF BeginAppend, TypeOK
  <2>4. CASE CommitAppend(w)
    BY <1>1, <2>4 DEF CommitAppend, TypeOK
  <2>5. CASE StoreEvidence(w)
    BY <1>1, <2>5 DEF StoreEvidence, TypeOK
  <2>6. CASE FinishPartial(w) \/ FinishFailed(w) \/ FinishCancelled(w)
    BY <1>1, <2>6
       DEF FinishPartial, FinishFailed, FinishCancelled, Finish, EndJob, TypeOK
  <2>7. CASE FinishCompleted(w)
    BY <1>1, <2>7 DEF FinishCompleted, EndJob, TypeOK
  <2> QED
    BY <1>6, <2>1, <2>2, <2>3, <2>4, <2>5, <2>6, <2>7 DEF RunStep
<1>7. ASSUME NEW w \in Workers, FaultStep(w)
      PROVE  Kept
  BY <1>1, <1>7 DEF FaultStep, Defect, DatabaseError, Crash, Timeout, EndJob,
                    TypeOK
<1>8. ASSUME UNCHANGED vars
      PROVE  Kept
  BY <1>8 DEF vars, workerVars
<1>9. Kept \/ BeginAppend(v)
  <2>1. CASE \E t \in Tasks : ApiStep(t)
    BY <2>1, <1>4
  <2>2. CASE \E w \in Workers, t \in Tasks : Deliver(w, t)
    BY <2>2, <1>5
  <2>3. CASE \E w \in Workers : RunStep(w)
    BY <2>3, <1>6
  <2>4. CASE \E w \in Workers : FaultStep(w)
    BY <2>4, <1>7
  <2> QED
    BY <2>1, <2>2, <2>3, <2>4, <1>8 DEF Next
<1> QED
  BY <1>2, <1>3, <1>9

(* The inductive invariant holds before any task is created. *)
LEMMA LogInvInitially == Init => LogInv
<1> SUFFICES ASSUME Init PROVE LogInv
  OBVIOUS
<1>1. TypeOK
  BY LifecycleAssumption DEF Init, TypeOK, PC
<1>2. LogContiguous
  <2> SUFFICES ASSUME NEW t \in Tasks
               PROVE  /\ \E n \in Nat : SequencesOf(t) = 1 .. n
                      /\ \A e, f \in events[t] : e.sequence = f.sequence => e = f
    BY DEF LogContiguous
  <2>1. events[t] = {} /\ SequencesOf(t) = 1 .. 0
    BY DEF Init, SequencesOf
  <2> QED
    BY <2>1
<1>3. OpenAppendsInRange
  BY DEF Init, OpenAppendsInRange
<1> QED
  BY <1>1, <1>2, <1>3 DEF LogInv

(* Every step of the service keeps it. *)
LEMMA LogInvIsInductive == LogInv /\ [Next]_vars => LogInv'
  BY StepGrowsLog, StepKeepsTypes, StepKeepsOpenAppends DEF LogInv, LogGrows

(* The inductive invariant holds in every reachable state. *)
THEOREM LogInvariant == Spec => []LogInv
  BY LogInvInitially, LogInvIsInductive, PTL DEF Spec

(* Type correctness of the lifecycle. *)
THEOREM TypeCorrect == Spec => []TypeOK
<1>1. LogInv => TypeOK
  BY DEF LogInv
<1> QED
  BY <1>1, LogInvariant, PTL

(* The log of every task is gap free in every reachable state, whatever    *)
(* the number of workers and the faults: the unique constraint makes up    *)
(* for the appends that read the last number without a lock. *)
THEOREM LogIsGapFree == Spec => []EventLogGapFree
<1>1. ASSUME LogInv
      PROVE  EventLogGapFree
  <2> SUFFICES ASSUME NEW t \in Tasks
               PROVE  /\ SequencesOf(t) = 1 .. (NextSequence(t) - 1)
                      /\ \A e, f \in events[t] : e.sequence = f.sequence => e = f
    BY DEF EventLogGapFree
  <2>1. PICK n \in Nat : SequencesOf(t) = 1 .. n
    BY <1>1 DEF LogInv, LogContiguous
  <2>2. NextSequence(t) - 1 = n
    BY <2>1, NextSequenceOfLog
  <2> QED
    BY <1>1, <2>1, <2>2 DEF LogInv, LogContiguous
<1> QED
  BY <1>1, LogInvariant, PTL

----------------------------------------------------------------------------
(* One runner per task, when no claim fails on the database.  While a task *)
(* is running at most one execution is in its loop or in the failure       *)
(* handler; the handler may also hold executions that lost the race of     *)
(* _finish_cancelled, but only after the task has left `running` for good  *)
(* (cancel_requested and cancelled never lead back to queued).             *)

Engaged == Active \cup {"failing"}

EngagedOnStartedTasks ==
    \A w \in Workers, t \in Tasks :
        job[w] = t =>
            /\ pc[w] \in Engaged =>
                  status[t] \in {"running", "cancel_requested", "cancelled"}
            /\ pc[w] = "cancelling" =>
                  status[t] \in {"cancel_requested", "cancelled"}

OneEngagedWhileRunning ==
    \A v, w \in Workers, t \in Tasks :
        /\ job[v] = t /\ job[w] = t
        /\ pc[v] \in Engaged /\ pc[w] \in Engaged
        /\ status[t] = "running"
        => v = w

OneActive ==
    \A v, w \in Workers, t \in Tasks :
        /\ job[v] = t /\ job[w] = t
        /\ pc[v] \in Active /\ pc[w] \in Active
        => v = w

RunnerInv == EngagedOnStartedTasks /\ OneEngagedWhileRunning /\ OneActive

(* Every step of the service keeps RunnerInv. *)
LEMMA RunnerInvIsInductive ==
    ASSUME "claim" \notin Faults, TypeOK, RunnerInv, [Next]_vars
    PROVE  RunnerInv'
<1> USE DEF RunnerInv, EngagedOnStartedTasks, OneEngagedWhileRunning,
            OneActive, Engaged, Active, TypeOK, Goto
<1>1. ASSUME NEW t \in Tasks, ApiStep(t)
      PROVE  RunnerInv'
  <2>1. CASE CreateTask(t)
    BY <2>1 DEF CreateTask, workerVars
  <2>2. CASE CancelTask(t)
    BY <2>2 DEF CancelTask, workerVars
  <2>3. CASE RetryTask(t)
    BY <2>3 DEF RetryTask, workerVars
  <2>4. CASE ReplayCreate(t) \/ Dispatch(t) \/ DispatchFails(t) \/ LoseJobs(t)
    BY <2>4 DEF ReplayCreate, Dispatch, DispatchFails, LoseJobs, taskVars,
                workerVars
  <2> QED
    BY <1>1, <2>1, <2>2, <2>3, <2>4 DEF ApiStep
<1>2. ASSUME NEW w \in Workers, NEW t \in Tasks, Deliver(w, t)
      PROVE  RunnerInv'
  BY <1>2 DEF Deliver, taskVars
<1>3. ASSUME NEW w \in Workers, RunStep(w)
      PROVE  RunnerInv'
  <2>1. CASE ClaimTask(w)
    <3>1. CASE ClaimQueued(w, job[w])
      BY <2>1, <3>1 DEF ClaimTask, ClaimQueued
    <3>2. CASE ClaimCancelRequested(w, job[w])
      BY <2>1, <3>2 DEF ClaimTask, ClaimCancelRequested, taskVars
    <3>3. CASE ClaimNothing(w, job[w])
      BY <2>1, <3>3 DEF ClaimTask, ClaimNothing, EndJob, taskVars
    <3> QED
      BY <2>1, <3>1, <3>2, <3>3 DEF ClaimTask
  <2>2. CASE CheckCancel(w)
    BY <2>2 DEF CheckCancel, taskVars
  <2>3. CASE BeginAppend(w)
    BY <2>3 DEF BeginAppend, taskVars
  <2>4. CASE CommitAppend(w)
    <3>1. CASE Goto(w, "failing")
      BY <2>4, <3>1 DEF CommitAppend
    <3>2. ASSUME NEW losers \in SUBSET Overtaken(w),
                 pc' = [v \in Workers |->
                          IF v = w THEN "working"
                          ELSE IF v \in losers THEN "failing" ELSE pc[v]]
          PROVE  RunnerInv'
      BY <2>4, <3>2 DEF CommitAppend, Overtaken
    <3> QED
      BY <2>4, <3>1, <3>2 DEF CommitAppend
  <2>5. CASE StoreEvidence(w)
    BY <2>5 DEF StoreEvidence
  <2>6. CASE FinishPartial(w)
    BY <2>6 DEF FinishPartial, Finish, EndJob
  <2>7. CASE FinishFailed(w)
    BY <2>7 DEF FinishFailed, Finish, EndJob
  <2>8. CASE FinishCancelled(w)
    BY <2>8 DEF FinishCancelled, Finish, EndJob
  <2>9. CASE FinishCompleted(w)
    BY <2>9 DEF FinishCompleted, EndJob
  <2> QED
    BY <1>3, <2>1, <2>2, <2>3, <2>4, <2>5, <2>6, <2>7, <2>8, <2>9 DEF RunStep
<1>4. ASSUME NEW w \in Workers, FaultStep(w)
      PROVE  RunnerInv'
  <2>1. CASE Defect(w)
    BY <2>1 DEF Defect, taskVars
  <2>2. CASE DatabaseError(w)
    <3>1. UNCHANGED <<status, attempt, events>>
      BY <2>2 DEF DatabaseError, taskVars
    <3>2. CASE EndJob(w)
      BY <3>1, <3>2 DEF EndJob
    <3>3. CASE pc[w] \in Active /\ Goto(w, "failing") /\ UNCHANGED job
      BY <3>1, <3>3
    <3>4. CASE pc[w] = "cancelling" /\ Goto(w, "failing") /\ UNCHANGED job
      BY <3>1, <3>4
    <3> QED
      BY <2>2, <3>2, <3>3, <3>4 DEF DatabaseError
  <2>3. CASE Crash(w) \/ Timeout(w)
    BY <2>3 DEF Crash, Timeout, EndJob, taskVars
  <2> QED
    BY <1>4, <2>1, <2>2, <2>3 DEF FaultStep
<1>5. CASE UNCHANGED vars
  BY <1>5 DEF vars, taskVars, workerVars
<1> QED
  BY <1>1, <1>2, <1>3, <1>4, <1>5 DEF Next

(* It holds in every reachable state. *)
THEOREM RunnerInvariant ==
    ASSUME "claim" \notin Faults
    PROVE  Spec => []RunnerInv
<1>1. Init => RunnerInv
  BY DEF Init, RunnerInv, EngagedOnStartedTasks, OneEngagedWhileRunning,
         OneActive, Engaged, Active
<1>2. RunnerInv /\ TypeOK /\ [Next]_vars => RunnerInv'
  BY RunnerInvIsInductive
<1> QED
  BY <1>1, <1>2, TypeCorrect, PTL DEF Spec

(* An attempt has one runner, however often its job is delivered, replayed *)
(* or comes back after a crash, and whatever else fails, as long as no     *)
(* claim fails on the database (_claim_task). *)
THEOREM OneRunner ==
    ASSUME "claim" \notin Faults
    PROVE  Spec => []SingleRunner
<1>1. TypeOK /\ RunnerInv => SingleRunner
  BY DEF TypeOK, RunnerInv, OneActive, SingleRunner, Active
<1> QED
  BY <1>1, TypeCorrect, RunnerInvariant, PTL

(* No execution is left over from an earlier attempt when a task waits for *)
(* its next one or has ended (retry_task, the _finish_* guards). *)
THEOREM NoLeftoverRunner ==
    ASSUME "claim" \notin Faults
    PROVE  Spec => []RunnersHaveARunningTask
<1>1. TypeOK /\ RunnerInv => RunnersHaveARunningTask
  BY DEF TypeOK, RunnerInv, EngagedOnStartedTasks, Engaged, Active,
         RunnersHaveARunningTask
<1> QED
  BY <1>1, TypeCorrect, RunnerInvariant, PTL

----------------------------------------------------------------------------
(* A closed log: nobody appends to a task with an outcome other than       *)
(* cancelled, because no execution works on it. *)
LEMMA StepKeepsHistory ==
    ASSUME TypeOK, LogGrows, RunnersHaveARunningTask, [Next]_vars, NEW s \in Tasks
    PROVE  HistoryStep(s)
<1> DEFINE Moves ==
        \/ status[s] \notin TERMINAL_STATES
        \/ /\ status[s] \in {"partial", "failed"}
           /\ status'[s] = "queued"
           /\ attempt'[s] = attempt[s] + 1
<1> SUFFICES ASSUME \/ status'[s] # status[s]
                    \/ attempt'[s] # attempt[s]
                    \/ events'[s] # events[s] /\ status[s] # "cancelled"
             PROVE  Moves
  BY DEF HistoryStep, SameTask, LogGrows, TERMINAL_STATES
<1> USE DEF TypeOK, TERMINAL_STATES
<1>1. ASSUME NEW t \in Tasks, ApiStep(t)
      PROVE  Moves
  BY <1>1 DEF ApiStep, CreateTask, ReplayCreate, CancelTask, RetryTask,
              Dispatch, DispatchFails, LoseJobs, AppendEvent, taskVars
<1>2. ASSUME NEW w \in Workers, RunStep(w)
      PROVE  status[s] \notin TERMINAL_STATES
  <2>1. CASE ClaimTask(w)
    BY <2>1 DEF ClaimTask, ClaimQueued, ClaimCancelRequested, ClaimNothing,
                AppendEvent, taskVars
  <2>2. CASE CheckCancel(w) \/ BeginAppend(w)
    BY <2>2 DEF CheckCancel, BeginAppend, taskVars
  <2>3. CASE CommitAppend(w) \/ StoreEvidence(w)
    <3>1. /\ UNCHANGED <<status, attempt>>
          /\ events'[s] = events[s] \/ job[w] = s
          /\ pc[w] \in Active
      BY <2>3 DEF CommitAppend, StoreEvidence, AppendEvent, Active
    <3> QED
      BY <3>1 DEF RunnersHaveARunningTask
  <2>4. CASE FinishPartial(w) \/ FinishFailed(w) \/ FinishCancelled(w)
    BY <2>4 DEF FinishPartial, FinishFailed, FinishCancelled, Finish, AppendEvent
  <2>5. CASE FinishCompleted(w)
    BY <2>5 DEF FinishCompleted
  <2> QED
    BY <1>2, <2>1, <2>2, <2>3, <2>4, <2>5 DEF RunStep
<1>3. ASSUME \/ \E w \in Workers, t \in Tasks : Deliver(w, t)
             \/ \E w \in Workers : FaultStep(w)
             \/ UNCHANGED vars
      PROVE  UNCHANGED <<status, attempt, events>>
  BY <1>3 DEF Deliver, FaultStep, Defect, DatabaseError, Crash, Timeout, vars,
              taskVars
<1> QED
  BY <1>1, <1>2, <1>3 DEF Next

(* For any number of tasks and workers and under every fault but a claim   *)
(* that fails on the database: no row of an event log changes or goes, a   *)
(* completed task gains none and keeps its status, a                       *)
(* partial or failed one gains none until a retry counts an attempt        *)
(* (_append_event, retry_task, the guards of the _finish functions). *)
THEOREM HistoryIsKeptAlways ==
    ASSUME "claim" \notin Faults
    PROVE  Spec => HistoryIsKept
<1>1. LogInv /\ RunnersHaveARunningTask /\ [Next]_vars
        => [\A t \in Tasks : HistoryStep(t)]_vars
  BY StepGrowsLog, StepKeepsHistory DEF LogInv
<1> QED
  BY <1>1, LogInvariant, NoLeftoverRunner, PTL DEF Spec, HistoryIsKept
=============================================================================
