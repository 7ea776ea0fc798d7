-------------------------- MODULE TaskOutcomeProofs --------------------------
(***************************************************************************)
(* Proofs about what TaskLifecycle promises of an attempt, for every set   *)
(* of tasks and workers: one terminal event for each attempt that ended,   *)
(* whatever the faults, so that the lifecycle implements TaskContract.     *)
(***************************************************************************)
EXTENDS TaskLifecycleProofs, FiniteSetTheorems

----------------------------------------------------------------------------
(* What a step does to the statuses and outcomes *)

Same(t) ==
    /\ status'[t] = status[t]
    /\ attempt'[t] = attempt[t]
    /\ Outcomes(t)' = Outcomes(t)

(* The status moves, no attempt ends. *)
Moves(t) ==
    /\ \/ status[t] = "absent" /\ status'[t] = "queued"
       \/ status[t] = "queued" /\ status'[t] = "running"
       \/ /\ status[t] \in {"queued", "running"}
          /\ status'[t] = "cancel_requested"
    /\ attempt'[t] = attempt[t]
    /\ Outcomes(t)' = Outcomes(t)

Retries(t) ==
    /\ status[t] \in {"partial", "failed"} /\ status'[t] = "queued"
    /\ attempt[t] < MaxAttempts
    /\ attempt'[t] = attempt[t] + 1
    /\ Outcomes(t)' = Outcomes(t)

(* The attempt ends: a terminal row follows all others. *)
Ends(t) ==
    /\ \/ /\ status[t] = "running"
          /\ status'[t] \in {"completed", "partial", "failed"}
       \/ status[t] = "cancel_requested" /\ status'[t] = "cancelled"
    /\ attempt'[t] = attempt[t]
    /\ \E row \in TaskEvent :
          /\ row.type = status'[t]
          /\ \A e \in events[t] : e.sequence < row.sequence
          /\ \A e \in events'[t] : e.sequence =< row.sequence
          /\ Outcomes(t)' = Outcomes(t) \cup {row}

TaskStep(t) == Moves(t) \/ Retries(t) \/ Ends(t)

OneTaskMoves ==
    \/ \A t \in Tasks : Same(t)
    \/ \E t \in Tasks : TaskStep(t) /\ \A s \in Tasks \ {t} : Same(s)

(* Rows that are inserted count as outcomes if their type is terminal. *)
LEMMA OutcomesOfRows ==
    ASSUME TypeOK, NEW t \in Tasks, NEW rows,
           events' = [events EXCEPT ![t] = @ \cup rows]
    PROVE  /\ Outcomes(t)' = Outcomes(t)
                               \cup {e \in rows : e.type \in TERMINAL_STATES}
           /\ \A s \in Tasks \ {t} : Outcomes(s)' = Outcomes(s)
<1>1. events \in [Tasks -> SUBSET TaskEvent]
  BY DEF TypeOK
<1>2. events'[t] = events[t] \cup rows
      /\ \A s \in Tasks \ {t} : events'[s] = events[s]
  BY <1>1
<1> QED
  BY <1>2 DEF Outcomes

(* The row of _append_event. *)
LEMMA OutcomesOfAppend ==
    ASSUME TypeOK, NEW t \in Tasks, NEW type, AppendEvent(t, type)
    PROVE  /\ Outcomes(t)' =
                IF type \in TERMINAL_STATES
                  THEN Outcomes(t)
                         \cup {[sequence |-> NextSequence(t), type |-> type]}
                  ELSE Outcomes(t)
           /\ \A s \in Tasks \ {t} : Outcomes(s)' = Outcomes(s)
<1> DEFINE rows == {[sequence |-> NextSequence(t), type |-> type]}
<1>1. events' = [events EXCEPT ![t] = @ \cup rows]
  BY DEF AppendEvent
<1>2. {e \in rows : e.type \in TERMINAL_STATES} =
        IF type \in TERMINAL_STATES THEN rows ELSE {}
  OBVIOUS
<1> HIDE DEF rows
<1>3. /\ Outcomes(t)' = Outcomes(t)
                          \cup {e \in rows : e.type \in TERMINAL_STATES}
      /\ \A s \in Tasks \ {t} : Outcomes(s)' = Outcomes(s)
  BY <1>1, OutcomesOfRows
<1> QED
  BY <1>2, <1>3 DEF rows

(* The next number is larger than any of the log. *)
LEMMA NextIsLast ==
    ASSUME LogContiguous, NEW t \in Tasks
    PROVE  /\ NextSequence(t) \in Nat \ {0}
           /\ \A e \in events[t] : e.sequence < NextSequence(t)
<1>1. PICK n \in Nat : SequencesOf(t) = 1 .. n
  BY DEF LogContiguous
<1>2. NextSequence(t) = n + 1
  BY <1>1, NextSequenceOfLog
<1>3. \A e \in events[t] : e.sequence \in 1 .. n
  BY <1>1 DEF SequencesOf
<1> QED
  BY <1>2, <1>3

(* The last transaction of an attempt ends it or does nothing. *)
LEMMA FinishEndsAttempt ==
    ASSUME LogInv, NEW w \in Workers, NEW t \in Tasks, job[w] = t,
           NEW from, NEW outcome, Finish(w, from, outcome),
           \/ from = "running" /\ outcome \in {"partial", "failed"}
           \/ from = "cancel_requested" /\ outcome = "cancelled"
    PROVE  OneTaskMoves
<1> DEFINE row == [sequence |-> NextSequence(t), type |-> outcome]
<1>1. TypeOK /\ LogContiguous /\ attempt' = attempt
  BY DEF LogInv, Finish
<1>2. CASE UNCHANGED <<status, events>>
  BY <1>1, <1>2 DEF OneTaskMoves, Same, Outcomes
<1>3. CASE /\ status[t] = from
           /\ status' = [status EXCEPT ![t] = outcome]
           /\ AppendEvent(t, outcome)
  <2>1. outcome \in TERMINAL_STATES
    BY DEF TERMINAL_STATES
  <2>2. /\ Outcomes(t)' = Outcomes(t) \cup {row}
        /\ \A s \in Tasks \ {t} : Outcomes(s)' = Outcomes(s)
    BY <1>1, <1>3, <2>1, OutcomesOfAppend
  <2>3. /\ row \in TaskEvent
        /\ \A e \in events[t] : e.sequence < row.sequence
        /\ \A e \in events'[t] : e.sequence =< row.sequence
    <3>1. /\ NextSequence(t) \in Nat \ {0}
          /\ \A e \in events[t] : e.sequence \in Nat
                                  /\ e.sequence < NextSequence(t)
      BY <1>1, NextIsLast DEF TypeOK, TaskEvent
    <3>2. events'[t] = events[t] \cup {row}
      BY <1>1, <1>3 DEF AppendEvent, TypeOK
    <3> QED
      BY <2>1, <3>1, <3>2 DEF TaskEvent, EventType
  <2>4. /\ status'[t] = outcome /\ row.type = outcome
        /\ \A s \in Tasks \ {t} : status'[s] = status[s]
    BY <1>1, <1>3 DEF TypeOK
  <2> HIDE DEF row
  <2>5. Ends(t)
    BY <1>1, <1>3, <2>2, <2>3, <2>4 DEF Ends
  <2> QED
    BY <1>1, <2>2, <2>4, <2>5 DEF OneTaskMoves, TaskStep, Same
<1> QED
  BY <1>2, <1>3 DEF Finish

(* So does the completion, with its claims. *)
LEMMA CompletionEndsAttempt ==
    ASSUME LogInv, NEW w \in Workers, NEW t \in Tasks, job[w] = t, FinishCompleted(w)
    PROVE  OneTaskMoves
<1>1. TypeOK /\ LogContiguous /\ attempt' = attempt
  BY DEF LogInv, FinishCompleted
<1>2. CASE UNCHANGED <<status, events>>
  BY <1>1, <1>2 DEF OneTaskMoves, Same, Outcomes
<1>3. ASSUME NEW claims \in 0 .. MaxClaims, status[t] = "running",
             status' = [status EXCEPT ![t] = "completed"],
             events' = [events EXCEPT ![t] = @ \cup CompletionRows(t, claims)]
      PROVE  OneTaskMoves
  <2> DEFINE row == [sequence |-> NextSequence(t) + claims,
                     type |-> "completed"]
  <2>1. {e \in CompletionRows(t, claims) : e.type \in TERMINAL_STATES} = {row}
    BY DEF CompletionRows, TERMINAL_STATES
  <2>2. /\ Outcomes(t)' = Outcomes(t) \cup {row}
        /\ \A s \in Tasks \ {t} : Outcomes(s)' = Outcomes(s)
    BY <1>1, <1>3, <2>1, OutcomesOfRows
  <2>3. /\ row \in TaskEvent
        /\ \A e \in events[t] : e.sequence < row.sequence
        /\ \A e \in events'[t] : e.sequence =< row.sequence
    <3>1. /\ NextSequence(t) \in Nat \ {0}
          /\ \A e \in events[t] : e.sequence \in Nat
                                  /\ e.sequence < NextSequence(t)
      BY <1>1, NextIsLast DEF TypeOK, TaskEvent
    <3>2. claims \in Nat
      BY <1>3, LifecycleAssumption
    <3>3. "completed" \in EventType
      BY DEF EventType, TERMINAL_STATES
    <3>4. events'[t] = events[t] \cup CompletionRows(t, claims)
      BY <1>1, <1>3 DEF TypeOK
    <3>5. \A e \in CompletionRows(t, claims) :
            e.sequence =< NextSequence(t) + claims
      BY <3>1, <3>2 DEF CompletionRows
    <3> QED
      BY <3>1, <3>2, <3>3, <3>4, <3>5 DEF TaskEvent
  <2>4. /\ status'[t] = "completed" /\ row.type = "completed"
        /\ \A s \in Tasks \ {t} : status'[s] = status[s]
    BY <1>1, <1>3 DEF TypeOK
  <2> HIDE DEF row
  <2>5. Ends(t)
    BY <1>1, <1>3, <2>2, <2>3, <2>4 DEF Ends
  <2> QED
    BY <1>1, <2>2, <2>4, <2>5 DEF OneTaskMoves, TaskStep, Same
<1> QED
  BY <1>2, <1>3 DEF FinishCompleted

(* A request, or the claim of a worker: at most the status moves. *)
LEMMA ApiStepMoves ==
    ASSUME LogInv, NEW t \in Tasks, ApiStep(t)
    PROVE  OneTaskMoves
<1>1. TypeOK
  BY DEF LogInv
<1>2. CASE UNCHANGED taskVars
  BY <1>2 DEF OneTaskMoves, Same, Outcomes, taskVars
<1>3. CASE CreateTask(t)
  <2>1. \A s \in Tasks : Outcomes(s)' = Outcomes(s)
    BY <1>1, <1>3, OutcomesOfAppend DEF CreateTask, TERMINAL_STATES
  <2> QED
    BY <2>1, <1>1, <1>3
       DEF CreateTask, OneTaskMoves, TaskStep, Moves, Same, TypeOK
<1>4. CASE CancelTask(t)
  <2>1. \A s \in Tasks : Outcomes(s)' = Outcomes(s)
    BY <1>1, <1>4, OutcomesOfAppend DEF CancelTask, TERMINAL_STATES
  <2> QED
    BY <2>1, <1>1, <1>4
       DEF CancelTask, OneTaskMoves, TaskStep, Moves, Same, TypeOK
<1>5. CASE RetryTask(t)
  <2>1. \A s \in Tasks : Outcomes(s)' = Outcomes(s)
    BY <1>1, <1>5, OutcomesOfAppend DEF RetryTask, TERMINAL_STATES
  <2> QED
    BY <2>1, <1>1, <1>5
       DEF RetryTask, OneTaskMoves, TaskStep, Retries, Same, TypeOK
<1> QED
  BY <1>2, <1>3, <1>4, <1>5
     DEF ApiStep, ReplayCreate, Dispatch, DispatchFails, LoseJobs

LEMMA ClaimMoves ==
    ASSUME LogInv, NEW w \in Workers, NEW t \in Tasks, job[w] = t,
           ClaimQueued(w, t)
    PROVE  OneTaskMoves
<1>1. TypeOK
  BY DEF LogInv
<1>2. \A s \in Tasks : Outcomes(s)' = Outcomes(s)
  BY <1>1, OutcomesOfAppend DEF ClaimQueued, TERMINAL_STATES
<1> QED
  BY <1>1, <1>2 DEF ClaimQueued, OneTaskMoves, TaskStep, Moves, Same, TypeOK

(* The events of the loop are no outcomes. *)
LEMMA LoopEventsAreNoOutcomes ==
    ASSUME LogInv, NEW w \in Workers, NEW t \in Tasks, job[w] = t,
           CommitAppend(w) \/ StoreEvidence(w)
    PROVE  OneTaskMoves
<1>1. TypeOK
  BY DEF LogInv
<1>2. \A s \in Tasks : Outcomes(s)' = Outcomes(s)
  <2>1. CASE UNCHANGED events
    BY <2>1 DEF Outcomes
  <2>2. CASE StoreEvidence(w)
    BY <1>1, <2>2, OutcomesOfAppend DEF StoreEvidence, TERMINAL_STATES
  <2>3. ASSUME events' = [events EXCEPT ![t] =
                            @ \cup {[sequence |-> seqRead[w],
                                     type |-> "progress"]}]
        PROVE  \A s \in Tasks : Outcomes(s)' = Outcomes(s)
    <3> DEFINE rows == {[sequence |-> seqRead[w], type |-> "progress"]}
    <3>1. {e \in rows : e.type \in TERMINAL_STATES} = {}
      BY DEF TERMINAL_STATES
    <3>2. events' = [events EXCEPT ![t] = @ \cup rows]
      BY <2>3
    <3> HIDE DEF rows
    <3>3. /\ Outcomes(t)' = Outcomes(t)
                              \cup {e \in rows : e.type \in TERMINAL_STATES}
          /\ \A s \in Tasks \ {t} : Outcomes(s)' = Outcomes(s)
      BY <1>1, <3>2, OutcomesOfRows
    <3>4. Outcomes(t)' = Outcomes(t)
      BY <3>1, <3>3
    <3> QED
      BY <3>3, <3>4
  <2> QED
    BY <2>1, <2>2, <2>3 DEF CommitAppend
<1> QED
  BY <1>2 DEF CommitAppend, StoreEvidence, OneTaskMoves, Same

(* Every step moves one task at most, as the lemmas above say. *)
LEMMA StepMovesOneTask ==
    ASSUME LogInv, [Next]_vars
    PROVE  OneTaskMoves
<1>1. TypeOK
  BY DEF LogInv
<1>2. CASE UNCHANGED taskVars
  BY <1>2 DEF OneTaskMoves, Same, Outcomes, taskVars
<1>3. ASSUME NEW w \in Workers, RunStep(w)
      PROVE  OneTaskMoves
  <2>1. PICK t : t = job[w]
    OBVIOUS
  <2>2. t \in Tasks
    BY <1>1, <1>3, <2>1
       DEF TypeOK, RunStep, ClaimTask, CheckCancel, BeginAppend, CommitAppend,
           StoreEvidence, FinishPartial, FinishCompleted, FinishFailed,
           FinishCancelled
  <2>3. CASE ClaimTask(w)
    BY <2>1, <2>2, <2>3, <1>2, ClaimMoves
       DEF ClaimTask, ClaimCancelRequested, ClaimNothing
  <2>4. CASE CheckCancel(w) \/ BeginAppend(w)
    BY <2>4, <1>2 DEF CheckCancel, BeginAppend
  <2>5. CASE CommitAppend(w) \/ StoreEvidence(w)
    BY <2>1, <2>2, <2>5, LoopEventsAreNoOutcomes
  <2>6. CASE FinishPartial(w) \/ FinishFailed(w) \/ FinishCancelled(w)
    BY <2>1, <2>2, <2>6, FinishEndsAttempt
       DEF FinishPartial, FinishFailed, FinishCancelled
  <2>7. CASE FinishCompleted(w)
    BY <2>1, <2>2, <2>7, CompletionEndsAttempt
  <2> QED
    BY <1>3, <2>3, <2>4, <2>5, <2>6, <2>7 DEF RunStep
<1>4. CASE \/ \E w \in Workers, t \in Tasks : Deliver(w, t)
           \/ \E w \in Workers : FaultStep(w)
           \/ UNCHANGED vars
  BY <1>2, <1>4
     DEF Deliver, FaultStep, Defect, DatabaseError, Crash, Timeout, vars
<1> QED
  BY <1>3, <1>4, ApiStepMoves DEF Next

----------------------------------------------------------------------------
(* One outcome for every attempt that ended *)

OutcomesAreFinite == \A t \in Tasks : IsFiniteSet(Outcomes(t))

OutcomeInv == LogInv /\ OutcomesAreFinite /\ OneOutcomePerAttempt

(* What one task does to its count. *)
LEMMA TaskStepKeepsCount ==
    ASSUME OutcomeInv, NEW t \in Tasks, TaskStep(t) \/ Same(t)
    PROVE  /\ IsFiniteSet(Outcomes(t)')
           /\ Cardinality(Outcomes(t)') =
                attempt'[t] - (IF status'[t] \in TERMINAL_STATES THEN 0 ELSE 1)
<1>1. /\ IsFiniteSet(Outcomes(t))
      /\ Cardinality(Outcomes(t)) =
           attempt[t] - (IF status[t] \in TERMINAL_STATES THEN 0 ELSE 1)
  BY DEF OutcomeInv, OutcomesAreFinite, OneOutcomePerAttempt
<1>2. attempt[t] \in Nat
  BY LifecycleAssumption DEF OutcomeInv, LogInv, TypeOK
<1>3. CASE Same(t)
  BY <1>1, <1>3 DEF Same
<1>4. CASE Moves(t)
  BY <1>1, <1>4 DEF Moves, TERMINAL_STATES
<1>5. CASE Retries(t)
  BY <1>1, <1>2, <1>5 DEF Retries, TERMINAL_STATES
<1>6. CASE Ends(t)
  <2>1. PICK row \in TaskEvent :
          /\ \A e \in events[t] : e.sequence < row.sequence
          /\ Outcomes(t)' = Outcomes(t) \cup {row}
    BY <1>6 DEF Ends
  <2>2. row \notin Outcomes(t)
    BY <2>1 DEF Outcomes, TaskEvent
  <2>3. /\ IsFiniteSet(Outcomes(t)')
        /\ Cardinality(Outcomes(t)') = Cardinality(Outcomes(t)) + 1
    BY <1>1, <2>1, <2>2, FS_AddElement
  <2> QED
    BY <1>1, <1>2, <1>6, <2>3 DEF Ends, TERMINAL_STATES
<1> QED
  BY <1>3, <1>4, <1>5, <1>6 DEF TaskStep

(* The invariant of every reachable state. *)
THEOREM OutcomeInvariant == Spec => []OutcomeInv
<1>1. Init => OutcomeInv
  <2> SUFFICES ASSUME Init PROVE OutcomeInv
    OBVIOUS
  <2>1. \A t \in Tasks : Outcomes(t) = {}
    BY DEF Init, Outcomes
  <2>2. OutcomesAreFinite
    BY <2>1, FS_EmptySet DEF OutcomesAreFinite
  <2>3. OneOutcomePerAttempt
    BY <2>1, FS_EmptySet DEF Init, OneOutcomePerAttempt, TERMINAL_STATES
  <2> QED
    BY <2>2, <2>3, LogInvInitially DEF OutcomeInv
<1>2. OutcomeInv /\ [Next]_vars => OutcomeInv'
  <2> SUFFICES ASSUME OutcomeInv, [Next]_vars PROVE OutcomeInv'
    OBVIOUS
  <2>1. LogInv /\ LogInv'
    BY LogInvIsInductive DEF OutcomeInv
  <2>2. \A t \in Tasks : TaskStep(t) \/ Same(t)
    BY <2>1, StepMovesOneTask DEF OneTaskMoves
  <2> QED
    BY <2>1, <2>2, TaskStepKeepsCount
       DEF OutcomeInv, OutcomesAreFinite, OneOutcomePerAttempt
<1> QED
  BY <1>1, <1>2, PTL DEF Spec

(* Every attempt that ended left exactly one terminal event, in every      *)
(* interleaving of any number of workers and under every fault: the guard  *)
(* and the event of each _finish transaction hold the same row lock. *)
THEOREM OneOutcome == Spec => []OneOutcomePerAttempt
BY OutcomeInvariant, PTL DEF OutcomeInv

----------------------------------------------------------------------------
(* The lifecycle implements TaskContract *)

(* The outcomes with k outcomes up to them. *)
Ranked(S, k) ==
    {e \in S : Cardinality({f \in S : f.sequence =< e.sequence}) = k}

(* A row after all others gets the next rank and changes no other rank. *)
LEMMA RankOfLastRow ==
    ASSUME NEW S \in SUBSET TaskEvent, IsFiniteSet(S),
           NEW row \in TaskEvent, \A e \in S : e.sequence < row.sequence
    PROVE  /\ \A k : k # Cardinality(S) + 1 =>
                       Ranked(S \cup {row}, k) = Ranked(S, k)
           /\ Ranked(S, Cardinality(S) + 1) = {}
           /\ Ranked(S \cup {row}, Cardinality(S) + 1) = {row}
<1> DEFINE T == S \cup {row}
           n == Cardinality(S)
           Upto(U, e) == {f \in U : f.sequence =< e.sequence}
<1>1. row \notin S /\ \A e \in T : e.sequence \in Nat
  BY DEF TaskEvent
<1>2. n \in Nat /\ Cardinality(T) = n + 1
  BY <1>1, FS_CardinalityType, FS_AddElement
<1>3. \A e \in S : Upto(T, e) = Upto(S, e)
  BY <1>1
<1>4. Upto(T, row) = T
  BY <1>1
<1>5. \A e \in S : Cardinality(Upto(S, e)) # n + 1
  <2> SUFFICES ASSUME NEW e \in S PROVE Cardinality(Upto(S, e)) # n + 1
    OBVIOUS
  <2>1. Upto(S, e) \in SUBSET S
    OBVIOUS
  <2> HIDE DEF Upto
  <2>2. Cardinality(Upto(S, e)) \in Nat /\ Cardinality(Upto(S, e)) =< n
    BY <2>1, FS_Subset, FS_CardinalityType
  <2> QED
    BY <2>2, <1>2
<1>6. \A k : /\ Ranked(S, k) = {e \in S : Cardinality(Upto(S, e)) = k}
             /\ Ranked(T, k) = {e \in T : Cardinality(Upto(T, e)) = k}
  BY DEF Ranked
<1> HIDE DEF Upto, T, n
<1>7. \A e \in T : e \in S \/ e = row
  BY DEF T
<1>8. S \subseteq T /\ row \in T
  BY DEF T
<1>9. \A k : k # n + 1 => Ranked(T, k) = Ranked(S, k)
  BY <1>2, <1>3, <1>4, <1>6, <1>7, <1>8
<1>10. Ranked(S, n + 1) = {}
  BY <1>5, <1>6
<1>11. Ranked(T, n + 1) = {row}
  BY <1>1, <1>2, <1>3, <1>4, <1>5, <1>6, <1>7, <1>8
<1> QED
  BY <1>9, <1>10, <1>11 DEF T, n

TypeOfAny(rows) == IF rows = {} THEN "none" ELSE (CHOOSE e \in rows : TRUE).type

LEMMA OutcomeOfRanked ==
    \A t, k : OutcomeOf(t, k) = TypeOfAny(Ranked(Outcomes(t), k))
BY DEF OutcomeOf, Ranked, TypeOfAny

LEMMA OutcomeOfRankedPrime ==
    \A t, k : OutcomeOf(t, k)' = TypeOfAny(Ranked(Outcomes(t)', k))
BY DEF OutcomeOf, Ranked, TypeOfAny

Ledger == [t \in Tasks |-> [k \in 1 .. MaxAttempts |-> OutcomeOf(t, k)]]

(* An attempt that goes on writes nothing into the ledger. *)
LEMMA LedgerStays ==
    ASSUME NEW t, Outcomes(t)' = Outcomes(t)
    PROVE  \A k : OutcomeOf(t, k)' = OutcomeOf(t, k)
BY OutcomeOfRanked, OutcomeOfRankedPrime

(* An attempt that ends writes its outcome, once, into its own entry. *)
LEMMA LedgerIsWrittenOnce ==
    ASSUME OutcomeInv, NEW t \in Tasks, Ends(t)
    PROVE  /\ attempt[t] \in 1 .. MaxAttempts
           /\ OutcomeOf(t, attempt[t]) = "none"
           /\ OutcomeOf(t, attempt[t])' = status'[t]
           /\ \A k : k # attempt[t] => OutcomeOf(t, k)' = OutcomeOf(t, k)
<1>1. PICK row \in TaskEvent :
        /\ row.type = status'[t]
        /\ \A e \in events[t] : e.sequence < row.sequence
        /\ Outcomes(t)' = Outcomes(t) \cup {row}
  BY DEF Ends
<1> DEFINE S == Outcomes(t)
<1>2. /\ S \in SUBSET TaskEvent /\ IsFiniteSet(S)
      /\ \A e \in S : e.sequence < row.sequence
      /\ attempt[t] \in 1 .. MaxAttempts
  BY <1>1 DEF OutcomeInv, LogInv, TypeOK, OutcomesAreFinite, Outcomes
<1>3. Cardinality(S) + 1 = attempt[t]
  <2>1. status[t] \notin TERMINAL_STATES
    BY DEF Ends, TERMINAL_STATES
  <2> QED
    BY <2>1, <1>2, LifecycleAssumption DEF OutcomeInv, OneOutcomePerAttempt
<1>4. /\ \A k : k # attempt[t] => Ranked(S \cup {row}, k) = Ranked(S, k)
      /\ Ranked(S, attempt[t]) = {}
      /\ Ranked(S \cup {row}, attempt[t]) = {row}
  <2> HIDE DEF S
  <2> QED
    BY <1>2, <1>3, RankOfLastRow
<1>5. OutcomeOf(t, attempt[t]) = "none"
  BY <1>4, OutcomeOfRanked DEF TypeOfAny
<1>6. attempt[t]' = attempt[t]
  BY DEF Ends
<1>7. \A k : OutcomeOf(t, k)' =
               TypeOfAny(Ranked(S \cup {row}, k))
  BY <1>1, OutcomeOfRankedPrime
<1>8. \A k : k # attempt[t] => OutcomeOf(t, k)' = OutcomeOf(t, k)
  BY <1>4, <1>7, OutcomeOfRanked
<1>9. TypeOfAny({row}) = row.type
  BY DEF TypeOfAny
<1>10. \A k : k = attempt[t] => OutcomeOf(t, k)' = status'[t]
  BY <1>1, <1>4, <1>7, <1>9
<1> QED
  BY <1>2, <1>5, <1>6, <1>8, <1>10

(* A step that ends, retries or moves task t, seen from the contract. *)
LEMMA ContractStep ==
    ASSUME OutcomeInv, OutcomeInv', NEW t \in Tasks, TaskStep(t),
           \A s \in Tasks \ {t} : Same(s)
    PROVE  Contract!Next
<1>1. /\ status' = [status EXCEPT ![t] = status'[t]]
      /\ attempt' = [attempt EXCEPT ![t] = attempt'[t]]
      /\ attempt[t] \in 1 .. MaxAttempts
  BY DEF OutcomeInv, LogInv, TypeOK, Same
<1>2. \A s \in Tasks \ {t} : \A k : OutcomeOf(s, k)' = OutcomeOf(s, k)
  BY LedgerStays DEF Same
<1>3. ASSUME \A k : OutcomeOf(t, k)' = OutcomeOf(t, k)
      PROVE  Ledger' = Ledger
  BY <1>2, <1>3 DEF Ledger
<1>4. attempt'[t] = attempt[t] => attempt' = attempt
  BY DEF OutcomeInv, LogInv, TypeOK, Same
<1>5. CASE Moves(t)
  <2>1. Ledger' = Ledger /\ attempt' = attempt
    BY <1>3, <1>4, <1>5, LedgerStays DEF Moves
  <2>2. Contract!Accept(t) \/ Contract!Start(t)
        \/ Contract!RequestCancellation(t)
    BY <1>1, <1>5, <2>1
       DEF Moves, Ledger, Contract!Accept, Contract!Start,
           Contract!RequestCancellation, Contract!Move
  <2> QED
    BY <2>2 DEF Contract!Next
<1>6. CASE Retries(t)
  <2>1. Ledger' = Ledger
    BY <1>3, <1>6, LedgerStays DEF Retries
  <2>2. Contract!Retry(t)
    BY <1>1, <1>6, <2>1 DEF Retries, Ledger, Contract!Retry, Contract!Move
  <2> QED
    BY <2>2 DEF Contract!Next
<1>7. CASE Ends(t)
  <2>1. attempt' = attempt
    BY <1>4, <1>7 DEF Ends
  <2>2. /\ Ledger[t][attempt[t]] = "none"
        /\ Ledger' = [Ledger EXCEPT ![t][attempt[t]] = status'[t]]
    <3>1. /\ OutcomeOf(t, attempt[t]) = "none"
          /\ OutcomeOf(t, attempt[t])' = status'[t]
          /\ \A k : k # attempt[t] => OutcomeOf(t, k)' = OutcomeOf(t, k)
      BY <1>7, LedgerIsWrittenOnce
    <3>2. \A k : k = attempt[t] => OutcomeOf(t, k)' = status'[t]
      BY <2>1, <3>1
    <3>3. Ledger' = [s \in Tasks |-> [k \in 1 .. MaxAttempts |->
                       IF s = t /\ k = attempt[t] THEN status'[t]
                       ELSE OutcomeOf(s, k)]]
      BY <1>2, <3>1, <3>2 DEF Ledger
    <3>4. [Ledger EXCEPT ![t][attempt[t]] = status'[t]]
            = [s \in Tasks |-> [k \in 1 .. MaxAttempts |->
                 IF s = t /\ k = attempt[t] THEN status'[t]
                 ELSE OutcomeOf(s, k)]]
      BY <1>1 DEF Ledger
    <3> QED
      BY <1>1, <3>1, <3>3, <3>4 DEF Ledger
  <2>3. ASSUME NEW from, NEW outcome, status[t] \in from, status'[t] = outcome
        PROVE  Contract!End(t, from, outcome)
    BY <1>1, <2>1, <2>2, <2>3 DEF Ledger, Contract!End, Contract!Move
  <2> QED
    BY <1>7, <2>3 DEF Ends, Contract!Next
<1> QED
  BY <1>5, <1>6, <1>7 DEF TaskStep

(* TaskLifecycle implements TaskContract, for any number of tasks, workers *)
(* and attempts and under every fault: initial states map to the initial   *)
(* state, every step to a step of the contract or to a stutter. *)
THEOREM LifecycleImplementsContract == Spec => ImplementsContract
<1>1. Init => Contract!Init
  <2> SUFFICES ASSUME Init PROVE Contract!Init
    OBVIOUS
  <2>1. \A t \in Tasks : Outcomes(t) = {}
    BY DEF Init, Outcomes
  <2>2. \A t \in Tasks : \A k : OutcomeOf(t, k) = "none"
    BY <2>1, OutcomeOfRanked DEF Ranked, TypeOfAny
  <2> QED
    BY <2>2 DEF Init, Contract!Init
<1>2. OutcomeInv /\ OutcomeInv' /\ [Next]_vars => [Contract!Next]_(Contract!vars)
  <2> SUFFICES ASSUME OutcomeInv, OutcomeInv', [Next]_vars
               PROVE  [Contract!Next]_(Contract!vars)
    OBVIOUS
  <2>1. OneTaskMoves
    BY StepMovesOneTask DEF OutcomeInv
  <2>2. CASE \A t \in Tasks : Same(t)
    <3>1. status' = status /\ attempt' = attempt
      BY <2>2 DEF Same, OutcomeInv, LogInv, TypeOK
    <3>2. Ledger' = Ledger
      BY <2>2, LedgerStays DEF Same, Ledger
    <3> QED
      BY <3>1, <3>2 DEF Ledger, Contract!vars
  <2> QED
    BY <2>1, <2>2, ContractStep DEF OneTaskMoves
<1> QED
  BY <1>1, <1>2, OutcomeInvariant, PTL
     DEF Spec, ImplementsContract, Contract!Spec

----------------------------------------------------------------------------
(* Nothing follows an outcome *)

(* The log of a task with an outcome other than cancelled is closed while  *)
(* that status lasts: nobody works on it any more. *)
LEMMA ClosedLogStays ==
    ASSUME TypeOK, RunnerInv, [Next]_vars, NEW t \in Tasks,
           status[t] \in {"completed", "partial", "failed"},
           status'[t] = status[t]
    PROVE  events'[t] = events[t]
<1> USE DEF TypeOK
<1>1. CASE \E s \in Tasks : ApiStep(s)
  BY <1>1 DEF ApiStep, CreateTask, ReplayCreate, CancelTask, RetryTask,
              Dispatch, DispatchFails, LoseJobs, AppendEvent, taskVars
<1>2. ASSUME NEW w \in Workers, RunStep(w)
      PROVE  events'[t] = events[t]
  <2>1. CASE CommitAppend(w) \/ StoreEvidence(w)
    <3>1. job[w] # t
      BY <2>1 DEF RunnerInv, EngagedOnStartedTasks, Engaged, Active,
                  CommitAppend, StoreEvidence
    <3> QED
      BY <2>1, <3>1 DEF CommitAppend, StoreEvidence, AppendEvent
  <2>2. CASE ClaimTask(w)
    BY <2>2 DEF ClaimTask, ClaimQueued, ClaimCancelRequested, ClaimNothing,
                AppendEvent, taskVars
  <2>3. CASE CheckCancel(w) \/ BeginAppend(w)
    BY <2>3 DEF CheckCancel, BeginAppend, taskVars
  <2>4. CASE FinishPartial(w) \/ FinishFailed(w) \/ FinishCancelled(w)
    BY <2>4 DEF FinishPartial, FinishFailed, FinishCancelled, Finish,
                AppendEvent
  <2>5. CASE FinishCompleted(w)
    BY <2>5 DEF FinishCompleted
  <2> QED
    BY <1>2, <2>1, <2>2, <2>3, <2>4, <2>5 DEF RunStep
<1>3. CASE \/ \E w \in Workers, s \in Tasks : Deliver(w, s)
           \/ \E w \in Workers : FaultStep(w)
           \/ UNCHANGED vars
  BY <1>3
     DEF Deliver, FaultStep, Defect, DatabaseError, Crash, Timeout, vars,
         taskVars
<1> QED
  BY <1>1, <1>2, <1>3 DEF Next

(* The row that ends an attempt is the last of the log. *)
LEMMA OutcomeIsLast ==
    ASSUME LogContiguous', NEW t \in Tasks, Ends(t)
    PROVE  \E e \in events'[t] : /\ e.sequence = NextSequence(t)' - 1
                                 /\ e.type = status'[t]
<1>1. PICK row \in TaskEvent :
        /\ row.type = status'[t]
        /\ \A e \in events'[t] : e.sequence =< row.sequence
        /\ row \in events'[t]
  BY DEF Ends, Outcomes
<1>2. PICK n \in Nat : SequencesOf(t)' = 1 .. n
  BY DEF LogContiguous
<1>3. NextSequence(t)' = n + 1
  BY <1>2, NextSequenceOfLogPrime
<1>4. row.sequence \in 1 .. n
  BY <1>1, <1>2 DEF SequencesOf
<1>5. n \in SequencesOf(t)'
  BY <1>2, <1>4
<1>6. PICK last \in events'[t] : last.sequence = n
  BY <1>5 DEF SequencesOf
<1>7. row.sequence = n
  BY <1>1, <1>4, <1>6
<1> QED
  BY <1>1, <1>3, <1>7

(* A stream that ends at the outcome of an attempt has seen every row, as  *)
(* long as no claim fails on the database (_finish_partial,                *)
(* _finish_failed, _verify_and_finish). *)
THEOREM OutcomesComeLast ==
    ASSUME "claim" \notin Faults
    PROVE  Spec => []NothingAfterOutcome
<1>1. Init => NothingAfterOutcome
  BY DEF Init, NothingAfterOutcome
<1>2. ASSUME LogInv, LogInv', RunnerInv, NothingAfterOutcome, [Next]_vars
      PROVE  NothingAfterOutcome'
  <2> SUFFICES ASSUME NEW t \in Tasks,
                      status'[t] \in {"completed", "partial", "failed"}
               PROVE  \E e \in events'[t] :
                         /\ e.sequence = NextSequence(t)' - 1
                         /\ e.type = status'[t]
    BY DEF NothingAfterOutcome
  <2>1. TaskStep(t) \/ Same(t)
    BY <1>2, StepMovesOneTask DEF OneTaskMoves
  <2>2. CASE Ends(t)
    BY <1>2, <2>2, OutcomeIsLast DEF LogInv
  <2>3. CASE Same(t)
    <3>1. status'[t] = status[t]
      BY <2>3 DEF Same
    <3>2. events'[t] = events[t]
      BY <1>2, <3>1, ClosedLogStays DEF LogInv
    <3>3. NextSequence(t)' = NextSequence(t)
      BY <3>2 DEF NextSequence, SequencesOf
    <3> QED
      BY <1>2, <3>1, <3>2, <3>3 DEF NothingAfterOutcome
  <2> QED
    BY <2>1, <2>2, <2>3 DEF TaskStep, Moves, Retries
<1> QED
  BY <1>1, <1>2, LogInvariant, RunnerInvariant, PTL DEF Spec

----------------------------------------------------------------------------
(* A queued task has a job *)

(* No step forgets a queued task, as long as jobs are not lost. *)
LEMMA QueuedTaskKeepsAJob ==
    ASSUME Faults \cap {"tries", "timeout", "enqueue", "redis", "claim"} = {},
           TypeOK, QueuedTaskHasAJob, [Next]_vars
    PROVE  QueuedTaskHasAJob'
<1> SUFFICES ASSUME NEW t \in Tasks, status'[t] = "queued"
             PROVE  \/ dispatch'[t] + jobs'[t] > 0
                    \/ \E w \in Workers : job'[w] = t /\ pc'[w] = "claiming"
  BY DEF QueuedTaskHasAJob
<1> USE DEF TypeOK
<1>1. dispatch[t] \in Nat /\ jobs[t] \in Nat
  OBVIOUS
<1>2. ASSUME NEW s \in Tasks, ApiStep(s)
      PROVE  \/ dispatch'[t] + jobs'[t] > 0
             \/ \E w \in Workers : job'[w] = t /\ pc'[w] = "claiming"
  <2>1. CASE CreateTask(s) \/ RetryTask(s) \/ ReplayCreate(s) \/ CancelTask(s)
    BY <1>1, <2>1
       DEF CreateTask, RetryTask, ReplayCreate, CancelTask, Committed,
           QueuedTaskHasAJob, taskVars, workerVars
  <2>2. CASE Dispatch(s)
    BY <1>1, <2>2 DEF Dispatch, QueuedTaskHasAJob, taskVars, workerVars
  <2>3. ~ DispatchFails(s) /\ ~ LoseJobs(s)
    BY DEF DispatchFails, LoseJobs
  <2> QED
    BY <1>2, <2>1, <2>2, <2>3 DEF ApiStep
<1>3. ASSUME NEW w \in Workers, NEW s \in Tasks, Deliver(w, s)
      PROVE  \/ dispatch'[t] + jobs'[t] > 0
             \/ \E v \in Workers : job'[v] = t /\ pc'[v] = "claiming"
  BY <1>1, <1>3 DEF Deliver, Goto, QueuedTaskHasAJob, taskVars
<1>4. ASSUME NEW w \in Workers, RunStep(w)
      PROVE  \/ dispatch'[t] + jobs'[t] > 0
             \/ \E v \in Workers : job'[v] = t /\ pc'[v] = "claiming"
  <2> USE DEF Goto, EndJob, queueVars, taskVars, QueuedTaskHasAJob
  <2>1. CASE ClaimTask(w)
    BY <1>1, <2>1 DEF ClaimTask, ClaimQueued, ClaimCancelRequested, ClaimNothing
  <2>2. CASE CheckCancel(w) \/ BeginAppend(w) \/ StoreEvidence(w)
    BY <1>1, <2>2 DEF CheckCancel, BeginAppend, StoreEvidence
  <2>3. CASE CommitAppend(w)
    BY <1>1, <2>3 DEF CommitAppend, Overtaken
  <2>4. CASE FinishPartial(w) \/ FinishFailed(w) \/ FinishCancelled(w)
    BY <1>1, <2>4 DEF FinishPartial, FinishFailed, FinishCancelled, Finish
  <2>5. CASE FinishCompleted(w)
    BY <1>1, <2>5 DEF FinishCompleted
  <2> QED
    BY <1>4, <2>1, <2>2, <2>3, <2>4, <2>5 DEF RunStep
<1>5. ASSUME NEW w \in Workers, FaultStep(w)
      PROVE  \/ dispatch'[t] + jobs'[t] > 0
             \/ \E v \in Workers : job'[v] = t /\ pc'[v] = "claiming"
  <2> USE DEF Goto, EndJob, queueVars, taskVars, QueuedTaskHasAJob
  <2>1. CASE Defect(w) \/ DatabaseError(w)
    BY <1>1, <2>1 DEF Defect, DatabaseError
  <2>2. CASE Crash(w)
    BY <1>1, <2>2 DEF Crash
  <2>3. ~ Timeout(w)
    BY DEF Timeout
  <2> QED
    BY <1>5, <2>1, <2>2, <2>3 DEF FaultStep
<1>6. CASE UNCHANGED vars
  BY <1>6 DEF QueuedTaskHasAJob, vars, taskVars, queueVars, workerVars
<1> QED
  BY <1>2, <1>3, <1>4, <1>5, <1>6 DEF Next

(* A queued task is never forgotten by crashes that leave its job one of   *)
(* its max_tries, nor by anything else unless Redis, arq's timeout or the  *)
(* database loses a job: requests commit before they enqueue, and a        *)
(* crashed job is delivered again (create_research, retry_task). *)
THEOREM QueuedTasksHaveJobs ==
    ASSUME Faults \cap {"tries", "timeout", "enqueue", "redis", "claim"} = {}
    PROVE  Spec => []QueuedTaskHasAJob
<1>1. Init => QueuedTaskHasAJob
  BY DEF Init, QueuedTaskHasAJob
<1>2. TypeOK /\ QueuedTaskHasAJob /\ [Next]_vars => QueuedTaskHasAJob'
  BY QueuedTaskKeepsAJob
<1> QED
  BY <1>1, <1>2, TypeCorrect, PTL DEF Spec
=============================================================================
