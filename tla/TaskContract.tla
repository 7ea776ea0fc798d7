---------------------------- MODULE TaskContract ----------------------------
(***************************************************************************)
(* What the service promises about a task, without workers, jobs or event  *)
(* rows: which statuses follow each other (the lifecycle of                *)
(* RANCHO_ASYNC_RESEARCH.md, TaskStatus in db_models.py) and a ledger with *)
(* exactly one outcome for every attempt that ended.  TaskLifecycle        *)
(* implements it.                                                          *)
(***************************************************************************)
EXTENDS Naturals

CONSTANTS Tasks, MaxAttempts

VARIABLES status,   \* the status a client is shown
          attempt,  \* the attempt a client is shown
          ledger    \* ledger[t][k]: the outcome of attempt k, "none" before

vars == <<status, attempt, ledger>>

Outcome == {"completed", "partial", "failed", "cancelled"}

Init ==
    /\ status = [t \in Tasks |-> "absent"]
    /\ attempt = [t \in Tasks |-> 1]
    /\ ledger = [t \in Tasks |-> [k \in 1 .. MaxAttempts |-> "none"]]

Move(t, from, to) ==
    /\ status[t] \in from
    /\ status' = [status EXCEPT ![t] = to]

Accept(t) ==
    /\ Move(t, {"absent"}, "queued")
    /\ UNCHANGED <<attempt, ledger>>

Start(t) ==
    /\ Move(t, {"queued"}, "running")
    /\ UNCHANGED <<attempt, ledger>>

RequestCancellation(t) ==
    /\ Move(t, {"queued", "running"}, "cancel_requested")
    /\ UNCHANGED <<attempt, ledger>>

(* An attempt ends once, and its outcome is written down once. *)
End(t, from, outcome) ==
    /\ Move(t, from, outcome)
    /\ ledger[t][attempt[t]] = "none"
    /\ ledger' = [ledger EXCEPT ![t][attempt[t]] = outcome]
    /\ UNCHANGED attempt

Retry(t) ==
    /\ Move(t, {"partial", "failed"}, "queued")
    /\ attempt[t] < MaxAttempts
    /\ attempt' = [attempt EXCEPT ![t] = @ + 1]
    /\ UNCHANGED ledger

Next == \E t \in Tasks :
    \/ Accept(t)
    \/ Start(t)
    \/ RequestCancellation(t)
    \/ \E outcome \in {"completed", "partial", "failed"} :
          End(t, {"running"}, outcome)
    \/ End(t, {"cancel_requested"}, "cancelled")
    \/ Retry(t)

Spec == Init /\ [][Next]_vars
=============================================================================
