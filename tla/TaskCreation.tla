---------------------------- MODULE TaskCreation ----------------------------
(***************************************************************************)
(* Creation with an Idempotency-Key: POST /v1/research, /v1/findall and    *)
(* /v1/monitors (main.py) and the create_or_get_* functions they call      *)
(* (research.py, findall.py, monitors.py).  Several clients send requests  *)
(* at once, a request's statements interleave with those of the others,    *)
(* the API may die between two of them, and a client that got no answer    *)
(* or a 5xx sends its request again.                                       *)
(*                                                                         *)
(* TaskLifecycle's CreateTask and ReplayCreate are what this module makes  *)
(* of one key.                                                             *)
(***************************************************************************)
EXTENDS Naturals, FiniteSets

CONSTANTS Requests,     \* clients, each with one request it wants answered
          KeyOf,        \* its Idempotency-Key, or NoKey
          BodyOf,       \* its request_fingerprint, different for each endpoint
          Monitors,     \* the requests that are sent to /v1/monitors
          NoKey,
          NoRow,        \* a request that has no row yet
          MaxFailures   \* bound: crashes and refused enqueues

ASSUME CreationAssumption ==
    /\ Monitors \subseteq Requests
    /\ NoRow \notin Requests \X Nat
    /\ MaxFailures \in Nat
    (* the fingerprint of a research task and of a FindAll task differ, and *)
    (* monitors have a table of their own *)
    /\ DOMAIN KeyOf = Requests
    /\ DOMAIN BodyOf = Requests

VARIABLES rows,      \* committed rows of research_tasks and of monitors
          jobs,      \* rows for which a job was handed to Redis
          pc,        \* where a request stands
          row,       \* the row the request inserted or found
          tries,     \* how many sends of it inserted or found a row before
          failures   \* failures so far

vars == <<rows, jobs, pc, row, tries, failures>>

(* new       sent, nothing read yet                                        *)
(* missing   the lookup found no row with the key (or there is no key)     *)
(* inserted  the row is flushed, its transaction is open                   *)
(* stored    the row is committed, by this request or an earlier one       *)
(* queued    the job of the task is in Redis                               *)
(* accepted (200, 201, 202), conflict (409), error (500), unavailable      *)
(* (503), lost (no answer): what the client has got                        *)
InFlight == {"new", "missing", "inserted", "stored", "queued"}
Failed   == {"error", "unavailable", "lost"}
Answered == {"accepted", "conflict"}

TableOf(r) == IF r \in Monitors THEN "monitors" ELSE "research_tasks"

(* A row is named by its client and the send that inserted it.    *)
RowId == Requests \X Nat
RowOf(r, id) ==
    [id |-> id, table |-> TableOf(r), key |-> KeyOf[r], body |-> BodyOf[r]]

SameKey(q, r) ==
    KeyOf[q] # NoKey /\ KeyOf[q] = KeyOf[r] /\ TableOf(q) = TableOf(r)

(* _find_by_key: committed rows only *)
RowsWithKey(r) ==
    {x \in rows : /\ KeyOf[r] # NoKey
                  /\ x.key = KeyOf[r]
                  /\ x.table = TableOf(r)}

Init ==
    /\ rows = {}
    /\ jobs = {}
    /\ pc = [r \in Requests |-> "new"]
    /\ row = [r \in Requests |-> NoRow]
    /\ tries = [r \in Requests |-> 0]
    /\ failures = 0

Goto(r, label) == pc' = [pc EXCEPT ![r] = label]

Reply(r, label) ==
    /\ Goto(r, label)
    /\ UNCHANGED <<rows, jobs, row, tries, failures>>

----------------------------------------------------------------------------
(* The statements of one request *)

LookUp_ByRequest(r) ==
    /\ pc[r] = "new"
    /\ \/ \E x \in RowsWithKey(r) :
             /\ x.body = BodyOf[r]
             /\ Goto(r, "stored")
             /\ row' = [row EXCEPT ![r] = x.id]
       \/ /\ \A x \in RowsWithKey(r) : x.body # BodyOf[r]
          /\ Goto(r, "missing")
          /\ UNCHANGED row
    /\ UNCHANGED <<rows, jobs, tries, failures>>

LookUp_NoFingerprint(r) ==
    /\ pc[r] = "new"
    /\ \/ \E x \in RowsWithKey(r) :
             /\ Goto(r, "stored")
             /\ row' = [row EXCEPT ![r] = x.id]
       \/ /\ RowsWithKey(r) = {}
          /\ Goto(r, "missing")
          /\ UNCHANGED row
    /\ UNCHANGED <<rows, jobs, tries, failures>>

(* _find_by_key and _reuse_or_conflict *)
LookUp(r) ==
    /\ pc[r] = "new"
    /\ \/ \E x \in RowsWithKey(r) :
             IF x.body = BodyOf[r]
             THEN /\ Goto(r, "stored")
                  /\ row' = [row EXCEPT ![r] = x.id]
             ELSE /\ Goto(r, "conflict")
                  /\ UNCHANGED row
       \/ /\ RowsWithKey(r) = {}
          /\ Goto(r, "missing")
          /\ UNCHANGED row
    /\ UNCHANGED <<rows, jobs, tries, failures>>

(* An INSERT waits for an open transaction that inserted the same key. *)
MayInsert(r) ==
    \A q \in Requests : pc[q] = "inserted" => ~SameKey(q, r)

Insert_NoConstraint(r) ==
    /\ pc[r] = "missing"
    /\ Goto(r, "inserted")
    /\ row' = [row EXCEPT ![r] = <<r, tries[r]>>]
    /\ UNCHANGED <<rows, jobs, tries, failures>>

(* session.flush(): the unique constraint on the key is checked here,      *)
(* outside the try of create_or_get_research_task, so the IntegrityError   *)
(* of a lost race leaves the handler as HTTP 500. *)
Insert(r) ==
    /\ pc[r] = "missing"
    /\ MayInsert(r)
    /\ IF RowsWithKey(r) = {}
       THEN /\ Goto(r, "inserted")
            /\ row' = [row EXCEPT ![r] = <<r, tries[r]>>]
       ELSE /\ Goto(r, "error")
            /\ UNCHANGED row
    /\ UNCHANGED <<rows, jobs, tries, failures>>

(* session.commit() *)
Commit(r) ==
    /\ pc[r] = "inserted"
    /\ rows' = rows \cup {RowOf(r, row[r])}
    /\ Goto(r, "stored")
    /\ UNCHANGED <<jobs, row, tries, failures>>

(* enqueue_research_task, for a new task and for a replayed one *)
Enqueue(r) ==
    /\ pc[r] = "stored"
    /\ r \notin Monitors
    /\ jobs' = jobs \cup {row[r]}
    /\ Goto(r, "queued")
    /\ UNCHANGED <<rows, row, tries, failures>>

(* 202 for a task, 201 or 200 for a monitor *)
Answer(r) ==
    /\ pc[r] = IF r \in Monitors THEN "stored" ELSE "queued"
    /\ Reply(r, "accepted")

----------------------------------------------------------------------------
(* Failures and resent requests *)

Fail ==
    /\ failures < MaxFailures
    /\ failures' = failures + 1

(* QueueUnavailableError: the task is stored, the client gets 503. *)
EnqueueFails(r) ==
    /\ pc[r] = "stored"
    /\ r \notin Monitors
    /\ Fail
    /\ Goto(r, "unavailable")
    /\ UNCHANGED <<rows, jobs, row, tries>>

(* An API process dies with the requests it serves; their open             *)
(* transactions roll back. *)
Crash(served) ==
    /\ served # {}
    /\ \A r \in served : pc[r] \in InFlight
    /\ Fail
    /\ pc' = [r \in Requests |-> IF r \in served THEN "lost" ELSE pc[r]]
    /\ UNCHANGED <<rows, jobs, row, tries>>

Resend(r) ==
    /\ pc[r] \in Failed
    /\ Goto(r, "new")
    /\ row' = [row EXCEPT ![r] = NoRow]
    /\ tries' = [tries EXCEPT ![r] = IF row[r] = NoRow THEN @ ELSE @ + 1]
    /\ UNCHANGED <<rows, jobs, failures>>

----------------------------------------------------------------------------

Serve(r) ==
    \/ LookUp(r)
    \/ Insert(r)
    \/ Commit(r)
    \/ Enqueue(r)
    \/ Answer(r)

Next ==
    \/ \E r \in Requests : Serve(r) \/ EnqueueFails(r) \/ Resend(r)
    \/ \E served \in SUBSET Requests : Crash(served)

Spec == Init /\ [][Next]_vars

(* The API goes on with a request it serves; a client does not give up. *)
FairSpec == Spec /\ \A r \in Requests : WF_vars(Serve(r) \/ Resend(r))

----------------------------------------------------------------------------
(* Properties *)

Row == [id : RowId, table : {"research_tasks", "monitors"},
        key : {KeyOf[r] : r \in Requests}, body : {BodyOf[r] : r \in Requests}]

TypeOK ==
    /\ rows \subseteq Row
    /\ jobs \subseteq RowId
    /\ pc \in [Requests -> InFlight \cup Failed \cup Answered]
    /\ row \in [Requests -> RowId \cup {NoRow}]
    /\ tries \in [Requests -> Nat]
    /\ failures \in 0 .. MaxFailures
    /\ \A r \in Requests :
          /\ pc[r] \in {"new", "missing", "conflict", "error"} => row[r] = NoRow
          /\ pc[r] \in {"inserted", "stored", "queued", "accepted",
                        "unavailable"} => row[r] # NoRow

(* However requests race, fail and are sent again, a key names one task    *)
(* (one monitor): the insert that lost the race never reaches the table    *)
(* (uq_research_tasks_idempotency_key, uq_monitors_idempotency_key). *)
OneRowPerKey ==
    \A x, y \in rows :
        x.key = y.key /\ x.key # NoKey /\ x.table = y.table => x = y

(* "the same key and equivalent request return the original task": two     *)
(* clients whose requests with one key were both accepted were given the   *)
(* same task, asked for the same thing, and that is what is stored         *)
(* (_reuse_or_conflict). *)
SameKeySameRow ==
    \A q, r \in Requests :
        /\ pc[q] = "accepted" => RowOf(q, row[q]) \in rows
        /\ pc[q] = "accepted" /\ pc[r] = "accepted" /\ SameKey(q, r)
              => row[q] = row[r] /\ BodyOf[q] = BodyOf[r]

(* "a different request returns 409", and only a different one: a client   *)
(* that repeats its own request is never told that it reused the key. *)
ConflictIsReal ==
    \A r \in Requests :
        pc[r] = "conflict" => \E x \in RowsWithKey(r) : x.body # BodyOf[r]

(* "Enqueue only after the creation transaction has committed": a job      *)
(* never reaches a worker before its task is there to be claimed, nor for  *)
(* an insert that was rolled back; and a 202 means that the job was sent. *)
JobsAreOfStoredTasks ==
    /\ \A id \in jobs : \E x \in rows : x.id = id
    /\ \A r \in Requests \ Monitors : pc[r] = "accepted" => row[r] \in jobs

(* A client that repeats its request after a 5xx or a lost answer, with a  *)
(* key or without, gets its task or a conflict in the end. *)
EveryClientIsAnswered == \A r \in Requests : <>(pc[r] \in Answered)

(* RANCHO_ASYNC_RESEARCH.md, requirement 5, and research.py ("A concurrent *)
(* request won the same idempotency key"): a request that loses the race   *)
(* for its key is answered with the original task or a conflict, never     *)
(* with a server error. *)
LostRaceIsAnswered == \A r \in Requests : pc[r] # "error"
=============================================================================
