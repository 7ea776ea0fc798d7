------------------------- MODULE TaskCreationProofs -------------------------
(***************************************************************************)
(* Proofs about TaskCreation, for every set of requests, keys and bodies   *)
(* and any number of failures: a key names one row, and what is answered   *)
(* to a client agrees with what is stored.                                 *)
(***************************************************************************)
EXTENDS TaskCreation, TLAPS

----------------------------------------------------------------------------
(* The inductive invariant.  The unique index is what makes it hold: while *)
(* an insert is open no other one of its key is, and no row of its key has *)
(* been committed.                                                         *)

OpenInsertsAreAlone ==
    \A q, r \in Requests :
        pc[q] = "inserted" /\ pc[r] = "inserted" /\ SameKey(q, r) => q = r

OpenInsertsAreNew ==
    \A r \in Requests : pc[r] = "inserted" => RowsWithKey(r) = {}

HasStoredRow == {"stored", "queued", "accepted"}

StoredMeansCommitted ==
    \A r \in Requests : pc[r] \in HasStoredRow => RowOf(r, row[r]) \in rows

JobsFollowRows ==
    /\ jobs \subseteq {x.id : x \in rows}
    /\ \A r \in Requests :
          pc[r] = "queued" \/ (pc[r] = "accepted" /\ r \notin Monitors)
              => row[r] \in jobs

CreationInv ==
    /\ TypeOK
    /\ OneRowPerKey
    /\ OpenInsertsAreAlone
    /\ OpenInsertsAreNew
    /\ StoredMeansCommitted
    /\ JobsFollowRows
    /\ ConflictIsReal

(* A row with the key and the body of a request is a row it could have     *)
(* inserted. *)
LEMMA FoundRow ==
    ASSUME TypeOK, NEW r \in Requests, NEW x \in RowsWithKey(r),
           x.body = BodyOf[r]
    PROVE  x = RowOf(r, x.id) /\ x.id \in RowId
<1>1. x \in Row /\ x.key = KeyOf[r] /\ x.table = TableOf(r)
  BY DEF RowsWithKey, TypeOK
<1>2. x = [id |-> x.id, table |-> x.table, key |-> x.key, body |-> x.body]
  BY <1>1 DEF Row
<1> QED
  BY <1>1, <1>2 DEF RowOf, Row

(* The row of a request has the type of the table. *)
LEMMA RowType ==
    ASSUME NEW r \in Requests, NEW id \in RowId
    PROVE  RowOf(r, id) \in Row
  BY DEF RowOf, Row, TableOf

(* Steps that commit no row, open no insert and claim no stored row keep   *)
(* what is said about rows. *)
LEMMA InsertsStay ==
    ASSUME CreationInv, NEW r \in Requests, NEW label,
           rows' = rows, label # "inserted",
           pc' = [pc EXCEPT ![r] = label]
    PROVE  OneRowPerKey' /\ OpenInsertsAreAlone' /\ OpenInsertsAreNew'
<1>1. \A q \in Requests : pc'[q] = "inserted" => pc[q] = "inserted"
  BY DEF CreationInv, TypeOK
<1>2. \A q \in Requests : RowsWithKey(q)' = RowsWithKey(q)
  BY DEF RowsWithKey
<1> QED
  BY <1>1, <1>2 DEF CreationInv, OneRowPerKey, OpenInsertsAreAlone,
                    OpenInsertsAreNew, SameKey

----------------------------------------------------------------------------
(* The invariant holds initially ... *)
LEMMA CreationInvInitially == Init => CreationInv
<1> SUFFICES ASSUME Init
             PROVE  CreationInv
  OBVIOUS
<1>1. rows = {} /\ jobs = {} /\ \A r \in Requests : pc[r] = "new"
  BY DEF Init
<1>2. TypeOK
  BY CreationAssumption DEF Init, TypeOK, InFlight, Failed, Answered
<1>3. OneRowPerKey /\ JobsFollowRows
  BY <1>1 DEF OneRowPerKey, JobsFollowRows
<1>4. /\ OpenInsertsAreAlone /\ OpenInsertsAreNew
      /\ StoredMeansCommitted /\ ConflictIsReal
  BY <1>1 DEF OpenInsertsAreAlone, OpenInsertsAreNew, StoredMeansCommitted,
              HasStoredRow, ConflictIsReal
<1> QED
  BY <1>2, <1>3, <1>4 DEF CreationInv

(* ... and is kept by every statement of a request, ... *)
LEMMA LookUpKeepsInv ==
    ASSUME CreationInv, NEW r \in Requests, LookUp(r)
    PROVE  CreationInv'
<1> USE DEF CreationInv
<1>1. CASE \E x \in RowsWithKey(r) : /\ x.body = BodyOf[r]
                                     /\ Goto(r, "stored")
                                     /\ row' = [row EXCEPT ![r] = x.id]
  <2>1. PICK x \in RowsWithKey(r) : /\ x.body = BodyOf[r]
                                    /\ Goto(r, "stored")
                                    /\ row' = [row EXCEPT ![r] = x.id]
    BY <1>1
  <2>2. x = RowOf(r, x.id) /\ x.id \in RowId /\ x \in rows
    BY <2>1, FoundRow DEF RowsWithKey
  <2>3. UNCHANGED <<rows, jobs, tries, failures>>
    BY DEF LookUp
  <2>4. pc' = [pc EXCEPT ![r] = "stored"]
    BY <2>1 DEF Goto
  <2>5. TypeOK'
    BY <2>1, <2>2, <2>3, <2>4, CreationAssumption
       DEF TypeOK, InFlight, Failed, Answered, RowId
  <2>6. OneRowPerKey' /\ OpenInsertsAreAlone' /\ OpenInsertsAreNew'
    BY <2>3, <2>4, InsertsStay
  <2>7. StoredMeansCommitted'
    BY <2>1, <2>2, <2>3, <2>4
       DEF StoredMeansCommitted, HasStoredRow, TypeOK, RowOf, TableOf
  <2>8. JobsFollowRows'
    BY <2>1, <2>3, <2>4 DEF JobsFollowRows, TypeOK
  <2>9. ConflictIsReal'
    BY <2>3, <2>4 DEF ConflictIsReal, TypeOK, RowsWithKey
  <2> QED
    BY <2>5, <2>6, <2>7, <2>8, <2>9
<1>2. CASE /\ \E x \in RowsWithKey(r) : x.body # BodyOf[r]
           /\ Goto(r, "conflict")
           /\ UNCHANGED row
  <2>1. UNCHANGED <<rows, jobs, row, tries, failures>>
    BY <1>2 DEF LookUp
  <2>2. pc' = [pc EXCEPT ![r] = "conflict"]
    BY <1>2 DEF Goto
  <2>3. pc[r] = "new"
    BY DEF LookUp
  <2>4. TypeOK'
    BY <2>1, <2>2, <2>3 DEF TypeOK, InFlight, Failed, Answered
  <2>5. OneRowPerKey' /\ OpenInsertsAreAlone' /\ OpenInsertsAreNew'
    BY <2>1, <2>2, InsertsStay
  <2>6. StoredMeansCommitted' /\ JobsFollowRows'
    BY <2>1, <2>2
       DEF StoredMeansCommitted, HasStoredRow, JobsFollowRows, TypeOK, RowOf,
           TableOf
  <2>7. ConflictIsReal'
    BY <1>2, <2>1, <2>2 DEF ConflictIsReal, TypeOK, RowsWithKey
  <2> QED
    BY <2>4, <2>5, <2>6, <2>7
<1>3. CASE Goto(r, "missing") /\ UNCHANGED row
  <2>1. UNCHANGED <<rows, jobs, row, tries, failures>>
    BY <1>3 DEF LookUp
  <2>2. pc' = [pc EXCEPT ![r] = "missing"]
    BY <1>3 DEF Goto
  <2>3. pc[r] = "new"
    BY DEF LookUp
  <2>4. TypeOK'
    BY <2>1, <2>2, <2>3 DEF TypeOK, InFlight, Failed, Answered
  <2>5. OneRowPerKey' /\ OpenInsertsAreAlone' /\ OpenInsertsAreNew'
    BY <2>1, <2>2, InsertsStay
  <2>6. StoredMeansCommitted' /\ JobsFollowRows' /\ ConflictIsReal'
    BY <2>1, <2>2
       DEF StoredMeansCommitted, HasStoredRow, JobsFollowRows, TypeOK, RowOf,
           TableOf, ConflictIsReal, RowsWithKey
  <2> QED
    BY <2>4, <2>5, <2>6
<1> QED
  BY <1>1, <1>2, <1>3 DEF LookUp

LEMMA InsertKeepsInv ==
    ASSUME CreationInv, NEW r \in Requests, Insert(r)
    PROVE  CreationInv'
<1> USE DEF CreationInv
<1>1. CASE RowsWithKey(r) = {}
  <2>1. /\ pc' = [pc EXCEPT ![r] = "inserted"]
        /\ row' = [row EXCEPT ![r] = <<r, tries[r]>>]
        /\ UNCHANGED <<rows, jobs, tries, failures>>
    BY <1>1 DEF Insert, Goto
  <2>2. <<r, tries[r]>> \in RowId
    BY DEF RowId, TypeOK
  <2>3. TypeOK'
    BY <2>1, <2>2, CreationAssumption
       DEF TypeOK, InFlight, Failed, Answered, RowId
  <2>4. OpenInsertsAreAlone'
    BY <2>1 DEF OpenInsertsAreAlone, Insert, MayInsert, TypeOK, SameKey
  <2>5. OneRowPerKey' /\ OpenInsertsAreNew'
    BY <1>1, <2>1 DEF OneRowPerKey, OpenInsertsAreNew, RowsWithKey, TypeOK
  <2>6. StoredMeansCommitted' /\ JobsFollowRows' /\ ConflictIsReal'
    BY <2>1
       DEF StoredMeansCommitted, HasStoredRow, JobsFollowRows, TypeOK, RowOf,
           TableOf, ConflictIsReal, RowsWithKey
  <2> QED
    BY <2>3, <2>4, <2>5, <2>6
<1>2. CASE RowsWithKey(r) # {}
  <2>1. /\ pc' = [pc EXCEPT ![r] = "error"]
        /\ UNCHANGED <<rows, jobs, row, tries, failures>>
        /\ pc[r] = "missing"
    BY <1>2 DEF Insert, Goto
  <2>2. TypeOK'
    BY <2>1 DEF TypeOK, InFlight, Failed, Answered
  <2>3. OneRowPerKey' /\ OpenInsertsAreAlone' /\ OpenInsertsAreNew'
    BY <2>1, InsertsStay
  <2>4. StoredMeansCommitted' /\ JobsFollowRows' /\ ConflictIsReal'
    BY <2>1
       DEF StoredMeansCommitted, HasStoredRow, JobsFollowRows, TypeOK, RowOf,
           TableOf, ConflictIsReal, RowsWithKey
  <2> QED
    BY <2>2, <2>3, <2>4
<1> QED
  BY <1>1, <1>2

LEMMA CommitKeepsInv ==
    ASSUME CreationInv, NEW r \in Requests, Commit(r)
    PROVE  CreationInv'
<1> USE DEF CreationInv
<1> DEFINE new == RowOf(r, row[r])
<1>1. /\ pc[r] = "inserted"
      /\ pc' = [pc EXCEPT ![r] = "stored"]
      /\ rows' = rows \cup {new}
      /\ UNCHANGED <<jobs, row, tries, failures>>
  BY DEF Commit, Goto
<1>2. row[r] \in RowId /\ new \in Row
  BY <1>1, RowType DEF TypeOK
<1>3. new.key = KeyOf[r] /\ new.table = TableOf(r)
  BY DEF RowOf
<1>4. RowsWithKey(r) = {}
  BY <1>1 DEF OpenInsertsAreNew
<1>5. TypeOK'
  BY <1>1, <1>2 DEF TypeOK, InFlight, Failed, Answered
<1>6. OneRowPerKey'
  BY <1>1, <1>3, <1>4 DEF OneRowPerKey, RowsWithKey
<1>7. \A q \in Requests : pc'[q] = "inserted" => pc[q] = "inserted" /\ q # r
  BY <1>1 DEF TypeOK
<1>8. OpenInsertsAreAlone'
  BY <1>7 DEF OpenInsertsAreAlone, SameKey
<1>9. OpenInsertsAreNew'
  <2>1. ASSUME NEW q \in Requests, pc'[q] = "inserted"
        PROVE  RowsWithKey(q)' = {}
    <3>1. ~ SameKey(r, q)
      BY <1>1, <1>7, <2>1 DEF OpenInsertsAreAlone
    <3>2. RowsWithKey(q) = {}
      BY <1>7, <2>1 DEF OpenInsertsAreNew
    <3> QED
      BY <1>1, <1>3, <3>1, <3>2 DEF RowsWithKey, SameKey
  <2> QED
    BY <2>1 DEF OpenInsertsAreNew
<1>10. StoredMeansCommitted'
  BY <1>1 DEF StoredMeansCommitted, HasStoredRow, TypeOK, RowOf, TableOf
<1>11. JobsFollowRows'
  BY <1>1 DEF JobsFollowRows, TypeOK
<1>12. ConflictIsReal'
  BY <1>1 DEF ConflictIsReal, RowsWithKey, TypeOK
<1> QED
  BY <1>5, <1>6, <1>8, <1>9, <1>10, <1>11, <1>12

LEMMA EnqueueKeepsInv ==
    ASSUME CreationInv, NEW r \in Requests, Enqueue(r)
    PROVE  CreationInv'
<1> USE DEF CreationInv
<1>1. /\ pc[r] = "stored"
      /\ pc' = [pc EXCEPT ![r] = "queued"]
      /\ jobs' = jobs \cup {row[r]}
      /\ UNCHANGED <<rows, row, tries, failures>>
  BY DEF Enqueue, Goto
<1>2. row[r] \in RowId
  BY <1>1 DEF TypeOK
<1>3. row[r] \in {x.id : x \in rows}
  <2>1. RowOf(r, row[r]) \in rows
    BY <1>1 DEF StoredMeansCommitted, HasStoredRow
  <2>2. RowOf(r, row[r]).id = row[r]
    BY DEF RowOf
  <2> QED
    BY <2>1, <2>2
<1>4. TypeOK'
  BY <1>1, <1>2 DEF TypeOK, InFlight, Failed, Answered
<1>5. OneRowPerKey' /\ OpenInsertsAreAlone' /\ OpenInsertsAreNew'
  BY <1>1, InsertsStay
<1>6. StoredMeansCommitted' /\ ConflictIsReal'
  BY <1>1 DEF StoredMeansCommitted, HasStoredRow, TypeOK, RowOf, TableOf,
              ConflictIsReal, RowsWithKey
<1>7. JobsFollowRows'
  BY <1>1, <1>3 DEF JobsFollowRows, TypeOK
<1> QED
  BY <1>4, <1>5, <1>6, <1>7

LEMMA AnswerKeepsInv ==
    ASSUME CreationInv, NEW r \in Requests, Answer(r)
    PROVE  CreationInv'
<1> USE DEF CreationInv
<1>1. /\ pc[r] = IF r \in Monitors THEN "stored" ELSE "queued"
      /\ pc' = [pc EXCEPT ![r] = "accepted"]
      /\ UNCHANGED <<rows, jobs, row, tries, failures>>
  BY DEF Answer, Reply, Goto
<1>2. TypeOK'
  BY <1>1 DEF TypeOK, InFlight, Failed, Answered
<1>3. OneRowPerKey' /\ OpenInsertsAreAlone' /\ OpenInsertsAreNew'
  BY <1>1, InsertsStay
<1>4. StoredMeansCommitted' /\ ConflictIsReal'
  BY <1>1 DEF StoredMeansCommitted, HasStoredRow, TypeOK, RowOf, TableOf,
              ConflictIsReal, RowsWithKey
<1>5. JobsFollowRows'
  BY <1>1 DEF JobsFollowRows, TypeOK
<1> QED
  BY <1>2, <1>3, <1>4, <1>5

(* ... by every failure and by every request that is sent again. *)
LEMMA FailuresKeepInv ==
    ASSUME CreationInv, NEW r \in Requests, EnqueueFails(r) \/ Resend(r)
    PROVE  CreationInv'
<1> USE DEF CreationInv
<1>1. CASE EnqueueFails(r)
  <2>1. /\ pc[r] = "stored"
        /\ pc' = [pc EXCEPT ![r] = "unavailable"]
        /\ failures' \in 0 .. MaxFailures
        /\ UNCHANGED <<rows, jobs, row, tries>>
    BY <1>1, CreationAssumption DEF EnqueueFails, Goto, Fail, TypeOK
  <2>2. TypeOK'
    BY <2>1 DEF TypeOK, InFlight, Failed, Answered
  <2>3. OneRowPerKey' /\ OpenInsertsAreAlone' /\ OpenInsertsAreNew'
    BY <2>1, InsertsStay
  <2>4. StoredMeansCommitted' /\ JobsFollowRows' /\ ConflictIsReal'
    BY <2>1
       DEF StoredMeansCommitted, HasStoredRow, JobsFollowRows, TypeOK, RowOf,
           TableOf, ConflictIsReal, RowsWithKey
  <2> QED
    BY <2>2, <2>3, <2>4
<1>2. CASE Resend(r)
  <2>1. /\ pc' = [pc EXCEPT ![r] = "new"]
        /\ row' = [row EXCEPT ![r] = NoRow]
        /\ tries' \in [Requests -> Nat]
        /\ UNCHANGED <<rows, jobs, failures>>
    BY <1>2 DEF Resend, Goto, TypeOK
  <2>2. TypeOK'
    BY <2>1 DEF TypeOK, InFlight, Failed, Answered
  <2>3. OneRowPerKey' /\ OpenInsertsAreAlone' /\ OpenInsertsAreNew'
    BY <2>1, InsertsStay
  <2>4. StoredMeansCommitted' /\ JobsFollowRows' /\ ConflictIsReal'
    BY <2>1
       DEF StoredMeansCommitted, HasStoredRow, JobsFollowRows, TypeOK, RowOf,
           TableOf, ConflictIsReal, RowsWithKey
  <2> QED
    BY <2>2, <2>3, <2>4
<1> QED
  BY <1>1, <1>2

LEMMA CrashKeepsInv ==
    ASSUME CreationInv, NEW served \in SUBSET Requests, Crash(served)
    PROVE  CreationInv'
<1> USE DEF CreationInv
<1>1. /\ pc' = [r \in Requests |-> IF r \in served THEN "lost" ELSE pc[r]]
      /\ failures' \in 0 .. MaxFailures
      /\ UNCHANGED <<rows, jobs, row, tries>>
  BY CreationAssumption DEF Crash, Fail, TypeOK
<1>2. \A r \in Requests : pc'[r] = pc[r] \/ pc'[r] = "lost"
  BY <1>1
<1>3. TypeOK'
  BY <1>1, <1>2 DEF TypeOK, InFlight, Failed, Answered
<1>4. OneRowPerKey' /\ OpenInsertsAreAlone' /\ OpenInsertsAreNew'
  BY <1>1, <1>2
     DEF OneRowPerKey, OpenInsertsAreAlone, OpenInsertsAreNew, RowsWithKey,
         SameKey
<1>5. StoredMeansCommitted' /\ JobsFollowRows' /\ ConflictIsReal'
  BY <1>1, <1>2
     DEF StoredMeansCommitted, HasStoredRow, JobsFollowRows, RowOf, TableOf,
         ConflictIsReal, RowsWithKey
<1> QED
  BY <1>3, <1>4, <1>5

(* The invariant is inductive. *)
LEMMA CreationInvIsInductive == CreationInv /\ [Next]_vars => CreationInv'
<1> SUFFICES ASSUME CreationInv, [Next]_vars
             PROVE  CreationInv'
  OBVIOUS
<1>1. ASSUME NEW r \in Requests, Serve(r)
      PROVE  CreationInv'
  BY <1>1, LookUpKeepsInv, InsertKeepsInv, CommitKeepsInv, EnqueueKeepsInv,
     AnswerKeepsInv DEF Serve
<1>2. ASSUME NEW r \in Requests, EnqueueFails(r) \/ Resend(r)
      PROVE  CreationInv'
  BY <1>2, FailuresKeepInv
<1>3. ASSUME NEW served \in SUBSET Requests, Crash(served)
      PROVE  CreationInv'
  BY <1>3, CrashKeepsInv
<1>4. CASE UNCHANGED vars
  BY <1>4 DEF vars, CreationInv, TypeOK, OneRowPerKey, OpenInsertsAreAlone,
              OpenInsertsAreNew, SameKey, RowsWithKey, StoredMeansCommitted,
              RowOf, TableOf, JobsFollowRows, ConflictIsReal
<1> QED
  BY <1>1, <1>2, <1>3, <1>4 DEF Next

(* The invariant of the creation protocol holds in every reachable state,  *)
(* for any requests, keys, bodies and failures (create_or_get_research_task *)
(* and its siblings). *)
THEOREM CreationInvariant == Spec => []CreationInv
<1> QED
  BY CreationInvInitially, CreationInvIsInductive, PTL DEF Spec

----------------------------------------------------------------------------
(* Types are kept: a request has a row exactly when its stage says so. *)
THEOREM TypeCorrect == Spec => []TypeOK
<1>1. CreationInv => TypeOK
  BY DEF CreationInv
<1> QED
  BY <1>1, CreationInvariant, PTL

(* A key names one row, however many clients race for it and fail         *)
(* (uq_research_tasks_idempotency_key, uq_monitors_idempotency_key). *)
THEOREM KeyNamesOneRow == Spec => []OneRowPerKey
<1>1. CreationInv => OneRowPerKey
  BY DEF CreationInv
<1> QED
  BY <1>1, CreationInvariant, PTL

(* Two accepted requests with one key were given one row, and asked for    *)
(* what is stored in it (_reuse_or_conflict). *)
THEOREM AcceptedRequestsAgree == Spec => []SameKeySameRow
<1>1. ASSUME CreationInv
      PROVE  SameKeySameRow
  <2> USE <1>1 DEF CreationInv
  <2>1. \A q \in Requests : pc[q] = "accepted" => RowOf(q, row[q]) \in rows
    BY DEF StoredMeansCommitted, HasStoredRow
  <2>2. ASSUME NEW q \in Requests, NEW r \in Requests,
               pc[q] = "accepted", pc[r] = "accepted", SameKey(q, r)
        PROVE  row[q] = row[r] /\ BodyOf[q] = BodyOf[r]
    <3>1. RowOf(q, row[q]) = RowOf(r, row[r])
      BY <2>1, <2>2 DEF OneRowPerKey, SameKey, RowOf
    <3> QED
      BY <3>1 DEF RowOf
  <2> QED
    BY <2>1, <2>2 DEF SameKeySameRow
<1> QED
  BY <1>1, CreationInvariant, PTL

(* A 409 always has a different request behind it (_reuse_or_conflict). *)
THEOREM ConflictsAreReal == Spec => []ConflictIsReal
<1>1. CreationInv => ConflictIsReal
  BY DEF CreationInv
<1> QED
  BY <1>1, CreationInvariant, PTL

(* No job is handed to Redis before its task is committed, and a 202 means *)
(* that one was (create_research and create_findall: commit, then enqueue). *)
THEOREM JobsComeAfterCommits == Spec => []JobsAreOfStoredTasks
<1>1. CreationInv => JobsAreOfStoredTasks
  BY DEF CreationInv, JobsFollowRows, JobsAreOfStoredTasks
<1> QED
  BY <1>1, CreationInvariant, PTL
=============================================================================
