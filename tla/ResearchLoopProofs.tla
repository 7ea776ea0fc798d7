-------------------------- MODULE ResearchLoopProofs --------------------------
(***************************************************************************)
(* Proofs about ResearchLoop, for every finite set of urls, every budget   *)
(* and whatever the model, the searches and the fetches answer: budgets    *)
(* are kept, no url is fetched again under a known spelling, a standing    *)
(* cancellation request stops the attempt at the next boundary and a       *)
(* completion is honest.                                                   *)
(***************************************************************************)
EXTENDS ResearchLoop, TLAPS

(* The worker is about to do a stage, after a cancellation check or not. *)
Before(stage) == pc = stage \/ (pc = "check" /\ next = stage)

FetchRecord == [url : Urls, page : Spellings \cup {NoPage}]

(* Type correctness, with what each stage finds. *)
LoopTypeInv ==
    /\ TypeOK
    /\ fetched \in Seq(FetchRecord)
    /\ Before("iterate") => queries > 0 /\ iteration < MaxIterations
    /\ Before("fetch") => results # <<>> /\ remaining > 0

LEMMA LeastIsLeast ==
    ASSUME NEW a \in Nat, NEW b \in Nat, NEW c \in Nat
    PROVE  /\ Least({a, b}) \in Nat
           /\ Least({a, b, c}) \in Nat
           /\ Least({a, b, c}) =< b
<1>1. \A S : (\E x \in S : \A y \in S : x =< y) =>
                 Least(S) \in S /\ \A y \in S : Least(S) =< y
  BY DEF Least
<1>2. \E x \in {a, b} : \A y \in {a, b} : x =< y
  OBVIOUS
<1>3. \E x \in {a, b, c} : \A y \in {a, b, c} : x =< y
  OBVIOUS
<1>4. Least({a, b}) \in {a, b}
  BY <1>1, <1>2
<1>5. Least({a, b, c}) \in {a, b, c} /\ Least({a, b, c}) =< b
  BY <1>1, <1>3
<1> QED
  BY <1>4, <1>5

LEMMA SynthesisFitsBudget ==
    ASSUME TypeOK
    PROVE  SynthesisTokens \in Nat /\ SynthesisTokens =< tokens
<1>1. PlannerTokens * 4 \in Nat /\ tokens \in Nat /\ SynthesisCap \in Nat
  BY LoopAssumption DEF TypeOK
<1> QED
  BY <1>1, LeastIsLeast DEF SynthesisTokens

(* A search answers with a sequence of urls. *)
LEMMA AnswersAreUrls == Answers \subseteq Seq(Urls)
<1> SUFFICES ASSUME NEW s \in Answers PROVE s \in Seq(Urls)
  OBVIOUS
<1>1. PICK n \in 0 .. Least({remaining, Cardinality(Urls)}) : s \in [1 .. n -> Urls]
  BY DEF Answers
<1>2. n \in Nat
  BY <1>1
<1> QED
  BY <1>1, <1>2

LEMMA LoopTypeInitially == Init => LoopTypeInv
<1> SUFFICES ASSUME Init PROVE LoopTypeInv
  OBVIOUS
<1>1. TypeOK
  <2>1. evidence \subseteq Spellings /\ results \in Seq(Urls)
    BY LoopAssumption DEF Init
  <2>2. fetched = <<>>
    BY DEF Init
  <2>3. \A i \in DOMAIN fetched : FALSE
    BY <2>2
  <2>4. /\ iteration \in 0 .. MaxIterations
        /\ remaining \in 0 .. MaxSources
        /\ tokens \in 0 .. MaxTokens
        /\ seen \subseteq Spellings
    BY LoopAssumption DEF Init
  <2> QED
    BY <2>1, <2>3, <2>4 DEF Init, TypeOK, Stage, Outcome
<1> QED
  BY <1>1 DEF Init, LoopTypeInv, Before

(* Every step keeps the types and what the stages rely on. *)
LEMMA StepKeepsTypes ==
    ASSUME LoopTypeInv, [Next]_vars
    PROVE  LoopTypeInv'
<1> USE LoopAssumption
        DEF LoopTypeInv, TypeOK, Before, Stage, Outcome, Goto, CheckThen,
            FinishAs, Calls, setupVars, searchVars, sourceVars, tokenVars,
            outerVars
<1>1. CASE CancelAtBoundary
  BY <1>1 DEF CancelAtBoundary
<1>2. CASE Start
  BY <1>2 DEF Start
<1>3. CASE Plan
  BY <1>3 DEF Plan, AskModel, ModelBudgetExhausted
<1>4. CASE Planned
  BY <1>4 DEF Planned
<1>5. CASE LoopHead
  <2>1. CASE Goto("after")
    <3>1. incomplete' \in BOOLEAN /\ degraded' \in BOOLEAN
      BY <1>5, <2>1 DEF LoopHead
    <3>2. UNCHANGED <<setupVars, queries, iteration, results, warned,
                      sourceVars, tokenVars, verified, outerVars, callsAfter>>
      BY <1>5 DEF LoopHead
    <3> QED
      BY <2>1, <3>1, <3>2
  <2>2. CASE CheckThen("iterate") /\ queries > 0 /\ iteration < MaxIterations
    BY <1>5, <2>2 DEF LoopHead
  <2> QED
    BY <1>5, <2>1, <2>2 DEF LoopHead, WhenLate
<1>6. CASE Iterate
  BY <1>6 DEF Iterate
<1>7. CASE Search
  BY <1>7, AnswersAreUrls DEF Search
<1>8. CASE Record
  BY <1>8 DEF Record, Incomplete
<1>9. CASE NextResult
  <2>1. CASE results # <<>> /\ Goto("results")
    <3>1. results' \in Seq(Urls)
      BY <1>9, <2>1 DEF NextResult
    <3>2. TypeOK'
      BY <1>9, <2>1, <3>1 DEF NextResult
    <3> QED
      BY <1>9, <2>1, <3>2 DEF NextResult
  <2>2. CASE results # <<>> /\ CheckThen("fetch")
    BY <1>9, <2>2 DEF NextResult
  <2>3. CASE results = <<>>
    BY <1>9, <2>3 DEF NextResult
  <2> QED
    BY <1>9, <2>1, <2>2, <2>3 DEF NextResult
<1>10. CASE Fetch
  BY <1>10 DEF Fetch, SeenAfter, SourcesAfter, FetchRecord
<1>11. CASE Evaluate
  <2>1. CASE ModelBudgetExhausted
    BY <1>11, <2>1 DEF Evaluate, ModelBudgetExhausted
  <2>2. CASE AskModel
    <3>1. callsAfter' \in Nat
      <4> HIDE LoopAssumption
      <4>1. callsAfter \in Nat /\ Calls
        BY <2>2 DEF AskModel
      <4> QED
        BY <4>1
    <3>2. queries' \in Nat
      BY <1>11, <2>2 DEF Evaluate, AskModel, ModelBudgetExhausted
    <3>3. spent' \in Nat /\ tokens' \in 0 .. MaxTokens
      BY <2>2 DEF AskModel
    <3>4. \/ FinishAs("partial")
          \/ CheckThen("loop")
      BY <1>11, <2>2 DEF Evaluate, AskModel, ModelBudgetExhausted
    <3> QED
      BY <1>11, <3>1, <3>2, <3>3, <3>4 DEF Evaluate
  <2> QED
    BY <1>11, <2>1, <2>2 DEF Evaluate
<1>12. CASE AfterLoop
  BY <1>12 DEF AfterLoop
<1>13. CASE Synthesize
  BY <1>13, SynthesisFitsBudget DEF Synthesize
<1>14. CASE Finish
  BY <1>14 DEF Finish
<1>15. CASE Fail
  BY <1>15 DEF Fail
<1>16. CASE RequestCancel \/ CancelledByAnotherJob \/ DeadlinePasses
  <2>1. CASE RequestCancel
    BY <2>1 DEF RequestCancel
  <2>2. CASE DeadlinePasses
    BY <2>2 DEF DeadlinePasses
  <2>3. CASE CancelledByAnotherJob
    BY <2>3 DEF CancelledByAnotherJob
  <2> QED
    BY <1>16, <2>1, <2>2, <2>3
<1>17. CASE UNCHANGED vars
  BY <1>17 DEF vars
<1> QED
  BY <1>1, <1>2, <1>3, <1>4, <1>5, <1>6, <1>7, <1>8, <1>9, <1>10, <1>11, <1>12,
     <1>13, <1>14, <1>15, <1>16, <1>17 DEF Next, WorkerStep

THEOREM LoopTypeInvariant == Spec => []LoopTypeInv
BY LoopTypeInitially, StepKeepsTypes, PTL DEF Spec

(* Type correctness of the loop. *)
THEOREM LoopTypeCorrect == Spec => []TypeOK
BY LoopTypeInvariant, PTL DEF LoopTypeInv

----------------------------------------------------------------------------
(* Budgets.  Every fetch is paid for with a source; what is spent and what *)
(* is left of the tokens stay within the budget until the synthesis, which *)
(* spends what is left without counting it and is the last call.           *)

BudgetInv ==
    /\ Len(fetched) + remaining = MaxSources
    /\ \/ spent + tokens =< MaxTokens
       \/ spent =< MaxTokens /\ (Before("finish") \/ pc = "done")

LEMMA FetchAppends ==
    ASSUME LoopTypeInv, Fetch
    PROVE  \E page \in Spellings \cup {NoPage} :
              /\ Len(fetched') = Len(fetched) + 1
              /\ \A i \in 1 .. Len(fetched) : fetched'[i] = fetched[i]
              /\ fetched'[Len(fetched) + 1] = [url |-> Head(results), page |-> page]
              /\ seen' = seen \cup ({page} \ {NoPage})
              /\ evidence' = evidence \cup ({page} \ {NoPage})
<1>1. PICK page \in Spellings \cup {NoPage} :
        /\ fetched' = Append(fetched, [url |-> Head(results), page |-> page])
        /\ seen' = seen \cup ({page} \ {NoPage})
        /\ evidence' = evidence \cup ({page} \ {NoPage})
  BY DEF Fetch, SeenAfter
<1>2. Head(results) \in Urls
  BY DEF Fetch, LoopTypeInv, TypeOK, Before
<1> DEFINE record == [url |-> Head(results), page |-> page]
<1>3. record \in FetchRecord /\ fetched \in Seq(FetchRecord)
  BY <1>1, <1>2, LoopAssumption DEF FetchRecord, LoopTypeInv
<1> HIDE DEF record
<1>4. /\ Len(Append(fetched, record)) = Len(fetched) + 1
      /\ \A i \in 1 .. Len(fetched) : Append(fetched, record)[i] = fetched[i]
      /\ Append(fetched, record)[Len(fetched) + 1] = record
  BY <1>3
<1> QED
  BY <1>1, <1>4 DEF record

LEMMA StepKeepsBudgets ==
    ASSUME LoopTypeInv, BudgetInv, [Next]_vars
    PROVE  BudgetInv'
<1> USE DEF BudgetInv, Before, Goto, CheckThen, FinishAs, sourceVars, tokenVars
<1>0. /\ spent \in Nat /\ tokens \in Nat /\ remaining \in Nat
      /\ Len(fetched) \in Nat /\ MaxTokens \in Nat /\ MaxSources \in Nat
  BY LoopAssumption DEF LoopTypeInv, TypeOK
<1>1. CASE Plan \/ Evaluate
  BY <1>0, <1>1, LoopAssumption DEF Plan, Evaluate, AskModel, ModelBudgetExhausted
<1>2. CASE Fetch
  <2>1. Len(fetched') = Len(fetched) + 1
    BY <1>2, FetchAppends
  <2>2. remaining' = remaining - 1
    BY <1>2 DEF Fetch, SourcesAfter
  <2> QED
    BY <1>0, <1>2, <2>1, <2>2 DEF Fetch
<1>3. CASE Synthesize
  <2>1. /\ spent' = spent + SynthesisTokens \/ spent' = spent
        /\ UNCHANGED <<sourceVars, tokens>>
        /\ Before("finish")' \/ pc' = "done"
    BY <1>3 DEF Synthesize
  <2>2. spent + tokens =< MaxTokens
    BY <1>3 DEF Synthesize
  <2>3. SynthesisTokens \in Nat /\ SynthesisTokens =< tokens
    BY SynthesisFitsBudget DEF LoopTypeInv
  <2> QED
    BY <1>0, <2>1, <2>2, <2>3
<1>4. CASE NextResult \/ Search
  BY <1>4 DEF NextResult, Search
<1>5. CASE Start \/ Planned \/ LoopHead \/ Iterate \/ Record \/ AfterLoop
  BY <1>5 DEF Start, Planned, LoopHead, WhenLate, Iterate, Record, AfterLoop
<1>6. CASE CancelAtBoundary \/ Finish \/ Fail
  BY <1>6 DEF CancelAtBoundary, Finish, Fail
<1>7. CASE RequestCancel \/ CancelledByAnotherJob \/ DeadlinePasses
            \/ UNCHANGED vars
  BY <1>7 DEF RequestCancel, CancelledByAnotherJob, DeadlinePasses, vars
<1> QED
  BY <1>1, <1>2, <1>3, <1>4, <1>5, <1>6, <1>7 DEF Next, WorkerStep

(* No attempt exceeds its sources, iterations or tokens, whatever is       *)
(* answered: the synthesis after the loop is within the token budget too   *)
(* (run_research_task, _verify_and_finish). *)
THEOREM BudgetsHold == Spec => []BudgetsAreKept
<1>1. Init => BudgetInv
  BY LoopAssumption DEF Init, BudgetInv
<1>2. LoopTypeInv /\ BudgetInv /\ [Next]_vars => BudgetInv'
  BY StepKeepsBudgets
<1>3. LoopTypeInv /\ BudgetInv => BudgetsAreKept
  <2> SUFFICES ASSUME LoopTypeInv, BudgetInv PROVE BudgetsAreKept
    OBVIOUS
  <2>1. /\ spent \in Nat /\ tokens \in Nat /\ remaining \in Nat
        /\ Len(fetched) \in Nat /\ MaxTokens \in Nat /\ MaxSources \in Nat
        /\ iteration =< MaxIterations
    BY LoopAssumption DEF LoopTypeInv, TypeOK
  <2> QED
    BY <2>1 DEF BudgetInv, BudgetsAreKept
<1> QED
  BY <1>1, <1>2, <1>3, LoopTypeInvariant, PTL DEF Spec

----------------------------------------------------------------------------
(* Known urls.  What was fetched, or redirected to, is seen; a url about   *)
(* to be fetched was not seen when it was chosen.                          *)

SeenInv ==
    /\ \A i \in 1 .. Len(fetched) : /\ fetched[i].url \in seen
                                    /\ fetched[i].page \in seen \cup {NoPage}
    /\ Before("fetch") =>
          /\ Head(results) \in seen
          /\ \A i \in 1 .. Len(fetched) :
                Head(results) \notin {fetched[i].url, fetched[i].page}
    /\ \A i, j \in 1 .. Len(fetched) :
          i < j => fetched[j].url \notin {fetched[i].url, fetched[i].page}

LEMMA StepKeepsSeen ==
    ASSUME LoopTypeInv, SeenInv, [Next]_vars
    PROVE  SeenInv'
<1> USE DEF SeenInv, Before, Goto, CheckThen, FinishAs, sourceVars, searchVars
<1>1. CASE Fetch
  <2>1. PICK page \in Spellings \cup {NoPage} :
          /\ Len(fetched') = Len(fetched) + 1
          /\ \A i \in 1 .. Len(fetched) : fetched'[i] = fetched[i]
          /\ fetched'[Len(fetched) + 1] = [url |-> Head(results), page |-> page]
          /\ seen' = seen \cup ({page} \ {NoPage})
    BY <1>1, FetchAppends
  <2>2. Len(fetched) \in Nat
    BY DEF LoopTypeInv
  <2>3. \A i \in 1 .. Len(fetched') :
          i \in 1 .. Len(fetched) \/ i = Len(fetched) + 1
    BY <2>1, <2>2
  <2>4. /\ fetched'[Len(fetched) + 1].url = Head(results)
        /\ fetched'[Len(fetched) + 1].page = page
    BY <2>1
  <2>5. \A i \in 1 .. Len(fetched') : /\ fetched'[i].url \in seen'
                                      /\ fetched'[i].page \in seen' \cup {NoPage}
    BY <1>1, <2>1, <2>3, <2>4 DEF Fetch
  <2>6. ASSUME NEW i \in 1 .. Len(fetched'), NEW j \in 1 .. Len(fetched'), i < j
        PROVE  fetched'[j].url \notin {fetched'[i].url, fetched'[i].page}
    <3>1. i \in 1 .. Len(fetched)
      BY <2>1, <2>2, <2>6
    <3>2. CASE j \in 1 .. Len(fetched)
      BY <2>1, <2>6, <3>1, <3>2
    <3>3. CASE j = Len(fetched) + 1
      BY <1>1, <2>1, <2>4, <3>1, <3>3 DEF Fetch
    <3> QED
      BY <2>3, <3>2, <3>3
  <2> QED
    BY <1>1, <2>5, <2>6 DEF Fetch
<1>2. CASE NextResult
  <2>1. UNCHANGED fetched /\ seen \subseteq seen'
    BY <1>2 DEF NextResult
  <2>2. Before("fetch")' =>
          /\ Head(results') \in seen' /\ Head(results') \notin seen
          /\ Head(results') \in Urls
    BY <1>2 DEF NextResult, LoopTypeInv, TypeOK
  <2> QED
    BY <2>1, <2>2, LoopAssumption
<1>3. CASE Search \/ Plan \/ Evaluate \/ Synthesize
  BY <1>3 DEF Search, Plan, Evaluate, Synthesize, AskModel, ModelBudgetExhausted
<1>4. CASE Start \/ Planned \/ LoopHead \/ Iterate \/ Record \/ AfterLoop
  BY <1>4 DEF Start, Planned, LoopHead, WhenLate, Iterate, Record, AfterLoop
<1>5. CASE CancelAtBoundary \/ Finish \/ Fail
  BY <1>5 DEF CancelAtBoundary, Finish, Fail
<1>6. CASE RequestCancel \/ CancelledByAnotherJob \/ DeadlinePasses
            \/ UNCHANGED vars
  BY <1>6 DEF RequestCancel, CancelledByAnotherJob, DeadlinePasses, vars
<1> QED
  BY <1>1, <1>2, <1>3, <1>4, <1>5, <1>6 DEF Next, WorkerStep

(* No attempt fetches a url twice, or one an earlier fetch ended at, as    *)
(* long as both are spelled alike, wherever redirects lead and however     *)
(* sites spell them (seen_urls in run_research_task). *)
THEOREM KnownUrlsAreNotFetched == Spec => []NoKnownUrlIsFetchedAgain
<1>1. Init => SeenInv
  BY DEF Init, SeenInv, Before
<1>2. LoopTypeInv /\ SeenInv /\ [Next]_vars => SeenInv'
  BY StepKeepsSeen
<1>3. LoopTypeInv /\ SeenInv => NoKnownUrlIsFetchedAgain
  BY DEF LoopTypeInv, SeenInv, NoKnownUrlIsFetchedAgain
<1> QED
  BY <1>1, <1>2, <1>3, LoopTypeInvariant, PTL DEF Spec

----------------------------------------------------------------------------
(* Cancellation.  A call that begins after the request is followed by a    *)
(* check, which ends the attempt while the request stands.                 *)

CancelInv ==
    /\ cancel = "none" => callsAfter = 0
    /\ cancel = "requested" =>
          \/ callsAfter = 0
          \/ callsAfter = 1 /\ pc \in {"check", "done"}

LEMMA StepKeepsCancelInv ==
    ASSUME LoopTypeInv, CancelInv, [Next]_vars
    PROVE  CancelInv'
<1> USE DEF CancelInv, Goto, CheckThen, FinishAs, outerVars
<1>1. CASE Plan \/ Evaluate \/ Search \/ Fetch \/ Synthesize
  <2>1. /\ pc \notin {"check", "done"} /\ cancel' = cancel
        /\ pc' \in {"check", "done"}
    BY <1>1 DEF Plan, Evaluate, Search, Fetch, Synthesize, ModelBudgetExhausted
  <2>2. Calls \/ UNCHANGED callsAfter
    BY <1>1 DEF Plan, Evaluate, Search, Fetch, Synthesize, AskModel,
                ModelBudgetExhausted
  <2> QED
    BY <2>1, <2>2 DEF Calls
<1>2. CASE CancelAtBoundary
  BY <1>2 DEF CancelAtBoundary, CancelSeen
<1>3. CASE Start \/ Planned \/ LoopHead \/ Iterate \/ Record \/ AfterLoop
           \/ NextResult
  BY <1>3 DEF Start, Planned, LoopHead, WhenLate, Iterate, Record, AfterLoop,
              NextResult
<1>4. CASE Finish \/ Fail
  BY <1>4 DEF Finish, Fail
<1>5. CASE RequestCancel \/ CancelledByAnotherJob \/ DeadlinePasses
            \/ UNCHANGED vars
  BY <1>5 DEF RequestCancel, CancelledByAnotherJob, DeadlinePasses, vars
<1> QED
  BY <1>1, <1>2, <1>3, <1>4, <1>5 DEF Next, WorkerStep

(* At most one more call leaves the process while a cancellation is        *)
(* requested; nothing is said of a task that another job has cancelled     *)
(* (_cancel_at_boundary, _is_cancel_requested). *)
THEOREM CancellationStops == Spec => []CancelStopsAtTheNextBoundary
<1>1. Init => CancelInv
  BY DEF Init, CancelInv
<1>2. LoopTypeInv /\ CancelInv /\ [Next]_vars => CancelInv'
  BY StepKeepsCancelInv
<1>3. CancelInv => CancelStopsAtTheNextBoundary
  BY DEF CancelInv, CancelStopsAtTheNextBoundary
<1> QED
  BY <1>1, <1>2, <1>3, LoopTypeInvariant, PTL DEF Spec

----------------------------------------------------------------------------
(* Honest completions.  A degraded search or a cut loop is remembered in   *)
(* research_incomplete from the moment it is recorded, and only a complete *)
(* loop with a model reaches the synthesis.                                *)

HonestInv ==
    /\ outcome # "none" => pc = "done"
    /\ degraded /\ pc # "done" => incomplete \/ (Before("record") /\ warned)
    /\ Before("synthesize") => ~ incomplete /\ hasModel
    /\ Before("finish") => ~ incomplete /\ hasModel /\ evidence # {}
    /\ CompletionIsHonest

LEMMA StepKeepsHonesty ==
    ASSUME LoopTypeInv, HonestInv, [Next]_vars
    PROVE  HonestInv'
<1> USE DEF HonestInv, CompletionIsHonest, Before, Goto, CheckThen, FinishAs,
            setupVars, searchVars, sourceVars
<1>1. CASE Plan \/ Evaluate
  BY <1>1 DEF Plan, Evaluate, ModelBudgetExhausted
<1>2. CASE Search
  BY <1>2 DEF Search
<1>3. CASE Record
  BY <1>3 DEF Record, Incomplete
<1>4. CASE LoopHead
  BY <1>4 DEF LoopHead, WhenLate
<1>5. CASE Fetch
  BY <1>5, FetchAppends DEF Fetch
<1>6. CASE AfterLoop
  BY <1>6 DEF AfterLoop
<1>7. CASE Synthesize
  BY <1>7 DEF Synthesize
<1>8. CASE Finish
  BY <1>8 DEF Finish, LoopTypeInv, TypeOK
<1>9. CASE Start \/ Planned \/ Iterate \/ NextResult
  BY <1>9 DEF Start, Planned, Iterate, NextResult
<1>10. CASE CancelAtBoundary \/ Fail
  BY <1>10 DEF CancelAtBoundary, Fail
<1>11. CASE RequestCancel \/ CancelledByAnotherJob \/ DeadlinePasses
            \/ UNCHANGED vars
  BY <1>11 DEF RequestCancel, CancelledByAnotherJob, DeadlinePasses, vars
<1> QED
  BY <1>1, <1>2, <1>3, <1>4, <1>5, <1>6, <1>7, <1>8, <1>9, <1>10, <1>11
     DEF Next, WorkerStep

(* A completed task had a model, a full search and verified results over   *)
(* retained evidence (research_incomplete, _verify_and_finish). *)
THEOREM CompletionsAreHonest == Spec => []CompletionIsHonest
<1>1. Init => HonestInv
  BY DEF Init, HonestInv, CompletionIsHonest, Before
<1>2. LoopTypeInv /\ HonestInv /\ [Next]_vars => HonestInv'
  BY StepKeepsHonesty
<1> QED
  BY <1>1, <1>2, LoopTypeInvariant, PTL DEF Spec, HonestInv
=============================================================================
