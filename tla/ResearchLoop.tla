---------------------------- MODULE ResearchLoop ----------------------------
(***************************************************************************)
(* One attempt of a task inside run_research_task (worker.py): planning,   *)
(* the search / fetch / evaluate loop with its source, iteration, token    *)
(* and time budgets, and the synthesis that ends it, while a client may    *)
(* request a cancellation and the deadline may pass at any moment.         *)
(*                                                                         *)
(* What the model, the searches and the fetches answer is arbitrary.  A    *)
(* result carries its url as HttpUrl spells it; a fetch that was           *)
(* redirected ends at a url as the site spells it, which HttpUrl may       *)
(* spell otherwise.  The code compares the two as they are.                *)
(* Whether the attempt survives its worker, and how its transactions       *)
(* interleave with others', is the subject of TaskLifecycle.               *)
(***************************************************************************)
EXTENDS Naturals, Sequences, FiniteSets

CONSTANTS Urls,           \* urls a search may return, as HttpUrl spells them
          Spellings,      \* urls as anybody spells them
          NoPage,         \* the page of a fetch that failed
          MaxSources,     \* budget_max_sources
          MaxIterations,  \* research_max_iterations
          MaxTokens,      \* research_max_model_tokens
          PlannerTokens,  \* research_max_planner_tokens
          SynthesisCap    \* 2048

ASSUME LoopAssumption ==
    /\ IsFiniteSet(Urls)
    /\ Urls \subseteq Spellings
    /\ NoPage \notin Spellings
    /\ MaxSources \in Nat \ {0}
    /\ MaxIterations \in Nat \ {0}
    /\ MaxTokens \in Nat
    /\ PlannerTokens \in Nat \ {0}
    /\ SynthesisCap \in Nat \ {0}

VARIABLES pc,          \* the stage the worker is about to do
          next,        \* the stage after a cancellation check
          hasModel,    \* llm is not None
          planning,    \* research_planning, or a FindAll task
          queries,     \* number of queries that wait
          iteration,   \* iterations begun
          results,     \* results of the last search still to look at
          warned,      \* the last search had warnings
          incomplete,  \* research_incomplete
          degraded,    \* a search of the attempt had warnings, or the
                       \*   deadline left queries unasked
          remaining,   \* sources that may still be fetched
          seen,        \* seen_urls
          tokens,      \* model_tokens_remaining
          spent,       \* output tokens asked of the model so far
          fetched,     \* fetches of this attempt, as [url, page]
          evidence,    \* pages retained for the task
          verified,    \* claims or candidates the last synthesis verified
          late,        \* the elapsed-time budget is used up
          cancel,      \* "none", "requested": the status is cancel_requested,
                       \*   "cancelled": another job of the task made it so
          callsAfter,  \* model, search and fetch calls begun after a request
          outcome      \* "none", the terminal status, or "left" when the
                       \*   task was no longer running at the last lock

vars == <<pc, next, hasModel, planning, queries, iteration, results, warned,
          incomplete, degraded, remaining, seen, tokens, spent, fetched, evidence,
          verified, late, cancel, callsAfter, outcome>>

setupVars  == <<hasModel, planning>>
searchVars == <<results, warned, incomplete, degraded>>
sourceVars == <<remaining, seen, fetched, evidence>>
tokenVars  == <<tokens, spent>>
outerVars  == <<late, cancel>>

Stage == {"start", "check", "plan", "planned", "loop", "iterate", "search",
          "record", "results", "fetch", "evaluate", "after", "synthesize",
          "finish", "done"}

Outcome == {"none", "completed", "partial", "failed", "cancelled", "left"}

Least(S) == CHOOSE x \in S : \A y \in S : x =< y

(* Evidence of an earlier attempt stays with the task. *)
Init ==
    /\ pc = "start" /\ next = "done"
    /\ hasModel \in BOOLEAN /\ planning \in BOOLEAN
    /\ queries = 1 /\ iteration = 0
    /\ results = <<>> /\ warned = FALSE
    /\ incomplete = FALSE /\ degraded = FALSE
    /\ remaining = MaxSources /\ seen = {} /\ fetched = <<>>
    /\ evidence \in {{}} \cup {{url} : url \in Spellings}
    /\ tokens = MaxTokens /\ spent = 0 /\ verified = 0
    /\ late = FALSE /\ cancel = "none" /\ callsAfter = 0
    /\ outcome = "none"

----------------------------------------------------------------------------
(* Control *)

Goto(stage) == pc' = stage /\ UNCHANGED <<next, outcome>>

(* _cancel_at_boundary, then stage *)
CheckThen(stage) == pc' = "check" /\ next' = stage /\ UNCHANGED outcome

(* A call to the model, a search provider or a fetched site begins. *)
Calls == callsAfter' = callsAfter + (IF cancel = "none" THEN 0 ELSE 1)

(* _finish_partial and the last transactions of _verify_and_finish and     *)
(* _extract_findall_and_finish do nothing if the task is not running. *)
FinishAs(result) ==
    /\ pc' = "done"
    /\ outcome' = IF cancel = "none" THEN result ELSE "left"
    /\ UNCHANGED next

CancelSeen_Never == FALSE

(* _is_cancel_requested: a task that is cancelled by now is not waiting    *)
(* for it any more. *)
CancelSeen == cancel = "requested"

CancelAtBoundary ==
    /\ pc = "check"
    /\ \/ CancelSeen /\ pc' = "done" /\ outcome' = "cancelled" /\ UNCHANGED next
       \/ ~ CancelSeen /\ Goto(next)
    /\ UNCHANGED <<setupVars, queries, iteration, searchVars, sourceVars,
                   tokenVars, verified, outerVars, callsAfter>>

----------------------------------------------------------------------------
(* Planning *)

Start ==
    /\ pc = "start"
    /\ \/ planning /\ ~ hasModel /\ FinishAs("partial")
       \/ planning /\ hasModel /\ CheckThen("plan")
       \/ ~ planning /\ Goto("loop")
    /\ UNCHANGED <<setupVars, queries, iteration, searchVars, sourceVars,
                   tokenVars, verified, outerVars, callsAfter>>

(* The model is asked for PlannerTokens, if the budget has as many left. *)
AskModel ==
    /\ tokens >= PlannerTokens
    /\ tokens' = tokens - PlannerTokens
    /\ spent' = spent + PlannerTokens
    /\ Calls

ModelBudgetExhausted ==
    /\ tokens < PlannerTokens
    /\ FinishAs("partial")
    /\ UNCHANGED <<tokenVars, queries, callsAfter>>

(* plan_queries returns at most MaxIterations queries, none on any error. *)
Plan ==
    /\ pc = "plan"
    /\ \/ ModelBudgetExhausted
       \/ /\ AskModel
          /\ queries' \in 0 .. MaxIterations
          /\ CheckThen("planned")
    /\ UNCHANGED <<setupVars, iteration, searchVars, sourceVars, verified,
                   outerVars>>

Planned ==
    /\ pc = "planned"
    /\ \/ queries = 0 /\ FinishAs("partial")
       \/ queries > 0 /\ Goto("loop")
    /\ UNCHANGED <<setupVars, queries, iteration, searchVars, sourceVars,
                   tokenVars, verified, outerVars, callsAfter>>

----------------------------------------------------------------------------
(* The loop *)

(* `break` leaves the loop when the time is up. *)
WhenLate_Continue == Goto("loop")

WhenLate == Goto("after")

(* The head of the loop: the only place that looks at the clock. *)
LoopHead ==
    /\ pc = "loop"
    /\ \/ /\ queries = 0 \/ iteration >= MaxIterations
          /\ Goto("after")
          /\ UNCHANGED <<incomplete, degraded>>
       \/ /\ queries > 0 /\ iteration < MaxIterations /\ late
          /\ incomplete' = TRUE /\ degraded' = TRUE
          /\ WhenLate
       \/ /\ queries > 0 /\ iteration < MaxIterations /\ ~ late
          /\ CheckThen("iterate")
          /\ UNCHANGED <<incomplete, degraded>>
    /\ UNCHANGED <<setupVars, queries, iteration, results, warned, sourceVars,
                   tokenVars, verified, outerVars, callsAfter>>

(* Take the first query, _record_progress *)
Iterate ==
    /\ pc = "iterate"
    /\ iteration' = iteration + 1
    /\ queries' = queries - 1
    /\ Goto("search")
    /\ UNCHANGED <<setupVars, searchVars, sourceVars, tokenVars, verified,
                   outerVars, callsAfter>>

(* _search_once: at most `remaining` results, each url once; no provider   *)
(* at all is an empty result with a warning. *)
Answers ==
    {s \in UNION {[1 .. n -> Urls] : n \in 0 .. Least({remaining, Cardinality(Urls)})} :
        \A i, j \in DOMAIN s : s[i] = s[j] => i = j}

Search ==
    /\ pc = "search"
    /\ results' \in Answers
    /\ warned' \in BOOLEAN
    /\ degraded' = (degraded \/ warned')
    /\ Calls
    /\ CheckThen("record")
    /\ UNCHANGED <<setupVars, queries, iteration, incomplete, sourceVars,
                   tokenVars, verified, outerVars>>

(* _record_search_outcome *)
Incomplete_LastSearchOnly == warned

Incomplete == incomplete \/ warned

Record ==
    /\ pc = "record"
    /\ incomplete' = Incomplete
    /\ Goto("results")
    /\ UNCHANGED <<setupVars, queries, iteration, results, warned, degraded,
                   sourceVars, tokenVars, verified, outerVars, callsAfter>>

(* `for result in outcome.results`: seen urls are passed over, and all of  *)
(* them once no source remains; then the model is asked whether to go on.  *)
NextResult ==
    /\ pc = "results"
    /\ \/ /\ results # <<>>
          /\ Head(results) \in seen \/ remaining = 0
          /\ results' = Tail(results)
          /\ Goto("results")
          /\ UNCHANGED seen
       \/ /\ results # <<>>
          /\ Head(results) \notin seen /\ remaining > 0
          /\ seen' = seen \cup {Head(results)}
          /\ CheckThen("fetch")
          /\ UNCHANGED results
       \/ /\ results = <<>>
          /\ \/ remaining = 0 /\ Goto("after")
             \/ /\ remaining > 0 /\ hasModel /\ iteration < MaxIterations
                /\ CheckThen("evaluate")
             \/ /\ remaining > 0 /\ ~ (hasModel /\ iteration < MaxIterations)
                /\ Goto("loop")
          /\ UNCHANGED <<results, seen>>
    /\ UNCHANGED <<setupVars, queries, iteration, warned, incomplete, degraded,
                   remaining, fetched, evidence, tokenVars, verified, outerVars, callsAfter>>

(* _collect_evidence: a fetch uses up a source whatever it returns, and    *)
(* the url it ended at, as the site spells it, is known from then on. *)
SourcesAfter_FreeWhenUnavailable(page) ==
    IF page = NoPage THEN remaining ELSE remaining - 1

SourcesAfter(page) == remaining - 1

SeenAfter_CanonicalForgotten(page) == seen

SeenAfter(page) == seen \cup ({page} \ {NoPage})

Fetch ==
    LET url == Head(results) IN
    /\ pc = "fetch"
    /\ \E page \in Spellings \cup {NoPage} :
          /\ fetched' = Append(fetched, [url |-> url, page |-> page])
          /\ evidence' = evidence \cup ({page} \ {NoPage})
          /\ seen' = SeenAfter(page)
          /\ remaining' = SourcesAfter(page)
    /\ results' = Tail(results)
    /\ Calls
    /\ CheckThen("results")
    /\ UNCHANGED <<setupVars, queries, iteration, warned, incomplete, degraded,
                   tokenVars, verified, outerVars>>

(* evaluate_evidence: unavailable or malformed, complete (the queries are  *)
(* dropped), or at least one and at most the remaining iterations of new   *)
(* queries, of which those that wait already are not added again. *)
Evaluate ==
    /\ pc = "evaluate"
    /\ \/ ModelBudgetExhausted
       \/ /\ AskModel
          /\ \/ FinishAs("partial") /\ UNCHANGED queries
             \/ CheckThen("loop") /\ queries' = 0
             \/ /\ CheckThen("loop")
                /\ \E added \in 0 .. (MaxIterations - iteration) :
                      /\ queries + added > 0
                      /\ queries' = queries + added
    /\ UNCHANGED <<setupVars, iteration, searchVars, sourceVars, verified,
                   outerVars>>

----------------------------------------------------------------------------
(* The end of an attempt *)

AfterLoop ==
    /\ pc = "after"
    /\ \/ (incomplete \/ ~ hasModel \/ tokens < 1) /\ FinishAs("partial")
       \/ ~ incomplete /\ hasModel /\ tokens >= 1 /\ CheckThen("synthesize")
    /\ UNCHANGED <<setupVars, queries, iteration, searchVars, sourceVars,
                   tokenVars, verified, outerVars, callsAfter>>

SynthesisTokens == Least({PlannerTokens * 4, tokens, SynthesisCap})

(* synthesize_claims and extract_candidates refuse without evidence; what  *)
(* they verify cites evidence of the task. *)
Synthesize ==
    /\ pc = "synthesize"
    /\ \/ /\ evidence = {}
          /\ FinishAs("partial")
          /\ UNCHANGED <<spent, verified, callsAfter>>
       \/ /\ evidence # {}
          /\ spent' = spent + SynthesisTokens
          /\ Calls
          /\ \/ FinishAs("partial") /\ UNCHANGED verified
             \/ CheckThen("finish") /\ verified' \in 0 .. 1
    /\ UNCHANGED <<setupVars, queries, iteration, searchVars, sourceVars, tokens,
                   outerVars>>

Finish ==
    /\ pc = "finish"
    /\ FinishAs(IF verified = 0 THEN "partial" ELSE "completed")
    /\ UNCHANGED <<setupVars, queries, iteration, searchVars, sourceVars,
                   tokenVars, verified, outerVars, callsAfter>>

(* `except Exception`: whatever raises, _finish_failed ends the attempt. *)
Fail ==
    /\ pc # "done"
    /\ FinishAs("failed")
    /\ UNCHANGED <<setupVars, queries, iteration, searchVars, sourceVars,
                   tokenVars, verified, outerVars, callsAfter>>

----------------------------------------------------------------------------

(* cancel_task *)
RequestCancel ==
    /\ outcome = "none" /\ cancel = "none"
    /\ cancel' = "requested"
    /\ UNCHANGED <<pc, next, setupVars, queries, iteration, searchVars, sourceVars,
                   tokenVars, verified, late, callsAfter, outcome>>

(* The job that cancel_task enqueues goes to another free worker slot and  *)
(* finishes the cancellation of a task that is still at work. *)
CancelledByAnotherJob ==
    /\ outcome = "none" /\ cancel = "requested"
    /\ cancel' = "cancelled"
    /\ UNCHANGED <<pc, next, setupVars, queries, iteration, searchVars, sourceVars,
                   tokenVars, verified, late, callsAfter, outcome>>

DeadlinePasses ==
    /\ outcome = "none" /\ ~ late
    /\ late' = TRUE
    /\ UNCHANGED <<pc, next, setupVars, queries, iteration, searchVars, sourceVars,
                   tokenVars, verified, cancel, callsAfter, outcome>>

WorkerStep ==
    \/ CancelAtBoundary
    \/ Start \/ Plan \/ Planned
    \/ LoopHead \/ Iterate \/ Search \/ Record \/ NextResult \/ Fetch \/ Evaluate
    \/ AfterLoop \/ Synthesize \/ Finish

Next ==
    \/ WorkerStep \/ Fail
    \/ RequestCancel \/ CancelledByAnotherJob \/ DeadlinePasses

Spec == Init /\ [][Next]_vars

(* A worker that runs goes on; nothing needs to fail, clients and the clock *)
(* need not act. *)
FairSpec == Spec /\ WF_vars(WorkerStep)

----------------------------------------------------------------------------
(* Properties *)

TypeOK ==
    /\ pc \in Stage /\ next \in Stage
    /\ hasModel \in BOOLEAN /\ planning \in BOOLEAN
    /\ queries \in Nat
    /\ iteration \in 0 .. MaxIterations
    /\ results \in Seq(Urls) /\ warned \in BOOLEAN
    /\ incomplete \in BOOLEAN /\ degraded \in BOOLEAN
    /\ remaining \in 0 .. MaxSources
    /\ seen \subseteq Spellings /\ evidence \subseteq Spellings
    /\ tokens \in 0 .. MaxTokens /\ spent \in Nat
    /\ \A i \in DOMAIN fetched : /\ fetched[i].url \in Urls
                                 /\ fetched[i].page \in Spellings \cup {NoPage}
    /\ verified \in Nat /\ callsAfter \in Nat
    /\ late \in BOOLEAN /\ cancel \in {"none", "requested", "cancelled"}
    /\ outcome \in Outcome

(* No attempt fetches more sources, begins more iterations or asks the     *)
(* model for more tokens than its budgets allow, whatever the model and    *)
(* the searches answer, the synthesis after the loop included. *)
BudgetsAreKept ==
    /\ Len(fetched) =< MaxSources
    /\ iteration =< MaxIterations
    /\ spent =< MaxTokens

(* A url an attempt has fetched, or was redirected to by a fetch, is not   *)
(* fetched again under the same spelling, whichever later search returns   *)
(* it (seen_urls). *)
NoKnownUrlIsFetchedAgain ==
    \A i, j \in DOMAIN fetched :
        i < j => fetched[j].url \notin {fetched[i].url, fetched[i].page}

(* While a cancellation is requested at most one more call leaves the      *)
(* process: the checks around the model, search and fetch stages catch it  *)
(* at the next boundary (_cancel_at_boundary). *)
CancelStopsAtTheNextBoundary == cancel = "requested" => callsAfter =< 1

(* A completed task rests on a full search and on verified results that    *)
(* cite retained evidence; one degraded search anywhere in the attempt, or *)
(* a loop cut short, makes it partial at best. *)
CompletionIsHonest ==
    outcome = "completed" =>
        hasModel /\ ~ degraded /\ verified > 0 /\ evidence # {}

(* Every attempt ends, however many queries the model asks for. *)
AttemptEnds == <>(pc = "done")
=============================================================================
