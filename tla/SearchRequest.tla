---------------------------- MODULE SearchRequest ----------------------------
(***************************************************************************)
(* POST /v1/search and GET /ready from end to end (main.py, enrich.py):    *)
(* the providers are searched, then the first results are enriched one by  *)
(* one.  The page of a result is fetched, the model is asked for an        *)
(* excerpt of it, and the excerpt replaces the snippet of the provider if  *)
(* it is found in that page.                                               *)
(*                                                                         *)
(* A record stands for its url: Records \subseteq Urls.  The text of a     *)
(* page is named by the url the page was read from.                        *)
(***************************************************************************)
EXTENDS SearchOrchestration, ContentFetch, LLMClient

CONSTANTS MaxEnriched   \* search_enrich_max_results

ASSUME RequestAssumption ==
    /\ Records \subseteq Urls
    /\ MaxEnriched \in Nat

VARIABLES enriching,   \* an enricher is configured (get_snippet_enricher)
          serving,     \* search, enrich, fetch, complete, replied or raised
          enriched,    \* results done: their record and snippet
          degraded,    \* enrich's flag
          work         \* history: what became of each result

requestVars == <<enriching, serving, enriched, degraded, work>>

vars == <<searchVars, fetchVars, completionVars, requestVars>>

Provider == "provider"   \* the snippet the provider gave

Init ==
    /\ SearchInit
    /\ FetchInit
    /\ CompletionInit
    /\ enriching \in BOOLEAN
    /\ serving = "search"
    /\ enriched = <<>>
    /\ degraded = FALSE
    /\ work = <<>>

----------------------------------------------------------------------------
(* main.search *)

SearchStep ==
    /\ serving = "search"
    /\ SearchNext
    /\ UNCHANGED <<fetchVars, completionVars, requestVars>>

(* The end of the orchestrator: 503, ready and results without an enricher *)
(* are replies; the ValueError of a malformed url and the defect of an     *)
(* adapter are not caught. *)
EndOfSearch ==
    /\ serving = "search"
    /\ stage \in {"results", "unavailable", "error", "defect", "ready"}
    /\ serving' = IF stage \in {"error", "defect"} THEN "raised"
                  ELSE IF stage = "results" /\ enriching THEN "enrich"
                  ELSE "replied"
    /\ UNCHANGED <<searchVars, fetchVars, completionVars, enriching, enriched,
                   degraded, work>>

----------------------------------------------------------------------------
(* SnippetEnricher.enrich and _enrich_one *)

Turn == Len(enriched) + 1

(* The result in turn is done: its snippet, and whether it failed. *)
Finish(snippet, what) ==
    /\ enriched' = Append(enriched, [record |-> merged[Turn], snippet |-> snippet])
    /\ degraded' = (degraded \/ what = "failed")
    /\ work' = Append(work, [what |-> what, page |-> current,
                             from |-> IF requests = <<>> THEN NoUrl
                                      ELSE requests[1].url])
    /\ serving' = "enrich"
    /\ UNCHANGED <<searchVars, enriching>>

PassResult ==
    /\ serving = "enrich"
    /\ MaxEnriched < Turn /\ Turn =< Len(merged)
    /\ Finish(Provider, "passed")
    /\ UNCHANGED <<fetchVars, completionVars>>

FetchResult ==
    /\ serving = "enrich"
    /\ Turn =< MaxEnriched /\ Turn =< Len(merged)
    /\ BeginFetch(merged[Turn])
    /\ serving' = "fetch"
    /\ UNCHANGED <<searchVars, completionVars, enriching, enriched, degraded, work>>

FetchStep ==
    /\ serving = "fetch"
    /\ FetchNext
    /\ UNCHANGED <<searchVars, completionVars, requestVars>>

PageUnavailable ==
    /\ serving = "fetch"
    /\ fetch = "unavailable"
    /\ Finish(Provider, "failed")
    /\ ForgetFetch
    /\ UNCHANGED completionVars

AskModel ==
    /\ serving = "fetch"
    /\ fetch = "page"
    /\ BeginCompletion(FALSE, TRUE)
    /\ serving' = "complete"
    /\ UNCHANGED <<searchVars, fetchVars, enriching, enriched, degraded, work>>

CompletionStep ==
    /\ serving = "complete"
    /\ CompletionNext
    /\ UNCHANGED <<searchVars, fetchVars, requestVars>>

ModelUnavailable ==
    /\ serving = "complete"
    /\ completion = "unavailable"
    /\ Finish(Provider, "failed")
    /\ ForgetFetch
    /\ ForgetCompletion

(* _is_grounded: the excerpt is a long enough piece of the page that was   *)
(* fetched for this result. *)
Grounded_InAnyPage(excerpt) == excerpt \in Urls

Grounded(excerpt) == excerpt = current

(* The excerpt is a piece of some page, or of none ("other"): the model    *)
(* may quote what it was not shown, paraphrase, or answer too little. *)
UseExcerpt ==
    /\ serving = "complete"
    /\ completion = "answered"
    /\ \E excerpt \in Urls \cup {"other"} :
          \/ /\ Grounded(excerpt)
             /\ Finish(excerpt, "grounded")
          \/ /\ ~ Grounded(excerpt)
             /\ Finish(Provider, "kept")
    /\ ForgetFetch
    /\ ForgetCompletion

(* An exception that neither _enrich_one nor main.search catches. *)
EnrichmentRaises ==
    /\ \/ serving = "fetch" /\ fetch = "defect"
       \/ serving = "complete" /\ completion = "broken"
    /\ serving' = "raised"
    /\ UNCHANGED <<searchVars, fetchVars, completionVars, enriching, enriched,
                   degraded, work>>

EndOfEnrichment ==
    /\ serving = "enrich"
    /\ Turn > Len(merged)
    /\ serving' = "replied"
    /\ UNCHANGED <<searchVars, fetchVars, completionVars, enriching, enriched,
                   degraded, work>>

(* The response is sent, or the exception becomes a 500. *)
Over == serving \in {"replied", "raised"} /\ UNCHANGED vars

Next ==
    \/ SearchStep
    \/ EndOfSearch
    \/ PassResult
    \/ FetchResult
    \/ FetchStep
    \/ PageUnavailable
    \/ AskModel
    \/ CompletionStep
    \/ ModelUnavailable
    \/ UseExcerpt
    \/ EnrichmentRaises
    \/ EndOfEnrichment
    \/ Over

Spec == Init /\ [][Next]_vars

----------------------------------------------------------------------------
(* Properties *)

(* What the client is told fits what happened: 503 when every adapter that *)
(* was asked, and there is none left, has failed; a warning exactly when   *)
(* some have; the same for the results whose enrichment failed; and no     *)
(* reply at all only after an adapter returned a malformed url or raised   *)
(* something else, or after a defect of the fetch or of the model's answer *)
(* (main.search, SearchOrchestrator.run, enrich). *)
DegradationIsTold ==
    LET failed == {i \in DOMAIN asked : asked[i].failed} IN
    /\ serving = "replied" =>
          /\ stage = "unavailable" <=> failed = 1 .. request.adapters
          /\ stage = "results" => (warned <=> failed # {})
          /\ degraded <=> \E i \in DOMAIN work : work[i].what = "failed"
    /\ serving = "raised" =>
          \/ \E i \in DOMAIN asked, r \in Records :
                r \in Range(asked[i].list) /\ Quality[r] = "malformed"
          \/ stage = "defect" \/ fetch = "defect" \/ completion = "broken"

(* Enrichment keeps the results and their order, and a snippet that is not *)
(* the provider's is a piece of the page this result led to, fetched for   *)
(* it, whatever the model answers (enrich.py "nothing is fabricated"). *)
SnippetsAreGrounded ==
    /\ \A i \in DOMAIN enriched :
          /\ enriched[i].record = merged[i]
          /\ enriched[i].snippet # Provider =>
                /\ i =< MaxEnriched
                /\ work[i].what = "grounded"
                /\ enriched[i].snippet = work[i].page
                /\ enriched[i].record = work[i].from
    /\ serving = "replied" /\ stage = "results" /\ enriching =>
          Len(enriched) = Len(merged)
=============================================================================
