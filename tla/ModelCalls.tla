------------------------------ MODULE ModelCalls ------------------------------
(***************************************************************************)
(* What an attempt of a task asks the local model, and what it makes of    *)
(* the answer: planning (planning.py), evaluation (evaluation.py), claims  *)
(* (synthesis.py) and candidates (findall.py).  A call builds a prompt,    *)
(* completes it and validates the answer, which is arbitrary; ResearchLoop *)
(* takes the results of these calls as given.                              *)
(*                                                                         *)
(* Queries and evidence are model values; "bad" is an item that is not a   *)
(* string of 1 to 2000 characters.                                         *)
(***************************************************************************)
EXTENDS PromptBudget, LLMClient, SequencesExt

CONSTANTS Evidence,       \* evidence identifiers that an answer may name
          UrlOf,          \* their canonical urls
          Queries,        \* queries, and "bad"
          QueryLists,     \* bound: lists of queries an answer may hold
          Citations,      \* bound: what an item of an answer may cite
          MaxQueries,     \* research_max_iterations
          MaxItems,       \* 50 claims, 100 candidates
          MessageBound    \* 12 000

ASSUME CallAssumption ==
    /\ DOMAIN UrlOf = Evidence
    /\ QueryLists \subseteq Seq(Queries)
    /\ MaxQueries \in Nat \ {0}
    /\ MaxItems \in Nat
    /\ MessageBound \in Nat /\ Bound =< MessageBound

Purposes == {"plan", "evaluate", "claims", "candidates"}

(* The shapes an answer may have.  prose: not exactly one JSON object, with *)
(* the queries in it that name a site; object: one of another shape.        *)
Answers ==
    [shape : {"prose", "plan"}, queries : QueryLists]
    \cup [shape : {"evaluation"}, queries : QueryLists, complete : BOOLEAN]
    \cup [shape : {"claims", "candidates"}, items : SeqOf(Citations, MaxItems + 1)]
    \cup [shape : {"object"}]

VARIABLES purpose,    \* what the call is for
          limit,      \* how many queries may be returned
          retained,   \* evidence of the task
          call,       \* prepare, serialize, complete, returned or raised
          answer,     \* history: the answer of the model
          result      \* what the call returns

callVars == <<purpose, limit, retained, call, answer, result>>

vars == <<promptVars, completionVars, callVars>>

NoAnswer == [shape |-> "none"]

(* Raw text that json refuses with another error than JSONDecodeError: a   *)
(* ValueError at an integer of over 4300 digits, a RecursionError at deep  *)
(* nesting. *)
Undecodable == [shape |-> "undecodable"]

Unavailable == [status |-> "unavailable"]

Init ==
    /\ PromptInit
    /\ CompletionInit
    /\ purpose \in Purposes
    /\ limit \in 1 .. MaxQueries
    /\ retained \in SUBSET Evidence
    /\ call = "prepare"
    /\ answer = NoAnswer
    /\ result = Unavailable

----------------------------------------------------------------------------
(* The prompt *)

(* plan_queries and evaluate_evidence.  The evidence of an evaluation is   *)
(* cut at 8000 characters before JSON escapes it and before urls and ids   *)
(* are added, so its message may exceed what the client accepts. *)
PrepareQuestion ==
    /\ call = "prepare"
    /\ purpose \in {"plan", "evaluate"}
    /\ \E fits \in (IF purpose = "plan" THEN {TRUE} ELSE BOOLEAN) :
          BeginCompletion(TRUE, fits)
    /\ call' = "complete"
    /\ UNCHANGED <<promptVars, purpose, limit, retained, answer, result>>

(* synthesize_claims and extract_candidates *)
PrepareEvidence ==
    /\ call = "prepare"
    /\ purpose \in {"claims", "candidates"}
    /\ \/ /\ retained = {}
          /\ call' = "returned"
          /\ UNCHANGED promptVars
       \/ /\ retained # {}
          /\ call' = "serialize"
          /\ BeginPrompt
    /\ UNCHANGED <<completionVars, purpose, limit, retained, answer, result>>

Serialize ==
    /\ call = "serialize"
    /\ PromptNext
    /\ UNCHANGED <<completionVars, callVars>>

EndSerialize ==
    /\ call = "serialize"
    /\ \/ /\ prompt = "ready"
          /\ BeginCompletion(TRUE, length[quota] =< MessageBound)
          /\ call' = "complete"
       \/ /\ prompt = "refused"   \* the ValueError is not caught
          /\ call' = "raised"
          /\ UNCHANGED completionVars
    /\ UNCHANGED <<promptVars, purpose, limit, retained, answer, result>>

Complete ==
    /\ call = "complete"
    /\ CompletionNext
    /\ UNCHANGED <<promptVars, callVars>>

----------------------------------------------------------------------------
(* The answer *)

FirstOf(list, n) == SubSeq(list, 1, Lesser(n, Len(list)))

(* The loops that collect queries: a repeated one is passed over, and so   *)
(* is a bad one where it does not void the answer; n of them are enough.   *)
Collected(list, n) ==
    LET queries[i \in 0 .. Len(list)] ==
            IF i = 0 THEN <<>>
            ELSE IF \/ list[i] = "bad"
                    \/ list[i] \in Range(queries[i - 1])
                    \/ Len(queries[i - 1]) = n
              THEN queries[i - 1]
            ELSE Append(queries[i - 1], list[i])
    IN  queries[Len(list)]

AllGood(list) == "bad" \notin Range(list)

(* plan_queries, _fallback_site_queries: the rest is cut off. *)
PlannedQueries_NotCut(a) == Collected(a.queries, Len(a.queries))

PlannedQueries(a) ==
    CASE a.shape = "prose" -> Collected(a.queries, limit)
      [] a.shape = "plan" /\ AllGood(FirstOf(a.queries, limit)) ->
           Collected(FirstOf(a.queries, limit), limit)
      [] OTHER -> <<>>

(* validate_evaluation: too many queries, a bad one, or an answer that is  *)
(* both or neither complete and a list of queries is refused. *)
Evaluated(a) ==
    IF \/ a.shape # "evaluation"
       \/ Len(a.queries) > limit
       \/ ~ AllGood(a.queries)
       \/ a.complete # (a.queries = <<>>)
      THEN Unavailable
    ELSE [status |-> "evaluated", complete |-> a.complete,
          queries |-> Collected(a.queries, limit)]

(* _verify_candidate, validate_candidates.  A claim may only mention urls  *)
(* of the evidence it cites. *)
Supported(c) ==
    /\ c.wellFormed
    /\ c.ids # {} /\ c.ids \subseteq retained
    /\ purpose = "claims" => c.urls \subseteq {UrlOf[e] : e \in c.ids}

Verified(a) ==
    IF a.shape # purpose \/ Len(a.items) > MaxItems THEN Unavailable
    ELSE [status |-> "verified", items |-> {c \in Range(a.items) : Supported(c)}]

Validate ==
    /\ call = "complete"
    /\ completion = "answered"
    /\ \E a \in Answers :
          /\ answer' = a
          /\ result' = CASE purpose = "plan" ->
                              [status |-> "planned", queries |-> PlannedQueries(a)]
                         [] purpose = "evaluate" -> Evaluated(a)
                         [] OTHER -> Verified(a)
    /\ call' = "returned"
    /\ UNCHANGED <<promptVars, completionVars, purpose, limit, retained>>

(* parse_single_json_object catches JSONDecodeError alone and its callers  *)
(* StructuredOutputError alone: the call raises, planning without even     *)
(* looking for the queries of the text. *)
DecodingBreaks ==
    /\ call = "complete"
    /\ completion = "answered"
    /\ answer' = Undecodable
    /\ call' = "raised"
    /\ UNCHANGED <<promptVars, completionVars, purpose, limit, retained, result>>

(* LLMUnavailableError: no queries, or the typed error of the caller.  *)
ModelUnavailable ==
    /\ call = "complete"
    /\ completion = "unavailable"
    /\ result' = IF purpose = "plan" THEN [status |-> "planned", queries |-> <<>>]
                 ELSE Unavailable
    /\ call' = "returned"
    /\ UNCHANGED <<promptVars, completionVars, purpose, limit, retained, answer>>

ModelBreaks ==
    /\ call = "complete"
    /\ completion = "broken"
    /\ call' = "raised"
    /\ UNCHANGED <<promptVars, completionVars, purpose, limit, retained, answer,
                   result>>

(* The caller goes on: nothing more happens here. *)
Over == call \in {"returned", "raised"} /\ UNCHANGED vars

Next ==
    \/ PrepareQuestion
    \/ PrepareEvidence
    \/ Serialize
    \/ EndSerialize
    \/ Complete
    \/ Validate
    \/ DecodingBreaks
    \/ ModelUnavailable
    \/ ModelBreaks
    \/ Over

Spec == Init /\ [][Next]_vars

----------------------------------------------------------------------------
(* Properties *)

(* Whatever the model answers, planning returns at most `limit` queries,   *)
(* and an evaluation is complete without queries, asks at least one and at *)
(* most `limit` new ones, or is unavailable; queries are well formed, not  *)
(* repeated, and the model's own.  ResearchLoop rests on this. *)
AnswersFitTheLoop ==
    call = "returned" /\ result.status \in {"planned", "evaluated"} =>
        LET queries == result.queries IN
        /\ Len(queries) =< limit
        /\ AllGood(queries)
        /\ \A i, j \in DOMAIN queries : queries[i] = queries[j] => i = j
        /\ queries # <<>> => Range(queries) \subseteq Range(answer.queries)
        /\ result.status = "evaluated" => (result.complete <=> queries = <<>>)

(* A call that raises does so for one of three reasons that exclude each   *)
(* other, and has lost nothing the model had settled: the metadata of its  *)
(* evidence alone is too long and the model was never asked; the last      *)
(* attempt met an error that is not retried, within the attempts allowed;  *)
(* or the answer cannot be decoded.  And a call that finds the model       *)
(* unavailable has asked it: evidence that fits the serializer fits the    *)
(* client, whose bound is another one (serialize_bounded_evidence_payload, *)
(* complete, parse_single_json_object). *)
FailuresHaveACause ==
    /\ call = "raised" =>
          /\ result = Unavailable
          /\ \/ prompt = "refused" /\ completion = "idle" /\ posts = <<>>
             \/ /\ completion = "broken" /\ answer = NoAnswer
                /\ posts # <<>> /\ posts[Len(posts)].result = "broken"
             \/ completion = "answered" /\ answer = Undecodable
    /\ completion = "unavailable" /\ purpose # "evaluate" => posts # <<>>
=============================================================================
