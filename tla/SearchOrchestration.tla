------------------------- MODULE SearchOrchestration -------------------------
(***************************************************************************)
(* The search providers behind one query (search.py): the orchestrator     *)
(* asks the active adapters in turn, each adapter validates and bounds the *)
(* records of its provider, and the orchestrator merges what they return.  *)
(* The same orchestrator answers the readiness probe.                      *)
(*                                                                         *)
(* A record is what a provider says about one url.  Its title, snippet and *)
(* url text are abstracted to what the code tells apart: Quality, the key  *)
(* an adapter compares (RawKey, of the url as the provider wrote it) and   *)
(* the key the orchestrator compares (Key, of the url as HttpUrl writes    *)
(* it).  Neither decides the other: "http://a" and "http://a/" differ for  *)
(* an adapter only, "http://A\P" and "http://a\p" for the orchestrator.  *)
(***************************************************************************)
EXTENDS Naturals, Sequences, FiniteSets

CONSTANTS Records,      \* what providers may return
          Quality,      \* valid, skipped, rejected or malformed
          RawKey, Key,  \* the two identities of the url of a record
          Answers,      \* bound: the record lists a provider may return
          MaxAdapters,  \* bound: how many providers may be active
          MaxResults    \* bound: max_results of a request

(***************************************************************************)
(* skipped:   not a dict, or a field is not a string or blank              *)
(* rejected:  SearchResult refuses it (not a http url, too long)           *)
(* malformed: urlsplit refuses its url                                     *)
(***************************************************************************)
ASSUME SearchAssumption ==
    /\ Quality \in [Records -> {"valid", "skipped", "rejected", "malformed"}]
    /\ DOMAIN RawKey = Records
    /\ DOMAIN Key = Records
    /\ Answers \subseteq Seq(Records)
    /\ MaxAdapters \in Nat
    /\ MaxResults \in Nat \ {0}

VARIABLES request,   \* kind, number of active adapters, max_results
          stage,     \* ask, normalize or merge; then how the search ended:
                     \*   results, unavailable, ready, error or defect
          failures,  \* adapters that raised ProviderUnavailableError
          raw,       \* records of the adapter in turn, not yet validated
          batch,     \* its results: being built, then being merged
          merged,    \* the result list
          warned,    \* the response carries the provider warning
          asked      \* history: what each adapter returned, in order

searchVars == <<request, stage, failures, raw, batch, merged, warned, asked>>

Requests ==
    [kind : {"search", "ready"}, adapters : 0 .. MaxAdapters, limit : 1 .. MaxResults]

SearchInit ==
    /\ request \in Requests
    /\ request.kind = "ready" => request.limit = 1
    /\ stage = "ask"
    /\ failures = 0
    /\ raw = <<>>
    /\ batch = <<>>
    /\ merged = <<>>
    /\ warned = FALSE
    /\ asked = <<>>

Unreachable == [failed |-> TRUE, list |-> <<>>]

KeysOf(list, key) == {key[list[i]] : i \in DOMAIN list}

Full(list) == Len(list) = request.limit

----------------------------------------------------------------------------
(* The loop of SearchOrchestrator.run *)

MoreToAsk == Len(asked) < request.adapters /\ ~ Full(merged)

(* A network error, another status or media type, too long a body, or one *)
(* that is not the JSON expected of this provider. *)
AdapterFails ==
    /\ failures' = failures + 1
    /\ asked' = Append(asked, Unreachable)

AdapterReturns(list) ==
    /\ asked' = Append(asked, [failed |-> FALSE, list |-> list])
    /\ UNCHANGED failures

(* A body nested too deeply: the RecursionError of response.json(), or of  *)
(* _duckduckgo_flatten, is not what the adapter catches.  The probe does   *)
(* not parse the body.  *)
AdapterRaises ==
    /\ stage' = "defect"
    /\ UNCHANGED <<failures, asked>>

AskNextAdapter ==
    /\ stage = "ask"
    /\ request.kind = "search"
    /\ MoreToAsk
    /\ \/ AdapterFails /\ UNCHANGED <<stage, raw, batch>>
       \/ AdapterRaises /\ UNCHANGED <<raw, batch>>
       \/ \E list \in Answers :
             /\ AdapterReturns(list)
             /\ raw' = list
             /\ batch' = <<>>
             /\ stage' = "normalize"
    /\ UNCHANGED <<request, merged, warned>>

(* _normalize_records: a record whose url is known to this list, or that   *)
(* SearchResult rejects, leaves no trace; urlsplit raises on a malformed   *)
(* url before the try.  *)
Accepted_NotCompared(r) == Quality[r] = "valid"

Accepted(r) ==
    /\ Quality[r] = "valid"
    /\ RawKey[r] \notin KeysOf(batch, RawKey)

NormalizeRecord ==
    /\ stage = "normalize"
    /\ raw # <<>> /\ ~ Full(batch)
    /\ LET r == Head(raw) IN
          /\ raw' = Tail(raw)
          /\ batch' = IF Accepted(r) THEN Append(batch, r) ELSE batch
          /\ stage' = IF Quality[r] = "malformed" THEN "error" ELSE stage
    /\ UNCHANGED <<request, failures, merged, warned, asked>>

EndNormalize ==
    /\ stage = "normalize"
    /\ raw = <<>> \/ Full(batch)
    /\ raw' = <<>>
    /\ stage' = "merge"
    /\ UNCHANGED <<request, failures, batch, merged, warned, asked>>

MergeResult ==
    /\ stage = "merge"
    /\ batch # <<>> /\ ~ Full(merged)
    /\ batch' = Tail(batch)
    /\ merged' = IF Key[Head(batch)] \in KeysOf(merged, Key)
                   THEN merged ELSE Append(merged, Head(batch))
    /\ UNCHANGED <<request, stage, failures, raw, warned, asked>>

EndMerge ==
    /\ stage = "merge"
    /\ batch = <<>> \/ Full(merged)
    /\ batch' = <<>>
    /\ stage' = "ask"
    /\ UNCHANGED <<request, failures, raw, merged, warned, asked>>

Degraded_OnlyWhenEmpty == failures > 0 /\ merged = <<>>

Degraded == failures > 0

(* Without an adapter get_search_adapter returns None and the request ends *)
(* the same way as after the failure of all of them. *)
EndSearch ==
    /\ stage = "ask"
    /\ request.kind = "search"
    /\ ~ MoreToAsk
    /\ \/ /\ failures = request.adapters
          /\ stage' = "unavailable"
          /\ UNCHANGED warned
       \/ /\ failures # request.adapters
          /\ stage' = "results"
          /\ warned' = Degraded
    /\ UNCHANGED <<request, failures, raw, batch, merged, asked>>

----------------------------------------------------------------------------
(* The readiness probe: SearchOrchestrator.check_ready *)

ProbeNextAdapter ==
    /\ stage = "ask"
    /\ request.kind = "ready"
    /\ MoreToAsk
    /\ \/ AdapterFails /\ UNCHANGED stage
       \/ AdapterReturns(<<>>) /\ stage' = "ready"
    /\ UNCHANGED <<request, raw, batch, merged, warned>>

NotReady ==
    /\ stage = "ask"
    /\ request.kind = "ready"
    /\ ~ MoreToAsk
    /\ stage' = "unavailable"
    /\ UNCHANGED <<request, failures, raw, batch, merged, warned, asked>>

SearchNext ==
    \/ AskNextAdapter
    \/ NormalizeRecord
    \/ EndNormalize
    \/ MergeResult
    \/ EndMerge
    \/ EndSearch
    \/ ProbeNextAdapter
    \/ NotReady

SearchSpec == SearchInit /\ [][SearchNext]_searchVars

----------------------------------------------------------------------------
(* Properties *)

SearchTypeOK ==
    /\ request \in Requests
    /\ stage \in {"ask", "normalize", "merge", "results", "unavailable",
                  "error", "defect", "ready"}
    /\ failures \in Nat
    /\ raw \in Seq(Records)
    /\ batch \in Seq(Records)
    /\ merged \in Seq(Records)
    /\ warned \in BOOLEAN
    /\ asked \in Seq([failed : BOOLEAN, list : Seq(Records)])

(* The places in the answers: adapter and position. *)
AllPlaces == UNION {{i} \X DOMAIN asked[i].list : i \in DOMAIN asked}

At(p) == asked[p[1]].list[p[2]]

Before(p, q) == p[1] < q[1] \/ (p[1] = q[1] /\ p[2] < q[2])

(* An adapter reads the valid records of its list as long as it has seen   *)
(* fewer than max_results urls, and of each url the first. *)
IsRead(p) ==
    LET list   == asked[p[1]].list
        before == {i \in 1 .. p[2] - 1 : Quality[list[i]] = "valid"}
        urls   == {RawKey[list[i]] : i \in before}
    IN  /\ Quality[At(p)] = "valid"
        /\ RawKey[At(p)] \notin urls
        /\ ~ (Cardinality(urls) >= request.limit)

ReadPlaces == {p \in AllPlaces : IsRead(p)}

(* Each result is the record at a place that an adapter read, in the order *)
(* of the adapters and of their lists, and no url is there twice.  Each    *)
(* place that was read is accounted for: a result of its url comes from    *)
(* there or from before, or max_results results do, all from before        *)
(* (SearchOrchestrator.run, _normalize_records). *)
ResultsAreComplete ==
    stage = "results" =>
        \E place \in [DOMAIN merged -> ReadPlaces] :
            /\ \A j \in DOMAIN merged : At(place[j]) = merged[j]
            /\ \A j, k \in DOMAIN merged :
                  j < k => /\ Before(place[j], place[k])
                           /\ Key[merged[j]] # Key[merged[k]]
            /\ \A p \in ReadPlaces :
                  \/ \E j \in DOMAIN merged : /\ Key[merged[j]] = Key[At(p)]
                                              /\ ~ Before(p, place[j])
                  \/ Full(merged) /\ \A j \in DOMAIN merged : Before(place[j], p)
=============================================================================
