------------------------- MODULE SearchRequestProofs -------------------------
(***************************************************************************)
(* Proofs about SearchRequest, for every set of records and urls, every    *)
(* answer of the providers, every resolution of a name and every bound:    *)
(* what the fetches of a request may reach, whose text the snippets are,   *)
(* what the client is told, and which results it gets.                     *)
(***************************************************************************)
EXTENDS SearchRequest, FiniteSetTheorems, TLAPS

----------------------------------------------------------------------------
(* Facts about numbers and sequences *)

(* Every non-empty set of natural numbers has a least element. *)
LEMMA LeastNumber ==
    ASSUME NEW T \in SUBSET Nat, T # {}
    PROVE  \E n \in T : \A m \in T : n =< m
<1> DEFINE R == OpToRel(<, Nat)
<1>1. IsWellFoundedOn(R, Nat)
  BY NatLessThanWellFounded
<1>2. \A x, y \in Nat : <<x, y>> \in R <=> x < y
  BY DEF OpToRel
<1>3. T \subseteq Nat
  OBVIOUS
<1> HIDE DEF R
<1>4. PICK x \in T : \A y \in T : ~ (<<y, x>> \in R)
  BY <1>1, <1>3, WFMin
<1>5. ASSUME NEW m \in T
      PROVE  x =< m
  <2>1. m \in Nat /\ x \in Nat
    BY <1>3
  <2>2. ~ (m < x)
    BY <2>1, <1>2, <1>4
  <2> QED
    BY <2>1, <2>2
<1> QED
  BY <1>5

(* The address a fetch is pinned to is one of those it vetted. *)
LEMMA MinIsAMember ==
    ASSUME NEW T \in SUBSET Nat, T # {}
    PROVE  Min(T) \in T
BY LeastNumber DEF Min

(* What Append does, element by element. *)
LEMMA AppendFacts ==
    ASSUME NEW S, NEW s \in Seq(S), NEW e \in S
    PROVE  /\ Append(s, e) \in Seq(S)
           /\ Len(Append(s, e)) = Len(s) + 1
           /\ DOMAIN Append(s, e) = 1 .. Len(s) + 1
           /\ \A i \in 1 .. Len(s) : Append(s, e)[i] = s[i]
           /\ Append(s, e)[Len(s) + 1] = e
  OBVIOUS

LEMMA SeqFacts ==
    ASSUME NEW S, NEW s \in Seq(S)
    PROVE  /\ Len(s) \in Nat
           /\ DOMAIN s = 1 .. Len(s)
           /\ \A i \in 1 .. Len(s) : s[i] \in S
  OBVIOUS

----------------------------------------------------------------------------
(* The fetch of a page *)

Sent == [url : Urls, address : Nat]

FetchTypeOK ==
    /\ fetch \in {"idle", "resolve", "request", "page", "unavailable", "defect"}
    /\ current \in Urls \cup {NoUrl}
    /\ fetch # "idle" => current \in Urls
    /\ pin \in Nat
    /\ requests \in Seq(Sent)

(* The urls of the requests were seen; before the next request its url has *)
(* passed the checks of a hop and its address was vetted. *)
HopsAreChecked ==
    /\ \A i \in 1 .. Len(requests) : requests[i].url \in seen
    /\ fetch = "request" =>
          /\ Len(requests) =< MaxRedirects
          /\ current \in seen /\ current \in Fetchable
          /\ \A i \in 1 .. Len(requests) : requests[i].url # current
          /\ pin \notin Blocked

FetchInv == FetchTypeOK /\ HopsAreChecked /\ FetchesAreContained

LEMMA NoFetchInv ==
    ASSUME requests' = <<>>, pin' = 0,
           \/ fetch' = "idle" /\ current' = NoUrl
           \/ fetch' = "resolve" /\ current' \in Urls
    PROVE  FetchInv'
<1>1. Len(requests') = 0 /\ requests' \in Seq(Sent) /\ DOMAIN requests' = {}
  OBVIOUS
<1>2. FetchTypeOK'
  BY <1>1 DEF FetchTypeOK
<1>3. HopsAreChecked'
  BY <1>1 DEF HopsAreChecked
<1>4. FetchesAreContained'
  BY <1>1, FetchAssumption DEF FetchesAreContained
<1> QED
  BY <1>2, <1>3, <1>4 DEF FetchInv

LEMMA RefuseKeepsFetchInv ==
    ASSUME FetchInv, RefuseHop
    PROVE  FetchInv'
BY DEF FetchInv, RefuseHop, FetchTypeOK, HopsAreChecked, FetchesAreContained

LEMMA ResolveKeepsFetchInv ==
    ASSUME FetchInv, ResolveHost
    PROVE  FetchInv'
<1>1. /\ fetch = "resolve" /\ HopAllowed
      /\ seen' = seen \cup {current}
      /\ current' = current /\ requests' = requests
  BY DEF ResolveHost
<1>2. requests \in Seq(Sent) /\ current \in Urls /\ pin \in Nat
  BY <1>1 DEF FetchInv, FetchTypeOK
<1>3. /\ fetch' \in {"unavailable", "request"}
      /\ pin' \in Nat
      /\ fetch' = "request" => pin' \notin Blocked
  <2>1. PICK addresses \in Resolutions :
          \/ ~ Vetted(addresses) /\ fetch' = "unavailable" /\ UNCHANGED pin
          \/ Vetted(addresses) /\ pin' = Min(addresses) /\ fetch' = "request"
    BY DEF ResolveHost
  <2>2. CASE Vetted(addresses) /\ pin' = Min(addresses) /\ fetch' = "request"
    <3>1. addresses \in SUBSET Nat /\ addresses # {}
      BY <2>2, FetchAssumption DEF Vetted
    <3>2. pin' \in addresses
      BY <2>2, <3>1, MinIsAMember
    <3> QED
      BY <2>2, <3>1, <3>2 DEF Vetted
  <2> QED
    BY <2>1, <2>2, <1>2
<1>4. FetchTypeOK'
  BY <1>1, <1>2, <1>3 DEF FetchTypeOK
<1>5. HopsAreChecked'
  <2>1. \A i \in 1 .. Len(requests) : requests[i].url \in seen
    BY DEF FetchInv, HopsAreChecked
  <2>2. /\ current \in Fetchable /\ current \notin seen
        /\ Len(requests) =< MaxRedirects
    BY <1>1 DEF HopAllowed
  <2> QED
    BY <2>1, <2>2, <1>1, <1>3 DEF HopsAreChecked
<1>6. FetchesAreContained'
  BY <1>1, <1>3 DEF FetchInv, FetchesAreContained
<1> QED
  BY <1>4, <1>5, <1>6 DEF FetchInv

(* A request goes to a url not asked before, at a vetted address. *)
LEMMA RequestKeepsFetchInv ==
    ASSUME FetchInv, NEW result, SendRequest(result),
           \/ result = "resolve" /\ current' \in Urls
           \/ result \in {"page", "unavailable", "defect"} /\ current' = current
    PROVE  FetchInv' /\ requests' # <<>>
           /\ requests'[1].url = IF requests = <<>> THEN current
                                 ELSE requests[1].url
<1> DEFINE new == [url |-> current, address |-> pin]
<1>1. /\ fetch = "request" /\ requests' = Append(requests, new)
      /\ fetch' = result /\ seen' = seen /\ pin' = pin
  BY DEF SendRequest
<1>2. /\ requests \in Seq(Sent) /\ current \in Urls /\ pin \in Nat
      /\ Len(requests) =< MaxRedirects
      /\ current \in seen /\ current \in Fetchable
      /\ \A i \in 1 .. Len(requests) :
            requests[i].url # current /\ requests[i].url \in seen
      /\ pin \notin Blocked
  BY <1>1 DEF FetchInv, FetchTypeOK, HopsAreChecked
<1>3. new \in Sent /\ new.url = current /\ new.address = pin
  BY <1>2 DEF Sent
<1>4. Len(requests) \in Nat /\ DOMAIN requests = 1 .. Len(requests)
  BY <1>2, SeqFacts
<1> HIDE DEF new
<1>5. /\ requests' \in Seq(Sent) /\ Len(requests') = Len(requests) + 1
      /\ DOMAIN requests' = 1 .. Len(requests) + 1
      /\ \A i \in 1 .. Len(requests) : requests'[i] = requests[i]
      /\ requests'[Len(requests) + 1] = new
  BY <1>1, <1>2, <1>3, AppendFacts
<1>6. FetchTypeOK'
  BY <1>1, <1>2, <1>5 DEF FetchTypeOK
<1>7. HopsAreChecked'
  <2>1. fetch' # "request"
    BY <1>1
  <2>2. ASSUME NEW i \in 1 .. Len(requests')
        PROVE  requests'[i].url \in seen'
    <3>1. CASE i \in 1 .. Len(requests)
      BY <3>1, <1>1, <1>2, <1>5
    <3>2. CASE i = Len(requests) + 1
      BY <3>2, <1>1, <1>2, <1>3, <1>5
    <3> QED
      BY <3>1, <3>2, <1>4, <1>5
  <2> QED
    BY <2>1, <2>2 DEF HopsAreChecked
<1>8. FetchesAreContained'
  <2>1. Len(requests') =< MaxRedirects + 1
    BY <1>2, <1>4, <1>5, FetchAssumption
  <2>2. ASSUME NEW i \in DOMAIN requests', NEW j \in DOMAIN requests'
        PROVE  /\ requests'[i].address \notin Blocked
               /\ requests'[i].url \in Fetchable
               /\ requests'[i].url = requests'[j].url => i = j
    <3>1. \A k \in 1 .. Len(requests) :
             /\ requests'[k].address \notin Blocked
             /\ requests'[k].url \in Fetchable
             /\ requests'[k].url # current
      BY <1>2, <1>4, <1>5 DEF FetchInv, FetchesAreContained
    <3>2. \A k, l \in 1 .. Len(requests) :
             requests'[k].url = requests'[l].url => k = l
      BY <1>4, <1>5 DEF FetchInv, FetchesAreContained
    <3>3. /\ requests'[Len(requests) + 1].url = current
          /\ requests'[Len(requests) + 1].address = pin
      BY <1>3, <1>5
    <3>4. \A k \in DOMAIN requests' :
             k \in 1 .. Len(requests) \/ k = Len(requests) + 1
      BY <1>4, <1>5
    <3> QED
      BY <3>1, <3>2, <3>3, <3>4, <1>2
  <2>3. fetch' = "page" => requests'[Len(requests')].url = current'
    BY <1>1, <1>3, <1>5
  <2> QED
    BY <2>1, <2>2, <2>3 DEF FetchesAreContained
<1>9. requests' # <<>> /\ requests'[1].url = IF requests = <<>> THEN current
                                               ELSE requests[1].url
  <2>1. requests' # <<>>
    BY <1>4, <1>5
  <2>2. CASE requests = <<>>
    <3>1. Len(requests) = 0
      BY <2>2
    <3> QED
      BY <2>1, <2>2, <3>1, <1>3, <1>5
  <2>3. CASE requests # <<>>
    <3>1. 1 \in 1 .. Len(requests)
      BY <2>3, <1>2
    <3> QED
      BY <2>1, <2>3, <3>1, <1>5
  <2> QED
    BY <2>2, <2>3
<1> QED
  BY <1>6, <1>7, <1>8, <1>9 DEF FetchInv

(* The first request of a fetch is for the url it began with. *)
StartsAt(url) ==
    IF requests = <<>> THEN current = url ELSE requests[1].url = url

LEMMA StepKeepsFetchInv ==
    ASSUME FetchInv, FetchNext
    PROVE  /\ FetchInv'
           /\ \A url : StartsAt(url) => StartsAt(url)'
           /\ fetch' = "page" => requests' # <<>>
           /\ fetch # "idle" /\ fetch' # "idle"
<1>1. CASE RefuseHop
  BY <1>1, RefuseKeepsFetchInv DEF RefuseHop, StartsAt
<1>2. CASE ResolveHost
  BY <1>2, ResolveKeepsFetchInv DEF ResolveHost, StartsAt
<1>3. ASSUME NEW result, SendRequest(result),
             \/ result = "resolve" /\ current' \in Urls
             \/ result \in {"page", "unavailable", "defect"} /\ current' = current
      PROVE  /\ FetchInv'
             /\ \A url : StartsAt(url) => StartsAt(url)'
             /\ fetch' = "page" => requests' # <<>>
             /\ fetch # "idle" /\ fetch' # "idle"
  BY <1>3, RequestKeepsFetchInv DEF StartsAt, SendRequest
<1> QED
  BY <1>1, <1>2, <1>3 DEF FetchNext, FollowRedirect, ReceivePage, ReceiveNothing

----------------------------------------------------------------------------
(* The search of the providers: what is counted and how it ends *)

LEMMA TailFacts ==
    ASSUME NEW S, NEW s \in Seq(S), s # <<>>
    PROVE  /\ Head(s) = s[1] /\ Head(s) \in S
           /\ Tail(s) \in Seq(S)
           /\ Len(s) \in Nat \ {0}
           /\ Len(Tail(s)) = Len(s) - 1
           /\ \A i \in 1 .. Len(s) - 1 : Tail(s)[i] = s[i + 1]
  OBVIOUS

Answer == [failed : BOOLEAN, list : Seq(Records)]

(* No list outgrows max_results, no adapter is asked twice, and a readiness *)
(* probe reads no records. *)
Bounded ==
    /\ Len(asked) =< request.adapters
    /\ Len(merged) =< request.limit
    /\ request.kind = "ready" =>
          merged = <<>> /\ stage \in {"ask", "ready", "unavailable"}

FailuresAreCounted ==
    /\ failures =< Len(asked)
    /\ failures > 0 <=> \E i \in DOMAIN asked : asked[i].failed
    /\ failures = Len(asked) <=> \A i \in DOMAIN asked : asked[i].failed

MalformedRecordSeen ==
    \E i \in DOMAIN asked, r \in Records :
        r \in Range(asked[i].list) /\ Quality[r] = "malformed"

(* How the search ended, and what is left to validate. *)
Ends ==
    /\ stage = "unavailable" =>
          failures = Len(asked) /\ Len(asked) = request.adapters
    /\ stage = "results" =>
          failures # request.adapters /\ (warned <=> failures > 0)
    /\ stage = "ready" => failures # Len(asked)
    /\ stage = "ask" /\ request.kind = "ready" => failures = Len(asked)
    /\ stage = "normalize" =>
          /\ asked # <<>>
          /\ \A i \in 1 .. Len(raw) : raw[i] \in Range(asked[Len(asked)].list)
    /\ stage = "error" => MalformedRecordSeen

CountInv == SearchTypeOK /\ Bounded /\ FailuresAreCounted /\ Ends

LEMMA RequestTypes ==
    ASSUME SearchTypeOK
    PROVE  /\ request.adapters \in Nat
           /\ request.limit \in Nat \ {0}
           /\ request.kind \in {"search", "ready"}
           /\ failures \in Nat
           /\ Len(asked) \in Nat /\ DOMAIN asked = 1 .. Len(asked)
           /\ Len(merged) \in Nat /\ DOMAIN merged = 1 .. Len(merged)
           /\ Len(batch) \in Nat /\ DOMAIN batch = 1 .. Len(batch)
           /\ Len(raw) \in Nat /\ DOMAIN raw = 1 .. Len(raw)
BY SearchAssumption DEF SearchTypeOK, Requests

(* One more adapter has been asked. *)
LEMMA AskKeepsCounts ==
    ASSUME CountInv, request' = request,
           NEW failed \in BOOLEAN, NEW list \in Seq(Records),
           Len(asked) < request.adapters,
           asked' = Append(asked, [failed |-> failed, list |-> list]),
           \/ failed /\ failures' = failures + 1
           \/ ~ failed /\ failures' = failures
    PROVE  /\ asked' \in Seq(Answer)
           /\ Len(asked') = Len(asked) + 1
           /\ DOMAIN asked' = 1 .. Len(asked) + 1
           /\ \A i \in 1 .. Len(asked) : asked'[i] = asked[i]
           /\ asked'[Len(asked')] = [failed |-> failed, list |-> list]
           /\ Len(asked') =< request'.adapters
           /\ failures' \in Nat
           /\ FailuresAreCounted'
           /\ failed /\ failures = Len(asked) => failures' = Len(asked')
           /\ ~ failed => failures' # Len(asked')
<1> DEFINE new == [failed |-> failed, list |-> list]
<1>1. new \in Answer /\ new.failed = failed
  BY DEF Answer
<1>2. asked \in Seq(Answer) /\ SearchTypeOK
  BY DEF CountInv, SearchTypeOK, Answer
<1> HIDE DEF new
<1>3. /\ asked' \in Seq(Answer)
      /\ Len(asked') = Len(asked) + 1
      /\ DOMAIN asked' = 1 .. Len(asked) + 1
      /\ \A i \in 1 .. Len(asked) : asked'[i] = asked[i]
      /\ asked'[Len(asked) + 1] = new
  BY <1>1, <1>2, AppendFacts DEF new
<1>4. /\ request.adapters \in Nat /\ failures \in Nat
      /\ Len(asked) \in Nat /\ DOMAIN asked = 1 .. Len(asked)
  BY <1>2, RequestTypes
<1>5. failures =< Len(asked)
  BY DEF CountInv, FailuresAreCounted
<1>6. failures' \in {failures, failures + 1}
  OBVIOUS
<1>7. /\ failed => (failures' = Len(asked') <=> failures = Len(asked))
      /\ ~ failed => failures' # Len(asked')
  <2>1. failures + 1 = Len(asked') <=> failures = Len(asked)
    <3>1. failures + 1 = Len(asked) + 1 <=> failures = Len(asked)
      <4>1. failures \in Nat /\ Len(asked) \in Nat
        BY <1>4
      <4> QED
        BY <4>1
    <3> QED
      BY <3>1, <1>3
  <2>2. failures # Len(asked')
    BY <1>3, <1>4, <1>5
  <2> QED
    BY <2>1, <2>2, Zenon
<1>8. FailuresAreCounted'
  <2>1. failures' =< Len(asked')
    BY <1>3, <1>4, <1>5, <1>6
  <2>2. failures' > 0 <=> \E i \in DOMAIN asked' : asked'[i].failed
    <3>1. failures > 0 <=> \E i \in DOMAIN asked : asked[i].failed
      BY DEF CountInv, FailuresAreCounted
    <3>2. (\E i \in DOMAIN asked' : asked'[i].failed)
             <=> failed \/ \E i \in DOMAIN asked : asked[i].failed
      BY <1>1, <1>3, <1>4
    <3> QED
      BY <3>1, <3>2, <1>4
  <2>3. failures' = Len(asked') <=> \A i \in DOMAIN asked' : asked'[i].failed
    <3>1. failures = Len(asked) <=> \A i \in DOMAIN asked : asked[i].failed
      BY DEF CountInv, FailuresAreCounted
    <3>2. (\A i \in DOMAIN asked' : asked'[i].failed)
             <=> failed /\ \A i \in DOMAIN asked : asked[i].failed
      BY <1>1, <1>3, <1>4
    <3>3. failures' = Len(asked') <=> failed /\ failures = Len(asked)
      BY <1>7, Zenon
    <3> QED
      BY <3>1, <3>2, <3>3
  <2> QED
    BY <2>1, <2>2, <2>3 DEF FailuresAreCounted
<1>9. failures' \in Nat /\ Len(asked') =< request'.adapters
  BY <1>3, <1>4, <1>6
<1>10. asked'[Len(asked')] = [failed |-> failed, list |-> list]
  BY <1>3 DEF new
<1> QED
  BY <1>3, <1>7, <1>8, <1>9, <1>10

LEMMA SearchStepKeepsCounts ==
    ASSUME CountInv, SearchNext
    PROVE  CountInv'
<1> SearchTypeOK
  BY DEF CountInv
<1>0. /\ request.adapters \in Nat /\ request.limit \in Nat \ {0}
      /\ request.kind \in {"search", "ready"} /\ failures \in Nat
      /\ Len(asked) \in Nat /\ DOMAIN asked = 1 .. Len(asked)
      /\ Len(merged) \in Nat /\ Len(batch) \in Nat /\ Len(raw) \in Nat
      /\ failures =< Len(asked)
  BY RequestTypes DEF CountInv, FailuresAreCounted
<1>1. CASE AskNextAdapter
  <2>1. /\ stage = "ask" /\ request.kind = "search"
        /\ Len(asked) < request.adapters
        /\ request' = request /\ merged' = merged /\ warned' = warned
    BY <1>1 DEF AskNextAdapter, MoreToAsk
  <2>7. CASE AdapterRaises /\ UNCHANGED <<raw, batch>>
    <3>1. /\ stage' = "defect"
          /\ UNCHANGED <<request, failures, asked, merged, warned, raw, batch>>
      BY <2>1, <2>7 DEF AdapterRaises
    <3> QED
      BY <2>1, <3>1 DEF CountInv, SearchTypeOK, Bounded, FailuresAreCounted, Ends
  <2> SUFFICES ASSUME ~ (AdapterRaises /\ UNCHANGED <<raw, batch>>)
               PROVE  CountInv'
    BY <2>7
  <2>2. PICK failed \in BOOLEAN, list \in Seq(Records) :
          /\ asked' = Append(asked, [failed |-> failed, list |-> list])
          /\ \/ failed /\ failures' = failures + 1
             \/ ~ failed /\ failures' = failures
          /\ failed => stage' = stage /\ raw' = raw /\ batch' = batch
          /\ ~ failed => stage' = "normalize" /\ raw' = list /\ batch' = <<>>
    <3>1. CASE AdapterFails /\ UNCHANGED <<stage, raw, batch>>
      <4>1. /\ asked' = Append(asked, [failed |-> TRUE, list |-> <<>>])
            /\ failures' = failures + 1
            /\ stage' = stage /\ raw' = raw /\ batch' = batch
        BY <3>1 DEF AdapterFails, Unreachable
      <4>2. TRUE \in BOOLEAN /\ <<>> \in Seq(Records)
        OBVIOUS
      <4> QED
        BY <4>1, <4>2
    <3>2. CASE \E list \in Answers : /\ AdapterReturns(list)
                                     /\ raw' = list
                                     /\ batch' = <<>>
                                     /\ stage' = "normalize"
      BY <3>2, SearchAssumption DEF AdapterReturns
    <3> QED
      BY <3>1, <3>2, <1>1 DEF AskNextAdapter
  <2>3. /\ asked' \in Seq(Answer)
        /\ Len(asked') = Len(asked) + 1
        /\ asked'[Len(asked')] = [failed |-> failed, list |-> list]
        /\ Len(asked') =< request'.adapters
        /\ failures' \in Nat
        /\ FailuresAreCounted'
    BY <2>1, <2>2, AskKeepsCounts, Zenon
  <2>4. SearchTypeOK'
    <3>1. /\ raw' \in {raw, list} /\ batch' \in {batch, <<>>}
          /\ stage' \in {"ask", "normalize"}
      BY <2>1, <2>2, Zenon
    <3>2. <<>> \in Seq(Records)
      OBVIOUS
    <3> QED
      BY <3>1, <3>2, <2>1, <2>3 DEF SearchTypeOK, Answer
  <2>5. Bounded'
    BY <2>1, <2>3 DEF CountInv, Bounded
  <2>6. Ends'
    <3>1. asked' # <<>>
      BY <2>3, <1>0
    <3>2. ~ failed => \A i \in 1 .. Len(list) : list[i] \in Range(list)
      BY DEF Range
    <3> QED
      BY <3>1, <3>2, <2>1, <2>2, <2>3 DEF Ends
  <2> QED
    BY <2>3, <2>4, <2>5, <2>6 DEF CountInv
<1>2. CASE NormalizeRecord
  <2>1. /\ stage = "normalize" /\ raw # <<>>
        /\ raw' = Tail(raw)
        /\ batch' = IF Accepted(Head(raw)) THEN Append(batch, Head(raw)) ELSE batch
        /\ stage' = IF Quality[Head(raw)] = "malformed" THEN "error" ELSE stage
        /\ UNCHANGED <<request, failures, merged, warned, asked>>
    BY <1>2 DEF NormalizeRecord
  <2>2. /\ Head(raw) = raw[1] /\ Head(raw) \in Records
        /\ Tail(raw) \in Seq(Records)
        /\ Len(raw) \in Nat \ {0}
        /\ Len(Tail(raw)) = Len(raw) - 1
        /\ \A i \in 1 .. Len(raw) - 1 : Tail(raw)[i] = raw[i + 1]
    BY <2>1, TailFacts DEF SearchTypeOK
  <2>3. batch' \in Seq(Records)
    BY <2>1, <2>2, AppendFacts DEF SearchTypeOK
  <2>4. SearchTypeOK'
    BY <2>1, <2>2, <2>3 DEF SearchTypeOK
  <2>5. Ends'
    <3>1. asked # <<>> /\ \A i \in 1 .. Len(raw) : raw[i] \in Range(asked[Len(asked)].list)
      BY <2>1 DEF CountInv, Ends
    <3>2. \A i \in 1 .. Len(raw') : raw'[i] \in Range(asked'[Len(asked')].list)
      BY <2>1, <2>2, <3>1
    <3>3. Quality[Head(raw)] = "malformed" => MalformedRecordSeen'
      <4>1. raw[1] \in Range(asked[Len(asked)].list) /\ raw[1] \in Records
        BY <2>2, <3>1
      <4>2. Len(asked) \in DOMAIN asked
        BY <1>0, <3>1 DEF SearchTypeOK
      <4> QED
        BY <4>1, <4>2, <2>1, <2>2 DEF MalformedRecordSeen
    <3> QED
      BY <3>1, <3>2, <3>3, <2>1 DEF Ends
  <2>6. Bounded'
    BY <2>1 DEF CountInv, Bounded
  <2>7. FailuresAreCounted'
    BY <2>1 DEF CountInv, FailuresAreCounted
  <2> QED
    BY <2>4, <2>5, <2>6, <2>7 DEF CountInv
<1>3. CASE EndNormalize \/ EndMerge
  <2>1. /\ raw' \in Seq(Records) /\ batch' \in Seq(Records)
        /\ stage \in {"normalize", "merge"} /\ stage' \in {"merge", "ask"}
        /\ UNCHANGED <<request, failures, merged, warned, asked>>
    <3>1. <<>> \in Seq(Records) /\ raw \in Seq(Records) /\ batch \in Seq(Records)
      BY DEF SearchTypeOK
    <3> QED
      BY <3>1, <1>3 DEF EndNormalize, EndMerge
  <2>2. request.kind = "search"
    BY <2>1, <1>0 DEF CountInv, Bounded
  <2> QED
    BY <2>1, <2>2 DEF CountInv, SearchTypeOK, Bounded, FailuresAreCounted, Ends
<1>4. CASE MergeResult
  <2>1. /\ stage = "merge" /\ batch # <<>> /\ Len(merged) # request.limit
        /\ batch' = Tail(batch)
        /\ merged' = IF Key[Head(batch)] \in KeysOf(merged, Key)
                       THEN merged ELSE Append(merged, Head(batch))
        /\ UNCHANGED <<request, stage, failures, raw, warned, asked>>
    BY <1>4 DEF MergeResult, Full
  <2>2. Tail(batch) \in Seq(Records) /\ Head(batch) \in Records
    BY <2>1, TailFacts DEF SearchTypeOK
  <2>3. merged' \in Seq(Records) /\ Len(merged') =< Len(merged) + 1
    BY <2>1, <2>2, <1>0, AppendFacts DEF SearchTypeOK
  <2>4. Len(merged) =< request.limit /\ request.kind = "search"
    BY <2>1, <1>0 DEF CountInv, Bounded
  <2>5. Len(merged') =< request.limit
    <3>1. Len(merged') \in Nat
      BY <2>3
    <3> QED
      BY <3>1, <2>1, <2>3, <2>4, <1>0
  <2> QED
    BY <2>1, <2>2, <2>3, <2>4, <2>5
       DEF CountInv, SearchTypeOK, Bounded, FailuresAreCounted, Ends
<1>5. CASE EndSearch
  <2>1. /\ stage = "ask" /\ request.kind = "search"
        /\ UNCHANGED <<request, failures, raw, batch, merged, asked>>
        /\ \/ failures = request.adapters /\ stage' = "unavailable" /\ warned' = warned
           \/ failures # request.adapters /\ stage' = "results"
              /\ warned' = (failures > 0)
    BY <1>5 DEF EndSearch, Degraded
  <2>2. failures = request.adapters => Len(asked) = request.adapters
    BY <1>0 DEF CountInv, Bounded
  <2>3. warned' \in BOOLEAN
    <3>1. (failures > 0) \in BOOLEAN
      BY <1>0
    <3> QED
      BY <3>1, <2>1, Zenon DEF SearchTypeOK
  <2>4. SearchTypeOK'
    BY <2>1, <2>3 DEF SearchTypeOK
  <2>5. Bounded' /\ FailuresAreCounted'
    BY <2>1 DEF CountInv, Bounded, FailuresAreCounted
  <2>6. Ends'
    <3>1. CASE stage' = "unavailable"
      BY <3>1, <2>1, <2>2 DEF Ends
    <3>2. CASE stage' = "results"
      BY <3>2, <2>1 DEF Ends
    <3> QED
      BY <3>1, <3>2, <2>1
  <2> QED
    BY <2>4, <2>5, <2>6 DEF CountInv
<1>6. CASE ProbeNextAdapter
  <2>1. /\ stage = "ask" /\ request.kind = "ready"
        /\ Len(asked) < request.adapters
        /\ UNCHANGED <<request, raw, batch, merged, warned>>
    BY <1>6 DEF ProbeNextAdapter, MoreToAsk
  <2>2. PICK failed \in BOOLEAN :
          /\ asked' = Append(asked, [failed |-> failed, list |-> <<>>])
          /\ \/ failed /\ failures' = failures + 1 /\ stage' = stage
             \/ ~ failed /\ failures' = failures /\ stage' = "ready"
    BY <1>6 DEF ProbeNextAdapter, AdapterFails, AdapterReturns, Unreachable
  <2>3. /\ asked' \in Seq(Answer)
        /\ Len(asked') =< request'.adapters
        /\ failures' \in Nat
        /\ FailuresAreCounted'
        /\ failed /\ failures = Len(asked) => failures' = Len(asked')
        /\ ~ failed => failures' # Len(asked')
    <3> DEFINE none == <<>>
    <3>1. none \in Seq(Records)
      OBVIOUS
    <3> QED
      BY <3>1, <2>1, <2>2, AskKeepsCounts
  <2>4. SearchTypeOK'
    BY <2>1, <2>2, <2>3 DEF SearchTypeOK, Answer
  <2>5. Bounded' /\ Ends'
    BY <2>1, <2>2, <2>3 DEF CountInv, Bounded, Ends
  <2> QED
    BY <2>3, <2>4, <2>5 DEF CountInv
<1>7. CASE NotReady
  <2>1. /\ stage = "ask" /\ request.kind = "ready"
        /\ stage' = "unavailable"
        /\ UNCHANGED <<request, failures, raw, batch, merged, warned, asked>>
        /\ ~ MoreToAsk
    BY <1>7 DEF NotReady
  <2>2. merged = <<>> /\ Len(asked) =< request.adapters /\ failures = Len(asked)
    BY <2>1 DEF CountInv, Bounded, Ends
  <2>3. Len(merged) = 0
    BY <2>2
  <2>4. Len(asked) = request.adapters
    BY <2>1, <2>2, <2>3, <1>0 DEF MoreToAsk, Full
  <2> QED
    BY <2>1, <2>2, <2>4
       DEF CountInv, SearchTypeOK, Bounded, FailuresAreCounted, Ends
<1> QED
  BY <1>1, <1>2, <1>3, <1>4, <1>5, <1>6, <1>7 DEF SearchNext

----------------------------------------------------------------------------
(* The enrichment of the results *)

Enriched == [record : Records, snippet : Urls \cup {"other", Provider}]

Work == [what : {"passed", "failed", "kept", "grounded"},
         page : Urls \cup {NoUrl}, from : Urls \cup {NoUrl}]

(* The history has an entry for each result that is done, and a snippet    *)
(* that is not the provider's has its page. *)
ResultsAreKept ==
    /\ enriched \in Seq(Enriched)
    /\ work \in Seq(Work)
    /\ Len(work) = Len(enriched)
    /\ Len(enriched) =< Len(merged)
    /\ degraded <=> \E i \in DOMAIN work : work[i].what = "failed"
    /\ \A i \in 1 .. Len(enriched) :
          /\ enriched[i].record = merged[i]
          /\ enriched[i].snippet # Provider =>
                /\ i =< MaxEnriched
                /\ work[i].what = "grounded"
                /\ enriched[i].snippet = work[i].page
                /\ enriched[i].record = work[i].from

SearchIsOver == stage \in {"results", "unavailable", "error", "defect", "ready"}

(* Where the request stands. *)
ServingOK ==
    /\ serving \in {"search", "enrich", "fetch", "complete", "replied", "raised"}
    /\ serving = "search" => enriched = <<>>
    /\ serving # "search" => SearchIsOver
    /\ serving \in {"enrich", "fetch", "complete"} => stage = "results"
    /\ serving \in {"fetch", "complete"} =>
          /\ Turn =< Len(merged) /\ Turn =< MaxEnriched
          /\ StartsAt(merged[Turn])
          /\ fetch = "page" => requests # <<>>
    /\ serving = "complete" => fetch = "page"
    /\ serving = "replied" =>
          /\ stage \notin {"error", "defect"}
          /\ stage = "results" /\ enriching => Len(enriched) = Len(merged)
    /\ serving = "raised" =>
          \/ MalformedRecordSeen \/ stage = "defect"
          \/ fetch = "defect" \/ completion = "broken"

RequestInv == CountInv /\ FetchInv /\ ResultsAreKept /\ ServingOK

LEMMA SameCounts ==
    ASSUME CountInv, UNCHANGED searchVars
    PROVE  CountInv'
BY DEF searchVars, CountInv, SearchTypeOK, Bounded, FailuresAreCounted, Ends,
       MalformedRecordSeen, Range

LEMMA SameFetch ==
    ASSUME FetchInv, UNCHANGED fetchVars
    PROVE  FetchInv'
BY DEF fetchVars, FetchInv, FetchTypeOK, HopsAreChecked, FetchesAreContained

LEMMA SameResults ==
    ASSUME ResultsAreKept, UNCHANGED <<merged, enriched, work, degraded>>
    PROVE  ResultsAreKept'
BY DEF ResultsAreKept

LEMMA ForgetKeepsFetchInv ==
    ASSUME ForgetFetch
    PROVE  FetchInv'
BY NoFetchInv DEF ForgetFetch

LEMMA SizesAreNumbers ==
    ASSUME RequestInv
    PROVE  /\ Len(enriched) \in Nat /\ Len(work) = Len(enriched)
           /\ DOMAIN enriched = 1 .. Len(enriched)
           /\ DOMAIN work = 1 .. Len(work)
           /\ Len(merged) \in Nat /\ DOMAIN merged = 1 .. Len(merged)
           /\ Turn \in Nat \ {0} /\ MaxEnriched \in Nat
           /\ \A i \in 1 .. Len(merged) : merged[i] \in Records /\ merged[i] \in Urls
<1>1. merged \in Seq(Records) /\ enriched \in Seq(Enriched) /\ work \in Seq(Work)
  BY DEF RequestInv, CountInv, SearchTypeOK, ResultsAreKept
<1>2. Len(work) = Len(enriched)
  BY DEF RequestInv, ResultsAreKept
<1> QED
  BY <1>1, <1>2, RequestAssumption DEF Turn

(* One more result is done; its snippet is that of its page, or the        *)
(* provider's. *)
LEMMA FinishKeepsResults ==
    ASSUME RequestInv, Turn =< Len(merged),
           NEW snippet \in Urls \cup {"other", Provider},
           NEW what \in {"passed", "failed", "kept", "grounded"},
           Finish(snippet, what),
           \/ snippet = Provider
           \/ /\ what = "grounded" /\ snippet = current
              /\ Turn =< MaxEnriched
              /\ requests # <<>> /\ requests[1].url = merged[Turn]
    PROVE  ResultsAreKept' /\ serving' = "enrich" /\ UNCHANGED <<searchVars, enriching>>
<1> DEFINE done  == [record |-> merged[Turn], snippet |-> snippet]
           first == IF requests = <<>> THEN NoUrl ELSE requests[1].url
           entry == [what |-> what, page |-> current, from |-> first]
<1>0. /\ Len(enriched) \in Nat /\ Len(work) = Len(enriched)
      /\ DOMAIN work = 1 .. Len(work)
      /\ Len(merged) \in Nat /\ Turn = Len(enriched) + 1
      /\ MaxEnriched \in Nat /\ merged[Turn] \in Records
  BY SizesAreNumbers DEF Turn
<1>1. first \in Urls \cup {NoUrl} /\ current \in Urls \cup {NoUrl}
  <2>1. requests \in Seq(Sent) /\ current \in Urls \cup {NoUrl}
    BY DEF RequestInv, FetchInv, FetchTypeOK
  <2>2. requests # <<>> => requests[1] \in Sent
    BY <2>1
  <2> QED
    BY <2>1, <2>2 DEF Sent
<1>2. done \in Enriched /\ done.record = merged[Turn] /\ done.snippet = snippet
  BY <1>0 DEF Enriched
<1> HIDE DEF first
<1>3. entry \in Work /\ entry.what = what /\ entry.page = current
      /\ entry.from = first
  BY <1>1 DEF Work
<1>4. /\ enriched' = Append(enriched, done) /\ work' = Append(work, entry)
      /\ degraded' = (degraded \/ what = "failed") /\ merged' = merged
      /\ serving' = "enrich" /\ UNCHANGED <<searchVars, enriching>>
  BY DEF Finish, searchVars, first
<1>5. enriched \in Seq(Enriched) /\ work \in Seq(Work)
  BY DEF RequestInv, ResultsAreKept
<1> HIDE DEF done, entry
<1>6. /\ enriched' \in Seq(Enriched) /\ Len(enriched') = Len(enriched) + 1
      /\ \A i \in 1 .. Len(enriched) : enriched'[i] = enriched[i]
      /\ enriched'[Len(enriched) + 1] = done
  BY <1>2, <1>4, <1>5, AppendFacts
<1>7. /\ work' \in Seq(Work) /\ Len(work') = Len(work) + 1
      /\ DOMAIN work' = 1 .. Len(work) + 1
      /\ \A i \in 1 .. Len(work) : work'[i] = work[i]
      /\ work'[Len(work) + 1] = entry
  BY <1>3, <1>4, <1>5, AppendFacts
<1>8. degraded' <=> \E i \in DOMAIN work' : work'[i].what = "failed"
  <2>1. degraded <=> \E i \in DOMAIN work : work[i].what = "failed"
    BY DEF RequestInv, ResultsAreKept
  <2>2. (\E i \in DOMAIN work' : work'[i].what = "failed")
           <=> (\E i \in DOMAIN work : work[i].what = "failed") \/ what = "failed"
    BY <1>0, <1>3, <1>7
  <2> QED
    BY <2>1, <2>2, <1>4, Zenon
<1>9. ASSUME NEW i \in 1 .. Len(enriched')
      PROVE  /\ enriched'[i].record = merged'[i]
             /\ enriched'[i].snippet # Provider =>
                   /\ i =< MaxEnriched
                   /\ work'[i].what = "grounded"
                   /\ enriched'[i].snippet = work'[i].page
                   /\ enriched'[i].record = work'[i].from
  <2>1. CASE i \in 1 .. Len(enriched)
    <3>1. enriched'[i] = enriched[i] /\ work'[i] = work[i]
      BY <2>1, <1>0, <1>6, <1>7
    <3> QED
      BY <2>1, <3>1, <1>4 DEF RequestInv, ResultsAreKept
  <2>2. CASE i = Turn
    <3>1. enriched'[i] = done /\ work'[i] = entry
      BY <2>2, <1>0, <1>6, <1>7
    <3>2. snippet # Provider =>
            first = merged[Turn] /\ what = "grounded" /\ snippet = current
            /\ Turn =< MaxEnriched
      BY DEF first
    <3> QED
      BY <2>2, <3>1, <3>2, <1>2, <1>3, <1>4
  <2> QED
    BY <2>1, <2>2, <1>0, <1>6
<1>10. Len(work') = Len(enriched') /\ Len(enriched') =< Len(merged')
  BY <1>0, <1>4, <1>6, <1>7
<1> QED
  BY <1>4, <1>6, <1>7, <1>8, <1>9, <1>10 DEF ResultsAreKept

(* A result is done and its fetch forgotten: the next one may begin. *)
LEMMA FinishKeepsInv ==
    ASSUME RequestInv, serving \in {"enrich", "fetch", "complete"},
           ResultsAreKept', serving' = "enrich", FetchInv',
           UNCHANGED <<searchVars, enriching>>
    PROVE  RequestInv'
<1>1. CountInv'
  BY SameCounts DEF RequestInv
<1>2. stage = "results" /\ stage' = stage
  BY DEF RequestInv, ServingOK, searchVars
<1>3. ServingOK'
  BY <1>2 DEF ServingOK, SearchIsOver
<1> QED
  BY <1>1, <1>3 DEF RequestInv

LEMMA RequestStepKeepsInv ==
    ASSUME RequestInv, Next
    PROVE  RequestInv'
<1>0. CountInv /\ FetchInv /\ ResultsAreKept /\ ServingOK
  BY DEF RequestInv
<1> USE <1>0
<1>1. CASE SearchStep
  <2>1. CountInv' /\ serving = "search"
    BY <1>1, SearchStepKeepsCounts DEF SearchStep
  <2>2. FetchInv'
    BY <1>1, SameFetch DEF SearchStep
  <2>3. enriched = <<>> /\ UNCHANGED <<enriched, work, degraded, serving>>
    BY <1>1, <2>1 DEF ServingOK, SearchStep, requestVars
  <2>4. ResultsAreKept'
    <3>1. Len(enriched) = 0 /\ Len(merged') \in Nat
      BY <2>1, <2>3 DEF CountInv, SearchTypeOK
    <3> QED
      BY <2>3, <3>1 DEF ResultsAreKept
  <2>5. ServingOK'
    BY <2>1, <2>3 DEF ServingOK
  <2> QED
    BY <2>1, <2>2, <2>4, <2>5 DEF RequestInv
<1>2. CASE EndOfSearch
  <2>1. /\ serving = "search" /\ SearchIsOver
        /\ serving' = IF stage \in {"error", "defect"} THEN "raised"
                      ELSE IF stage = "results" /\ enriching THEN "enrich"
                      ELSE "replied"
        /\ UNCHANGED <<searchVars, fetchVars, completionVars, enriching,
                       enriched, degraded, work>>
    BY <1>2 DEF EndOfSearch, SearchIsOver
  <2>2. CountInv' /\ FetchInv' /\ ResultsAreKept'
    BY <2>1, SameCounts, SameFetch, SameResults DEF searchVars
  <2>3. UNCHANGED <<stage, enriching>>
    BY <2>1 DEF searchVars
  <2>4. stage = "error" => MalformedRecordSeen'
    BY <2>2, <2>3 DEF CountInv, Ends
  <2>5. ServingOK'
    BY <2>1, <2>3, <2>4 DEF ServingOK, SearchIsOver
  <2> QED
    BY <2>2, <2>5 DEF RequestInv
<1>3. CASE PassResult
  <2>1. /\ serving = "enrich" /\ Turn =< Len(merged)
        /\ Finish(Provider, "passed") /\ UNCHANGED fetchVars
    BY <1>3 DEF PassResult
  <2>2. /\ ResultsAreKept' /\ serving' = "enrich"
        /\ UNCHANGED <<searchVars, enriching>>
    BY <2>1, FinishKeepsResults
  <2> QED
    BY <2>1, <2>2, SameFetch, FinishKeepsInv
<1>4. CASE FetchResult
  <2>1. /\ serving = "enrich" /\ serving' = "fetch"
        /\ Turn =< MaxEnriched /\ Turn =< Len(merged)
        /\ fetch' = "resolve" /\ current' = merged[Turn]
        /\ pin' = 0 /\ requests' = <<>>
        /\ UNCHANGED <<searchVars, completionVars, enriching, enriched,
                       degraded, work>>
    BY <1>4 DEF FetchResult, BeginFetch
  <2>2. merged[Turn] \in Urls
    BY <2>1, SizesAreNumbers
  <2>3. FetchInv'
    BY <2>1, <2>2, NoFetchInv
  <2>4. CountInv' /\ ResultsAreKept'
    BY <2>1, SameCounts, SameResults DEF searchVars
  <2>5. stage = "results" /\ UNCHANGED <<stage, merged, Turn>>
    BY <2>1 DEF ServingOK, searchVars, Turn
  <2>6. ServingOK'
    BY <2>1, <2>5 DEF ServingOK, SearchIsOver, StartsAt
  <2> QED
    BY <2>3, <2>4, <2>6 DEF RequestInv
<1>5. CASE FetchStep
  <2>1. /\ serving = "fetch" /\ FetchNext
        /\ UNCHANGED <<searchVars, completionVars, requestVars>>
    BY <1>5 DEF FetchStep
  <2>2. /\ FetchInv'
        /\ StartsAt(merged[Turn]) => StartsAt(merged[Turn])'
        /\ fetch' = "page" => requests' # <<>>
    <3>1. UNCHANGED <<merged, Turn>>
      BY <2>1 DEF searchVars, requestVars, Turn
    <3> QED
      BY <2>1, <3>1, StepKeepsFetchInv DEF StartsAt
  <2>3. CountInv' /\ ResultsAreKept'
    BY <2>1, SameCounts, SameResults DEF searchVars, requestVars
  <2>4. UNCHANGED <<stage, merged, Turn, serving, enriching>>
    BY <2>1 DEF searchVars, requestVars, Turn
  <2>5. ServingOK'
    BY <2>1, <2>2, <2>4 DEF ServingOK, SearchIsOver
  <2> QED
    BY <2>2, <2>3, <2>5 DEF RequestInv
<1>6. CASE PageUnavailable \/ ModelUnavailable
  <2>1. /\ serving \in {"fetch", "complete"}
        /\ Finish(Provider, "failed") /\ ForgetFetch
    BY <1>6 DEF PageUnavailable, ModelUnavailable
  <2>2. Turn =< Len(merged)
    BY <2>1 DEF ServingOK
  <2>3. /\ ResultsAreKept' /\ serving' = "enrich"
        /\ UNCHANGED <<searchVars, enriching>>
    BY <2>1, <2>2, FinishKeepsResults
  <2> QED
    BY <2>1, <2>3, ForgetKeepsFetchInv, FinishKeepsInv
<1>7. CASE AskModel
  <2>1. /\ serving = "fetch" /\ fetch = "page" /\ serving' = "complete"
        /\ UNCHANGED <<searchVars, fetchVars, enriching, enriched, degraded,
                       work>>
    BY <1>7 DEF AskModel
  <2>2. CountInv' /\ FetchInv' /\ ResultsAreKept'
    BY <2>1, SameCounts, SameFetch, SameResults DEF searchVars
  <2>3. UNCHANGED <<stage, merged, Turn, fetch, current, requests, enriching>>
    BY <2>1 DEF searchVars, fetchVars, Turn
  <2>4. ServingOK'
    BY <2>1, <2>3 DEF ServingOK, SearchIsOver, StartsAt
  <2> QED
    BY <2>2, <2>4 DEF RequestInv
<1>8. CASE CompletionStep
  <2>1. /\ serving = "complete" /\ UNCHANGED <<searchVars, fetchVars, requestVars>>
    BY <1>8 DEF CompletionStep
  <2>2. CountInv' /\ FetchInv' /\ ResultsAreKept'
    BY <2>1, SameCounts, SameFetch, SameResults DEF searchVars, requestVars
  <2>3. UNCHANGED <<stage, merged, Turn, fetch, current, requests, enriching,
                    serving>>
    BY <2>1 DEF searchVars, fetchVars, requestVars, Turn
  <2>4. ServingOK'
    BY <2>1, <2>3 DEF ServingOK, SearchIsOver, StartsAt
  <2> QED
    BY <2>2, <2>4 DEF RequestInv
<1>9. CASE UseExcerpt
  <2>1. serving = "complete" /\ ForgetFetch
    BY <1>9 DEF UseExcerpt
  <2>2. PICK excerpt \in Urls \cup {"other"} :
          \/ excerpt = current /\ Finish(excerpt, "grounded")
          \/ Finish(Provider, "kept")
    BY <1>9 DEF UseExcerpt, Grounded
  <2>3. /\ Turn =< Len(merged) /\ Turn =< MaxEnriched
        /\ requests # <<>> /\ requests[1].url = merged[Turn]
    BY <2>1 DEF ServingOK, StartsAt
  <2>4. /\ ResultsAreKept' /\ serving' = "enrich"
        /\ UNCHANGED <<searchVars, enriching>>
    BY <2>2, <2>3, FinishKeepsResults
  <2> QED
    BY <2>1, <2>4, ForgetKeepsFetchInv, FinishKeepsInv
<1>10. CASE EnrichmentRaises
  <2>1. /\ fetch = "defect" \/ completion = "broken"
        /\ serving \in {"fetch", "complete"} /\ serving' = "raised"
        /\ UNCHANGED <<searchVars, fetchVars, completionVars, enriching,
                       enriched, degraded, work>>
    BY <1>10 DEF EnrichmentRaises
  <2>2. CountInv' /\ FetchInv' /\ ResultsAreKept'
    BY <2>1, SameCounts, SameFetch, SameResults DEF searchVars
  <2>3. UNCHANGED <<stage, fetch, completion>>
    BY <2>1 DEF searchVars, fetchVars, completionVars
  <2>4. ServingOK'
    BY <2>1, <2>3 DEF ServingOK, SearchIsOver
  <2> QED
    BY <2>2, <2>4 DEF RequestInv
<1>11. CASE EndOfEnrichment
  <2>1. /\ serving = "enrich" /\ Turn > Len(merged) /\ serving' = "replied"
        /\ UNCHANGED <<searchVars, fetchVars, completionVars, enriching,
                       enriched, degraded, work>>
    BY <1>11 DEF EndOfEnrichment
  <2>2. CountInv' /\ FetchInv' /\ ResultsAreKept'
    BY <2>1, SameCounts, SameFetch, SameResults DEF searchVars
  <2>3. Len(enriched) = Len(merged)
    <3>1. Len(enriched) =< Len(merged)
      BY DEF ResultsAreKept
    <3>2. Len(enriched) \in Nat /\ Len(merged) \in Nat
      BY SizesAreNumbers
    <3>3. Len(enriched) + 1 > Len(merged)
      BY <2>1 DEF Turn
    <3> QED
      BY <3>1, <3>2, <3>3
  <2>4. UNCHANGED <<stage, merged>> /\ stage = "results"
    BY <2>1 DEF searchVars, ServingOK
  <2>5. ServingOK'
    BY <2>1, <2>3, <2>4 DEF ServingOK, SearchIsOver
  <2> QED
    BY <2>2, <2>5 DEF RequestInv
<1>12. CASE Over
  <2>1. UNCHANGED <<searchVars, fetchVars, completionVars, requestVars>>
    BY <1>12 DEF Over, vars
  <2>2. CountInv' /\ FetchInv' /\ ResultsAreKept'
    BY <2>1, SameCounts, SameFetch, SameResults DEF searchVars, requestVars
  <2>3. ServingOK'
    BY <2>1 DEF ServingOK, SearchIsOver, StartsAt, Turn, MalformedRecordSeen,
                Range, searchVars, fetchVars, completionVars, requestVars
  <2> QED
    BY <2>2, <2>3 DEF RequestInv
<1> QED
  BY <1>1, <1>2, <1>3, <1>4, <1>5, <1>6, <1>7, <1>8, <1>9, <1>10, <1>11, <1>12
     DEF Next

LEMMA RequestInvInitially == Init => RequestInv
<1> SUFFICES ASSUME Init
             PROVE  RequestInv
  OBVIOUS
<1>1. /\ request \in Requests /\ stage = "ask" /\ failures = 0
      /\ raw = <<>> /\ batch = <<>> /\ merged = <<>> /\ warned = FALSE
      /\ asked = <<>>
  BY DEF Init, SearchInit
<1>2. /\ SearchTypeOK /\ Len(asked) = 0 /\ Len(merged) = 0 /\ DOMAIN asked = {}
  <2>1. \A S : <<>> \in Seq(S)
    OBVIOUS
  <2>2. Len(asked) = 0 /\ Len(merged) = 0 /\ DOMAIN asked = {}
    BY <1>1
  <2> QED
    BY <1>1, <2>1, <2>2 DEF SearchTypeOK
<1>3. request.adapters \in Nat /\ request.limit \in Nat
  BY <1>2, RequestTypes
<1>4. Bounded /\ FailuresAreCounted /\ Ends
  BY <1>1, <1>2, <1>3 DEF Bounded, FailuresAreCounted, Ends
<1>5. FetchInv
  <2>1. /\ fetch = "idle" /\ current = NoUrl /\ pin = 0 /\ requests = <<>>
    BY DEF Init, FetchInit
  <2>2. Len(requests) = 0 /\ requests \in Seq(Sent) /\ DOMAIN requests = {}
    BY <2>1
  <2> QED
    BY <2>1, <2>2, FetchAssumption
       DEF FetchInv, FetchTypeOK, HopsAreChecked, FetchesAreContained
<1>6. /\ serving = "search" /\ enriched = <<>> /\ work = <<>> /\ degraded = FALSE
  BY DEF Init
<1>7. ResultsAreKept
  <2>1. /\ enriched \in Seq(Enriched) /\ work \in Seq(Work)
        /\ Len(enriched) = 0 /\ Len(work) = 0 /\ DOMAIN work = {}
    BY <1>6
  <2> QED
    BY <2>1, <1>2, <1>6 DEF ResultsAreKept
<1>8. ServingOK
  BY <1>6 DEF ServingOK
<1> QED
  BY <1>2, <1>4, <1>5, <1>7, <1>8 DEF RequestInv, CountInv

(* The inductive invariant of a request: what its search has counted, what *)
(* its fetch has checked, and the history of its results. *)
THEOREM RequestInvariant == Spec => []RequestInv
<1>1. ASSUME RequestInv, [Next]_vars
      PROVE  RequestInv'
  <2>1. CASE UNCHANGED vars
    <3>2. UNCHANGED <<searchVars, fetchVars, completionVars, requestVars>>
      BY <2>1 DEF vars
    <3>3. CountInv' /\ FetchInv' /\ ResultsAreKept'
      BY <1>1, <3>2, SameCounts, SameFetch, SameResults
         DEF RequestInv, searchVars, requestVars
    <3>4. ServingOK'
      BY <1>1, <3>2
         DEF RequestInv, ServingOK, SearchIsOver, StartsAt, Turn,
             MalformedRecordSeen, Range, searchVars, fetchVars, completionVars,
             requestVars
    <3> QED
      BY <3>3, <3>4 DEF RequestInv
  <2> QED
    BY <2>1, <1>1, RequestStepKeepsInv
<1> QED
  BY <1>1, RequestInvInitially, PTL DEF Spec

(* Whatever names resolve to and wherever servers redirect, the fetches of *)
(* a request are bounded, avoid blocked addresses and never repeat a url   *)
(* (_follow, _resolve_and_vet, _fetch_once). *)
THEOREM FetchesStayContained == Spec => []FetchesAreContained
BY RequestInvariant, PTL DEF RequestInv, FetchInv

(* No snippet is fabricated: one that is not the provider's is a piece of  *)
(* the page its own result led to, and no result is lost or moved          *)
(* (SnippetEnricher.enrich, _enrich_one, _is_grounded). *)
THEOREM SnippetsStayGrounded == Spec => []SnippetsAreGrounded
<1>1. RequestInv => SnippetsAreGrounded
  <2> SUFFICES ASSUME RequestInv
               PROVE  SnippetsAreGrounded
    OBVIOUS
  <2>1. DOMAIN enriched = 1 .. Len(enriched)
    BY SizesAreNumbers
  <2> QED
    BY <2>1 DEF RequestInv, ResultsAreKept, ServingOK, SnippetsAreGrounded
<1> QED
  BY <1>1, RequestInvariant, PTL

(* The client is told of every failure, and of nothing else: 503, the      *)
(* provider warning, the enrichment warning and the uncaught exceptions    *)
(* each have their cause (main.search, SearchOrchestrator.run, enrich). *)
THEOREM FailuresAreTold == Spec => []DegradationIsTold
<1>1. RequestInv => DegradationIsTold
  <2> SUFFICES ASSUME RequestInv
               PROVE  DegradationIsTold
    OBVIOUS
  <2> DEFINE failed == {i \in DOMAIN asked : asked[i].failed}
  <2>0. CountInv /\ ServingOK
    BY DEF RequestInv
  <2>1. /\ Len(asked) \in Nat /\ DOMAIN asked = 1 .. Len(asked)
        /\ request.adapters \in Nat /\ failures \in Nat
        /\ Len(asked) =< request.adapters
    BY <2>0, RequestTypes DEF CountInv, Bounded
  <2>2. failures > 0 <=> failed # {}
    BY <2>0 DEF CountInv, FailuresAreCounted
  <2>3. (failures = Len(asked) /\ Len(asked) = request.adapters)
           <=> failed = 1 .. request.adapters
    <3>1. failures = Len(asked) <=> \A i \in DOMAIN asked : asked[i].failed
      BY <2>0 DEF CountInv, FailuresAreCounted
    <3>2. failures = Len(asked) <=> failed = DOMAIN asked
      BY <3>1
    <3>3. CASE failed = 1 .. request.adapters
      <4>1. 1 .. request.adapters \subseteq 1 .. Len(asked)
        BY <3>3, <2>1
      <4>2. Len(asked) = request.adapters
        <5>1. CASE request.adapters = 0
          BY <5>1, <2>1
        <5>2. CASE request.adapters # 0
          <6>1. request.adapters \in 1 .. request.adapters
            BY <5>2, <2>1
          <6>2. request.adapters \in 1 .. Len(asked)
            BY <6>1, <4>1
          <6> QED
            BY <6>2, <2>1
        <5> QED
          BY <5>1, <5>2
      <4> QED
        BY <3>2, <3>3, <4>2, <2>1
    <3> QED
      BY <3>2, <3>3, <2>1
  <2>4. serving = "replied" =>
          /\ stage = "unavailable" <=> failed = 1 .. request.adapters
          /\ stage = "results" => (warned <=> failed # {})
    <3> SUFFICES ASSUME serving = "replied"
                 PROVE  /\ stage = "unavailable" <=> failed = 1 .. request.adapters
                        /\ stage = "results" => (warned <=> failed # {})
      OBVIOUS
    <3> HIDE DEF failed
    <3>1. stage \in {"results", "unavailable", "ready"}
      BY <2>0 DEF ServingOK, SearchIsOver
    <3>2. /\ stage = "unavailable" =>
                failures = Len(asked) /\ Len(asked) = request.adapters
          /\ stage = "results" =>
                failures # request.adapters /\ (warned <=> failures > 0)
          /\ stage = "ready" => failures # Len(asked)
      BY <2>0 DEF CountInv, Ends
    <3>3. stage = "unavailable" <=> failed = 1 .. request.adapters
      BY <3>1, <3>2, <2>3
    <3>4. stage = "results" => (warned <=> failed # {})
      BY <3>2, <2>2, Zenon
    <3> QED
      BY <3>3, <3>4
  <2>5. degraded <=> \E i \in DOMAIN work : work[i].what = "failed"
    BY DEF RequestInv, ResultsAreKept
  <2>6. serving = "raised" =>
          \/ MalformedRecordSeen \/ stage = "defect"
          \/ fetch = "defect" \/ completion = "broken"
    BY <2>0 DEF ServingOK
  <2> QED
    BY <2>4, <2>5, <2>6, Zenon DEF DegradationIsTold, MalformedRecordSeen
<1> QED
  BY <1>1, RequestInvariant, PTL

----------------------------------------------------------------------------
(* Counting the urls of a list *)

Values(f, n) == {f[b] : b \in 1 .. n}

(* A set whose elements are all among f[1], ..., f[n] has at most n. *)
LEMMA AtMost ==
    ASSUME NEW n \in Nat, NEW f, NEW T, T \subseteq Values(f, n)
    PROVE  IsFiniteSet(T) /\ Cardinality(T) \in Nat /\ Cardinality(T) =< n
<1> DEFINE B == {b \in 1 .. n : f[b] \in T}
           g == [b \in B |-> f[b]]
<1>1. IsFiniteSet(1 .. n) /\ Cardinality(1 .. n) = n
  <2>1. Cardinality(1 .. n) = IF 1 > n THEN 0 ELSE n - 1 + 1
    BY FS_Interval
  <2>2. IsFiniteSet(1 .. n)
    BY FS_Interval
  <2> QED
    BY <2>1, <2>2
<1>2. B \in SUBSET (1 .. n)
  OBVIOUS
<1>3. IsFiniteSet(B) /\ Cardinality(B) =< n
  <2> HIDE DEF B
  <2> QED
    BY <1>1, <1>2, FS_Subset
<1>4. g \in Surjection(B, T)
  BY DEF Surjection, Values
<1>5. Cardinality(B) \in Nat
  <2> HIDE DEF B
  <2> QED
    BY <1>3, FS_CardinalityType
<1> HIDE DEF B, g
<1>6. IsFiniteSet(T) /\ Cardinality(T) =< Cardinality(B)
  BY <1>3, <1>4, FS_Surjection
<1>7. Cardinality(T) \in Nat
  BY <1>6, FS_CardinalityType
<1> QED
  BY <1>3, <1>5, <1>6, <1>7

(* A finite set that contains the distinct f[1], ..., f[n] has at least n. *)
LEMMA AtLeast ==
    ASSUME NEW n \in Nat, NEW f, NEW T, IsFiniteSet(T),
           \A b \in 1 .. n : f[b] \in T,
           \A b, c \in 1 .. n : f[b] = f[c] => b = c
    PROVE  Cardinality(T) >= n
<1> DEFINE g == [b \in 1 .. n |-> f[b]]
<1>1. g \in Injection(1 .. n, T)
  BY DEF Injection, IsInjective
<1>2. Cardinality(1 .. n) = n
  <2>1. Cardinality(1 .. n) = IF 1 > n THEN 0 ELSE n - 1 + 1
    BY FS_Interval
  <2> QED
    BY <2>1
<1>3. Cardinality(T) \in Nat
  BY FS_CardinalityType
<1> HIDE DEF g
<1>4. Cardinality(1 .. n) =< Cardinality(T)
  BY <1>1, FS_Injection
<1> QED
  BY <1>2, <1>3, <1>4

LEMMA LastOfMore ==
    ASSUME NEW m \in Nat
    PROVE  \A j \in 1 .. m + 1 : j \in 1 .. m \/ j = m + 1
  OBVIOUS

ValidIn(list, k) == k \in 1 .. Len(list) /\ Quality[list[k]] = "valid"

KeysBefore(list, k) ==
    {RawKey[list[i]] : i \in {i \in 1 .. k - 1 : Quality[list[i]] = "valid"}}

(* Place k of a list is one its adapter reads: fewer than max_results urls *)
(* come before it, and its own does not. *)
ReadIn(list, k, limit) ==
    /\ ValidIn(list, k)
    /\ RawKey[list[k]] \notin KeysBefore(list, k)
    /\ ~ (Cardinality(KeysBefore(list, k)) >= limit)

(* A list holds the urls of what came before a place, and no more of them  *)
(* than that: as long as it is not full, the place is read. *)
LEMMA ReadWhileNotFull ==
    ASSUME NEW list \in Seq(Records), NEW k \in 1 .. Len(list),
           Quality[list[k]] = "valid",
           NEW limit \in Nat, NEW kept \in Seq(Records), Len(kept) < limit,
           \A b \in 1 .. Len(kept) : RawKey[kept[b]] # RawKey[list[k]],
           \A i \in 1 .. k - 1 : ValidIn(list, i) =>
               \E b \in 1 .. Len(kept) : RawKey[kept[b]] = RawKey[list[i]]
    PROVE  ReadIn(list, k, limit)
<1>1. Len(kept) \in Nat
  OBVIOUS
<1>2. PICK f : \A b \in 1 .. Len(kept) : f[b] = RawKey[kept[b]]
  <2>1. \A b \in 1 .. Len(kept) :
           [c \in 1 .. Len(kept) |-> RawKey[kept[c]]][b] = RawKey[kept[b]]
    OBVIOUS
  <2> QED
    BY <2>1
<1>3. KeysBefore(list, k) \subseteq Values(f, Len(kept))
  <2>1. \A t \in KeysBefore(list, k) : \E b \in 1 .. Len(kept) : f[b] = t
    BY <1>2 DEF KeysBefore, ValidIn
  <2> QED
    BY <2>1 DEF Values
<1>4. /\ Cardinality(KeysBefore(list, k)) \in Nat
      /\ Cardinality(KeysBefore(list, k)) =< Len(kept)
  BY <1>1, <1>3, AtMost
<1>5. RawKey[list[k]] \notin KeysBefore(list, k)
  <2>1. \A i \in 1 .. k - 1 : Quality[list[i]] = "valid" =>
           RawKey[list[i]] # RawKey[list[k]]
    <3>1. \A i \in 1 .. k - 1 : i \in 1 .. Len(list)
      OBVIOUS
    <3> QED
      BY <3>1 DEF ValidIn
  <2> QED
    BY <2>1 DEF KeysBefore
<1>6. ~ (Cardinality(KeysBefore(list, k)) >= limit)
  BY <1>1, <1>4
<1> QED
  BY <1>5, <1>6 DEF ReadIn, ValidIn

(* Once it is full of distinct urls, nothing that follows them is read. *)
LEMMA NotReadOnceFull ==
    ASSUME NEW list \in Seq(Records), NEW k \in 1 .. Len(list),
           NEW kept \in Seq(Records), NEW at,
           \A b \in 1 .. Len(kept) :
               ValidIn(list, at[b]) /\ at[b] < k /\ list[at[b]] = kept[b],
           \A b, c \in 1 .. Len(kept) :
               b < c => RawKey[kept[b]] # RawKey[kept[c]]
    PROVE  ~ ReadIn(list, k, Len(kept))
<1>1. Len(kept) \in Nat /\ Len(list) \in Nat
  OBVIOUS
<1>2. IsFiniteSet(KeysBefore(list, k)) /\ Cardinality(KeysBefore(list, k)) \in Nat
  <2>1. Len(list) \in Nat
    OBVIOUS
  <2>2. PICK g : \A i \in 1 .. Len(list) : g[i] = RawKey[list[i]]
    <3>1. \A i \in 1 .. Len(list) :
             [l \in 1 .. Len(list) |-> RawKey[list[l]]][i] = RawKey[list[i]]
      OBVIOUS
    <3> QED
      BY <3>1
  <2>3. KeysBefore(list, k) \subseteq Values(g, Len(list))
    BY <2>1, <2>2 DEF KeysBefore, Values
  <2> QED
    BY <2>1, <2>3, AtMost
<1>3. PICK f : \A b \in 1 .. Len(kept) : f[b] = RawKey[kept[b]]
  <2>1. \A b \in 1 .. Len(kept) :
           [c \in 1 .. Len(kept) |-> RawKey[kept[c]]][b] = RawKey[kept[b]]
    OBVIOUS
  <2> QED
    BY <2>1
<1>4. \A b \in 1 .. Len(kept) : f[b] \in KeysBefore(list, k)
  <2> SUFFICES ASSUME NEW b \in 1 .. Len(kept)
               PROVE  f[b] \in KeysBefore(list, k)
    OBVIOUS
  <2>1. /\ at[b] \in 1 .. Len(list) /\ Quality[list[at[b]]] = "valid"
        /\ at[b] < k /\ list[at[b]] = kept[b]
    BY DEF ValidIn
  <2>2. at[b] \in 1 .. k - 1
    BY <2>1, <1>1
  <2>3. RawKey[list[at[b]]] \in KeysBefore(list, k)
    BY <2>1, <2>2 DEF KeysBefore
  <2> QED
    BY <2>1, <2>3, <1>3
<1>5. \A b, c \in 1 .. Len(kept) : f[b] = f[c] => b = c
  BY <1>1, <1>3
<1>6. Cardinality(KeysBefore(list, k)) >= Len(kept)
  BY <1>1, <1>2, <1>4, <1>5, AtLeast
<1> QED
  BY <1>6 DEF ReadIn

(* The results kept of a list: result b is the record at place at[b]. *)
Chosen(list, kept, at, limit) ==
    /\ at \in [Nat -> Nat]
    /\ \A b \in 1 .. Len(kept) :
          ReadIn(list, at[b], limit) /\ list[at[b]] = kept[b]
    /\ \A b, c \in 1 .. Len(kept) :
          b < c => at[b] < at[c] /\ RawKey[kept[b]] # RawKey[kept[c]]

(* One of them is of the url of place k, and does not come after it. *)
Covered(list, kept, at, k) ==
    \E b \in 1 .. Len(kept) : RawKey[kept[b]] = RawKey[list[k]] /\ at[b] =< k

(* One more record is kept: it is valid and none before it has its url. *)
LEMMA ChooseOneMore ==
    ASSUME NEW list \in Seq(Records), NEW limit \in Nat,
           NEW kept \in Seq(Records), Len(kept) < limit,
           NEW at, Chosen(list, kept, at, limit),
           NEW k \in 1 .. Len(list), Quality[list[k]] = "valid",
           \A b \in 1 .. Len(kept) : at[b] < k,
           \A b \in 1 .. Len(kept) : RawKey[kept[b]] # RawKey[list[k]],
           \A i \in 1 .. k - 1 : ValidIn(list, i) => Covered(list, kept, at, i)
    PROVE  LET more == Append(kept, list[k])
               new  == [at EXCEPT ![Len(kept) + 1] = k]
           IN  /\ Chosen(list, more, new, limit)
               /\ \A b \in 1 .. Len(more) : new[b] =< k
               /\ \A i \in 1 .. k :
                     ValidIn(list, i) => Covered(list, more, new, i)
<1> DEFINE more == Append(kept, list[k])
           new  == [at EXCEPT ![Len(kept) + 1] = k]
<1>1. Len(list) \in Nat /\ Len(kept) \in Nat /\ k \in Nat /\ list[k] \in Records
  OBVIOUS
<1>2. at \in [Nat -> Nat]
  BY DEF Chosen
<1>3. /\ Len(more) = Len(kept) + 1 /\ more[Len(kept) + 1] = list[k]
      /\ \A b \in 1 .. Len(kept) : more[b] = kept[b]
  BY <1>1, AppendFacts
<1>4. /\ new \in [Nat -> Nat] /\ new[Len(kept) + 1] = k
      /\ \A b \in 1 .. Len(kept) : new[b] = at[b]
  <2>1. Len(kept) + 1 \in Nat /\ \A b \in 1 .. Len(kept) : b \in Nat /\ b # Len(kept) + 1
    BY <1>1
  <2> QED
    BY <1>1, <1>2, <2>1
<1> HIDE DEF more, new
<1>5. \A b \in 1 .. Len(more) : b \in 1 .. Len(kept) \/ b = Len(kept) + 1
  BY <1>1, <1>3
<1>6. ReadIn(list, k, limit)
  BY ReadWhileNotFull DEF Covered
<1>7. \A b \in 1 .. Len(kept) : at[b] \in Nat
  BY <1>1, <1>2
<1>8. Chosen(list, more, new, limit)
  <2>1. \A b \in 1 .. Len(more) :
           ReadIn(list, new[b], limit) /\ list[new[b]] = more[b]
    BY <1>3, <1>4, <1>5, <1>6 DEF Chosen
  <2>2. ASSUME NEW b \in 1 .. Len(more), NEW c \in 1 .. Len(more), b < c
        PROVE  new[b] < new[c] /\ RawKey[more[b]] # RawKey[more[c]]
    <3>1. b \in 1 .. Len(kept)
      BY <1>1, <1>3, <2>2
    <3>2. CASE c \in 1 .. Len(kept)
      <4>1. at[b] < at[c] /\ RawKey[kept[b]] # RawKey[kept[c]]
        BY <3>1, <3>2, <2>2 DEF Chosen
      <4>2. new[b] = at[b] /\ more[b] = kept[b]
        BY <3>1, <1>3, <1>4
      <4>3. new[c] = at[c] /\ more[c] = kept[c]
        BY <3>2, <1>3, <1>4
      <4> QED
        BY <4>1, <4>2, <4>3
    <3>3. CASE c = Len(kept) + 1
      BY <3>1, <3>3, <1>3, <1>4
    <3> QED
      BY <3>2, <3>3, <1>5
  <2>3. \A b, c \in 1 .. Len(more) :
           b < c => new[b] < new[c] /\ RawKey[more[b]] # RawKey[more[c]]
    BY <2>2
  <2> QED
    BY <2>1, <2>3, <1>4 DEF Chosen
<1>9. ASSUME NEW b \in 1 .. Len(more)
      PROVE  new[b] =< k
  <2>1. CASE b \in 1 .. Len(kept)
    <3>1. new[b] = at[b] /\ at[b] < k /\ at[b] \in Nat
      BY <2>1, <1>4, <1>7
    <3> QED
      BY <3>1, <1>1
  <2>2. CASE b = Len(kept) + 1
    BY <2>2, <1>1, <1>4
  <2> QED
    BY <2>1, <2>2, <1>5
<1>10. ASSUME NEW i \in 1 .. k, ValidIn(list, i)
       PROVE  Covered(list, more, new, i)
  <2>1. CASE i = k
    <3>1. Len(kept) + 1 \in 1 .. Len(more)
      BY <1>1, <1>3
    <3> QED
      BY <3>1, <2>1, <1>1, <1>3, <1>4, <1>9 DEF Covered
  <2>2. CASE i # k
    <3>1. PICK b \in 1 .. Len(kept) : RawKey[kept[b]] = RawKey[list[i]] /\ at[b] =< i
      BY <2>2, <1>1, <1>10 DEF Covered
    <3>2. b \in 1 .. Len(more)
      BY <1>1, <1>3
    <3> QED
      BY <3>1, <3>2, <1>3, <1>4 DEF Covered
  <2> QED
    BY <2>1, <2>2
<1> QED
  BY <1>8, <1>9, <1>10 DEF more, new

(* The first of the records kept is taken away. *)
LEMMA ChosenTail ==
    ASSUME NEW list \in Seq(Records), NEW limit \in Nat,
           NEW kept \in Seq(Records), kept # <<>>,
           NEW at, Chosen(list, kept, at, limit),
           NEW rest, rest \in [Nat -> Nat], \A n \in Nat : rest[n] = at[n + 1]
    PROVE  /\ Chosen(list, Tail(kept), rest, limit)
           /\ \A b \in 1 .. Len(Tail(kept)) : at[1] < rest[b]
           /\ \A k \in Nat : Covered(list, kept, at, k) =>
                 \/ RawKey[kept[1]] = RawKey[list[k]] /\ at[1] =< k
                 \/ Covered(list, Tail(kept), rest, k)
<1>1. /\ Len(kept) \in Nat \ {0}
      /\ Len(Tail(kept)) = Len(kept) - 1
      /\ \A i \in 1 .. Len(kept) - 1 : Tail(kept)[i] = kept[i + 1]
  BY TailFacts
<1>2. /\ \A b \in 1 .. Len(kept) :
            ReadIn(list, at[b], limit) /\ list[at[b]] = kept[b]
      /\ \A b, c \in 1 .. Len(kept) :
            b < c => at[b] < at[c] /\ RawKey[kept[b]] # RawKey[kept[c]]
      /\ at \in [Nat -> Nat]
  BY DEF Chosen
<1>3. \A b \in 1 .. Len(Tail(kept)) :
         /\ b \in Nat /\ b + 1 \in 1 .. Len(kept) /\ 1 < b + 1
         /\ rest[b] = at[b + 1] /\ Tail(kept)[b] = kept[b + 1]
  <2> SUFFICES ASSUME NEW b \in 1 .. Len(Tail(kept))
               PROVE  /\ b \in Nat /\ b + 1 \in 1 .. Len(kept) /\ 1 < b + 1
                      /\ rest[b] = at[b + 1] /\ Tail(kept)[b] = kept[b + 1]
    OBVIOUS
  <2>1. b \in 1 .. Len(kept) - 1 /\ b \in Nat
    BY <1>1
  <2>2. b + 1 \in 1 .. Len(kept) /\ 1 < b + 1
    BY <2>1, <1>1
  <2> QED
    BY <2>1, <2>2, <1>1
<1>4. ASSUME NEW b \in 1 .. Len(Tail(kept)), NEW c \in 1 .. Len(Tail(kept)), b < c
      PROVE  rest[b] < rest[c] /\ RawKey[Tail(kept)[b]] # RawKey[Tail(kept)[c]]
  <2>1. b + 1 < c + 1
    BY <1>4, <1>3
  <2>2. at[b + 1] < at[c + 1] /\ RawKey[kept[b + 1]] # RawKey[kept[c + 1]]
    BY <2>1, <1>2, <1>3
  <2>3. /\ rest[b] = at[b + 1] /\ Tail(kept)[b] = kept[b + 1]
        /\ rest[c] = at[c + 1] /\ Tail(kept)[c] = kept[c + 1]
    BY <1>3
  <2> QED
    BY <2>2, <2>3
<1>5. \A b \in 1 .. Len(Tail(kept)) :
         ReadIn(list, rest[b], limit) /\ list[rest[b]] = Tail(kept)[b]
  BY <1>2, <1>3
<1>6. Chosen(list, Tail(kept), rest, limit)
  <2>1. \A b, c \in 1 .. Len(Tail(kept)) :
           b < c => rest[b] < rest[c] /\ RawKey[Tail(kept)[b]] # RawKey[Tail(kept)[c]]
    BY <1>4
  <2> QED
    BY <2>1, <1>5 DEF Chosen
<1>7. \A b \in 1 .. Len(Tail(kept)) : at[1] < rest[b]
  <2> SUFFICES ASSUME NEW b \in 1 .. Len(Tail(kept))
               PROVE  at[1] < rest[b]
    OBVIOUS
  <2>1. 1 \in 1 .. Len(kept)
    BY <1>1
  <2>2. b + 1 \in 1 .. Len(kept) /\ 1 < b + 1 /\ rest[b] = at[b + 1]
    BY <1>3
  <2> QED
    BY <2>1, <2>2, <1>2
<1>8. ASSUME NEW k \in Nat, Covered(list, kept, at, k)
      PROVE  \/ RawKey[kept[1]] = RawKey[list[k]] /\ at[1] =< k
             \/ Covered(list, Tail(kept), rest, k)
  <2>1. PICK b \in 1 .. Len(kept) : RawKey[kept[b]] = RawKey[list[k]] /\ at[b] =< k
    BY <1>8 DEF Covered
  <2>2. CASE b = 1
    BY <2>1, <2>2
  <2>3. CASE b # 1
    <3>1. PICK c \in 1 .. Len(Tail(kept)) : c + 1 = b
      <4>1. b - 1 \in 1 .. Len(Tail(kept)) /\ (b - 1) + 1 = b
        BY <2>3, <1>1
      <4> QED
        BY <4>1
    <3>2. rest[c] = at[b] /\ Tail(kept)[c] = kept[b]
      BY <3>1, <1>3
    <3> QED
      BY <3>2, <2>1 DEF Covered
  <2> QED
    BY <2>2, <2>3
<1> QED
  BY <1>6, <1>7, <1>8

----------------------------------------------------------------------------
(* Where the results come from *)

Earlier(i, k, j, l) == i < j \/ (i = j /\ k < l)

LEMMA EarlierIsStrict ==
    ASSUME NEW i \in Nat, NEW k \in Nat, NEW j \in Nat, NEW l \in Nat,
           NEW m \in Nat, l =< m,
           Earlier(i, k, j, l) \/ (i = j /\ k = l)
    PROVE  ~ Earlier(j, m, i, k)
BY DEF Earlier

ListOf(i) == asked[i].list

Here == Len(asked)

Reads(i, k) == ReadIn(ListOf(i), k, request.limit)

(* Result j is the record at place wk[j] of the list of adapter wa[j];     *)
(* results are in the order of their places and have different urls. *)
MergedFrom(wa, wk) ==
    /\ wa \in [Nat -> Nat] /\ wk \in [Nat -> Nat]
    /\ \A j \in 1 .. Len(merged) :
          /\ wa[j] \in 1 .. Here
          /\ Reads(wa[j], wk[j])
          /\ ListOf(wa[j])[wk[j]] = merged[j]
    /\ \A j, l \in 1 .. Len(merged) :
          j < l => /\ Earlier(wa[j], wk[j], wa[l], wk[l])
                   /\ Key[merged[j]] # Key[merged[l]]

(* The same of the results of the adapter in turn. *)
BatchFrom(at) == Chosen(ListOf(Here), batch, at, request.limit)

(* A place is covered by a result, or by one of the adapter in turn, that  *)
(* is of the same url and does not come after it. *)
InMerged(wa, wk, i, k) ==
    \E j \in 1 .. Len(merged) :
        /\ Key[merged[j]] = Key[ListOf(i)[k]]
        /\ ~ Earlier(i, k, wa[j], wk[j])

InBatch(at, k) == Covered(ListOf(Here), batch, at, k)

BeforeHere(wa, wk) ==
    \A i \in 1 .. Here - 1, k \in Nat : Reads(i, k) => InMerged(wa, wk, i, k)

Done == Len(ListOf(Here)) - Len(raw)

Normalizing(wa, wk, at) ==
    /\ Here \in Nat \ {0}
    /\ MergedFrom(wa, wk) /\ BeforeHere(wa, wk)
    /\ \A j \in 1 .. Len(merged) : wa[j] < Here
    /\ Len(merged) < request.limit
    /\ BatchFrom(at) /\ Len(batch) =< request.limit
    /\ Done \in Nat
    /\ \A i \in 1 .. Len(raw) : raw[i] = ListOf(Here)[Done + i]
    /\ \A b \in 1 .. Len(batch) : at[b] =< Done
    /\ \A k \in 1 .. Done : ValidIn(ListOf(Here), k) => InBatch(at, k)

Merging(wa, wk, at) ==
    /\ Here \in Nat \ {0}
    /\ MergedFrom(wa, wk) /\ BeforeHere(wa, wk)
    /\ BatchFrom(at)
    /\ \A j \in 1 .. Len(merged), b \in 1 .. Len(batch) :
          Earlier(wa[j], wk[j], Here, at[b])
    /\ \A k \in Nat : Reads(Here, k) => InMerged(wa, wk, Here, k) \/ InBatch(at, k)

(* A place that no result covers comes after all results, and there are    *)
(* max_results of them. *)
Resting(wa, wk) ==
    /\ MergedFrom(wa, wk)
    /\ \A i \in 1 .. Here, k \in Nat :
          Reads(i, k) =>
              \/ InMerged(wa, wk, i, k)
              \/ /\ Len(merged) = request.limit
                 /\ \A j \in 1 .. Len(merged) : Earlier(wa[j], wk[j], i, k)

OrderInv ==
    /\ stage = "normalize" => \E wa, wk, at : Normalizing(wa, wk, at)
    /\ stage = "merge" => \E wa, wk, at : Merging(wa, wk, at)
    /\ stage \in {"ask", "results"} => \E wa, wk : Resting(wa, wk)

LEMMA OrderTypes ==
    ASSUME CountInv
    PROVE  /\ request.limit \in Nat \ {0}
           /\ Here \in Nat /\ asked \in Seq(Answer)
           /\ \A i \in 1 .. Here : /\ ListOf(i) \in Seq(Records)
                                   /\ Len(ListOf(i)) \in Nat
           /\ Len(merged) \in Nat /\ merged \in Seq(Records)
           /\ Len(batch) \in Nat /\ batch \in Seq(Records)
           /\ Len(raw) \in Nat /\ raw \in Seq(Records)
<1>1. /\ request.limit \in Nat \ {0} /\ Here \in Nat /\ Len(merged) \in Nat
      /\ Len(batch) \in Nat /\ Len(raw) \in Nat
  BY RequestTypes DEF CountInv, Here
<1>2. /\ asked \in Seq(Answer) /\ merged \in Seq(Records)
      /\ batch \in Seq(Records) /\ raw \in Seq(Records)
  BY DEF CountInv, SearchTypeOK, Answer
<1>3. \A i \in 1 .. Here : asked[i] \in Answer
  BY <1>2 DEF Here
<1>4. \A i \in 1 .. Here : ListOf(i) \in Seq(Records)
  BY <1>3 DEF Answer, ListOf
<1>5. \A i \in 1 .. Here : Len(ListOf(i)) \in Nat
  BY <1>4
<1> QED
  BY <1>1, <1>2, <1>4, <1>5

(* One more adapter has answered: the lists of the others are the same. *)
LEMMA AskKeepsLists ==
    ASSUME CountInv, NEW failed \in BOOLEAN, NEW list \in Seq(Records),
           asked' = Append(asked, [failed |-> failed, list |-> list])
    PROVE  /\ Here' = Here + 1 /\ asked'[Here + 1].list = list
           /\ \A i \in 1 .. Here : asked'[i] = asked[i]
<1> DEFINE new == [failed |-> failed, list |-> list]
<1>1. new \in Answer /\ new.list = list /\ asked \in Seq(Answer) /\ Here \in Nat
  BY OrderTypes DEF Answer
<1> HIDE DEF new
<1>2. /\ Len(asked') = Len(asked) + 1
      /\ \A i \in 1 .. Len(asked) : asked'[i] = asked[i]
      /\ asked'[Len(asked) + 1] = new
  BY <1>1, AppendFacts DEF new
<1>3. Here' = Here + 1 /\ asked'[Here + 1] = new
  BY <1>2 DEF Here
<1> QED
  BY <1>1, <1>2, <1>3 DEF Here

(* Results that are the same, of lists that are the same. *)
LEMMA SameMerged ==
    ASSUME NEW wa, NEW wk, MergedFrom(wa, wk), UNCHANGED <<request, merged>>,
           Here \in Nat, Here' \in Nat, Here =< Here',
           \A i \in 1 .. Here : asked'[i].list = asked[i].list
    PROVE  /\ MergedFrom(wa, wk)'
           /\ \A i \in 1 .. Here, k \in Nat : Reads(i, k)' <=> Reads(i, k)
           /\ \A i \in 1 .. Here, k \in Nat :
                 InMerged(wa, wk, i, k)' <=> InMerged(wa, wk, i, k)
<1>1. \A i \in 1 .. Here : \A k : Reads(i, k)' <=> Reads(i, k)
  BY DEF Reads, ListOf
<1>2. \A i \in 1 .. Here, k \in Nat :
         InMerged(wa, wk, i, k)' <=> InMerged(wa, wk, i, k)
  BY DEF InMerged, ListOf
<1>3. MergedFrom(wa, wk)'
  <2>1. \A j \in 1 .. Len(merged) : /\ wa[j] \in 1 .. Here
                                   /\ Reads(wa[j], wk[j])
                                   /\ asked[wa[j]].list[wk[j]] = merged[j]
    BY DEF MergedFrom, ListOf
  <2>2. \A j \in 1 .. Len(merged) : /\ wa[j] \in 1 .. Here'
                                   /\ Reads(wa[j], wk[j])'
                                   /\ asked'[wa[j]].list[wk[j]] = merged'[j]
    BY <2>1, <1>1
  <2>3. \A j, l \in 1 .. Len(merged') :
           j < l => /\ Earlier(wa[j], wk[j], wa[l], wk[l])
                    /\ Key[merged'[j]] # Key[merged'[l]]
    BY DEF MergedFrom
  <2>4. wa \in [Nat -> Nat] /\ wk \in [Nat -> Nat] /\ merged' = merged
    BY DEF MergedFrom
  <2> QED
    BY <2>2, <2>3, <2>4 DEF MergedFrom, ListOf, Reads
<1> QED
  BY <1>1, <1>2, <1>3

(* The next adapter is asked: it fails, or its list is to be normalized. *)
LEMMA AskKeepsOrder ==
    ASSUME CountInv, OrderInv, stage = "ask", MoreToAsk,
           UNCHANGED <<request, merged>>,
           NEW failed \in BOOLEAN, NEW list \in Seq(Records),
           asked' = Append(asked, [failed |-> failed, list |-> list]),
           \/ stage' = "ask" /\ Len(list) = 0
           \/ stage' = "normalize" /\ raw' = list /\ batch' = <<>>
           \/ stage' = "ready"
    PROVE  OrderInv'
<1>1. PICK wa, wk : Resting(wa, wk)
  BY DEF OrderInv
<1>2. MergedFrom(wa, wk) /\ Here \in Nat /\ Len(merged) \in Nat /\ request.limit \in Nat
  BY <1>1, OrderTypes DEF Resting
<1>3. /\ Here' = Here + 1 /\ asked'[Here + 1].list = list
      /\ \A i \in 1 .. Here : asked'[i].list = asked[i].list
  BY AskKeepsLists
<1>0. /\ Here' \in Nat /\ Here =< Here' /\ Here' \in 1 .. Here'
      /\ ListOf(Here)' = list
  <2>1. asked'[Here'].list = list
    BY <1>3
  <2>2. Here' \in Nat /\ Here =< Here' /\ Here' \in 1 .. Here'
    BY <1>2, <1>3
  <2> QED
    BY <2>1, <2>2 DEF ListOf
<1>4. Len(merged) < request.limit
  <2>1. Len(merged) =< request.limit
    BY DEF CountInv, Bounded
  <2> QED
    BY <1>2, <2>1 DEF MoreToAsk, Full
<1>5. \A i \in 1 .. Here, k \in Nat : Reads(i, k) => InMerged(wa, wk, i, k)
  BY <1>1, <1>2, <1>4 DEF Resting
<1>6. MergedFrom(wa, wk)'
  BY <1>0, <1>2, <1>3, SameMerged
<1>7. \A i \in 1 .. Here, k \in Nat : Reads(i, k)' => InMerged(wa, wk, i, k)'
  <2>1. /\ \A i \in 1 .. Here, k \in Nat : Reads(i, k)' <=> Reads(i, k)
        /\ \A i \in 1 .. Here, k \in Nat :
              InMerged(wa, wk, i, k)' <=> InMerged(wa, wk, i, k)
    BY <1>0, <1>2, <1>3, SameMerged
  <2> QED
    BY <2>1, <1>5
<1>8. CASE stage' = "ask" /\ Len(list) = 0
  <2>1. \A k \in Nat : ~ Reads(Here, k)'
    BY <1>8, <1>0 DEF Reads, ReadIn, ValidIn
  <2>2. \A i \in 1 .. Here', k \in Nat : Reads(i, k)' => InMerged(wa, wk, i, k)'
    <3>1. \A i \in 1 .. Here' : i \in 1 .. Here \/ i = Here'
      BY <1>2, <1>3
    <3> QED
      BY <3>1, <2>1, <1>7
  <2>3. Resting(wa, wk)'
    BY <1>6, <2>2 DEF Resting
  <2> QED
    BY <2>3, <1>8 DEF OrderInv
<1>9. CASE stage' = "normalize" /\ raw' = list /\ batch' = <<>>
  <2> DEFINE at == [n \in Nat |-> 0]
  <2>1. /\ Len(batch') = 0 /\ Len(raw') = Len(list) /\ Len(list) \in Nat
        /\ at \in [Nat -> Nat]
    BY <1>9
  <2> HIDE DEF at
  <2>2. Done' = 0
    BY <2>1, <1>0 DEF Done
  <2>3. BeforeHere(wa, wk)'
    <3>1. \A i \in 1 .. Here' - 1 : i \in 1 .. Here
      BY <1>2, <1>3
    <3> QED
      BY <3>1, <1>7 DEF BeforeHere
  <2>4. \A j \in 1 .. Len(merged') : wa[j] < Here'
    <3>1. \A j \in 1 .. Len(merged) : wa[j] \in 1 .. Here
      BY <1>2 DEF MergedFrom
    <3> QED
      BY <3>1, <1>2, <1>3
  <2>5. BatchFrom(at)'
    <3>1. \A b \in 1 .. Len(batch') : FALSE
      BY <2>1
    <3> QED
      BY <3>1, <2>1, Zenon DEF BatchFrom, Chosen
  <2>6. \A i \in 1 .. Len(raw') : raw'[i] = ListOf(Here)'[Done' + i]
    BY <2>1, <2>2, <1>0, <1>9
  <2>7. /\ \A b \in 1 .. Len(batch') : FALSE
        /\ \A k \in 1 .. Done' : FALSE
        /\ Here' \in Nat \ {0} /\ Len(batch') =< request'.limit
        /\ Done' \in Nat /\ Len(merged') < request'.limit
    <3>1. Here' \in Nat \ {0}
      BY <1>2, <1>3
    <3>2. \A b \in 1 .. Len(batch') : FALSE
      BY <2>1
    <3>3. \A k \in 1 .. Done' : FALSE
      BY <2>2
    <3>4. Len(merged') < request'.limit
      BY <1>4
    <3>5. Len(batch') =< request'.limit
      <4>1. request'.limit \in Nat /\ Len(batch') = 0
        BY <1>2, <2>1
      <4> QED
        BY <4>1
    <3>6. Done' \in Nat
      BY <2>2
    <3> QED
      BY <3>1, <3>2, <3>3, <3>4, <3>5, <3>6
  <2>8. Normalizing(wa, wk, at)'
    BY <1>6, <2>3, <2>4, <2>5, <2>6, <2>7 DEF Normalizing
  <2> QED
    BY <2>8, <1>9 DEF OrderInv
<1> QED
  BY <1>8, <1>9 DEF OrderInv

(* As long as no adapter is asked and nothing is merged. *)
LEMMA SameLists ==
    ASSUME UNCHANGED <<request, merged, asked>>, NEW wa, NEW wk
    PROVE  /\ Here' = Here /\ ListOf(Here)' = ListOf(Here)
           /\ request.limit' = request.limit
           /\ MergedFrom(wa, wk)' <=> MergedFrom(wa, wk)
           /\ BeforeHere(wa, wk)' <=> BeforeHere(wa, wk)
           /\ \A k \in Nat : Reads(Here, k)' <=> Reads(Here, k)
           /\ \A k \in Nat : InMerged(wa, wk, Here, k)' <=> InMerged(wa, wk, Here, k)
<1>1. Here' = Here /\ request' = request /\ merged' = merged /\ asked' = asked
  BY DEF Here
<1>2. MergedFrom(wa, wk)' <=> MergedFrom(wa, wk)
  BY <1>1 DEF MergedFrom, Reads, ListOf, Earlier
<1>3. BeforeHere(wa, wk)' <=> BeforeHere(wa, wk)
  BY <1>1 DEF BeforeHere, InMerged, Reads, ListOf, Earlier
<1>4. /\ \A k \in Nat : Reads(Here, k)' <=> Reads(Here, k)
      /\ \A k \in Nat : InMerged(wa, wk, Here, k)' <=> InMerged(wa, wk, Here, k)
  BY <1>1 DEF InMerged, Reads, ListOf, Earlier
<1> QED
  BY <1>1, <1>2, <1>3, <1>4 DEF ListOf

(* One more record of the list in turn has been validated. *)
LEMMA NormalizeKeepsOrder ==
    ASSUME CountInv, OrderInv, NormalizeRecord
    PROVE  OrderInv'
<1> DEFINE list == ListOf(Here)
           k    == Done + 1
<1>1. PICK wa, wk, at : Normalizing(wa, wk, at)
  BY DEF OrderInv, NormalizeRecord
<1>2. /\ stage = "normalize" /\ raw # <<>> /\ Len(batch) # request.limit
      /\ raw' = Tail(raw)
      /\ \/ Accepted(raw[1]) /\ batch' = Append(batch, raw[1])
         \/ ~ Accepted(raw[1]) /\ batch' = batch
      /\ \/ Quality[raw[1]] = "malformed" /\ stage' = "error"
         \/ Quality[raw[1]] # "malformed" /\ stage' = "normalize"
      /\ UNCHANGED <<request, merged, asked>>
  BY DEF NormalizeRecord, Full
<1>3. /\ request.limit \in Nat \ {0} /\ Here \in 1 .. Here
      /\ list \in Seq(Records) /\ Len(list) \in Nat
      /\ Len(merged) \in Nat
      /\ Len(batch) \in Nat /\ batch \in Seq(Records)
      /\ Len(raw) \in Nat /\ raw \in Seq(Records)
  <2>1. Here \in 1 .. Here
    BY <1>1, OrderTypes DEF Normalizing
  <2> QED
    BY <2>1, OrderTypes
<1>4. /\ raw' \in Seq(Records)
      /\ Len(raw) \in Nat \ {0}
      /\ Len(raw') = Len(raw) - 1
      /\ \A i \in 1 .. Len(raw) - 1 : raw'[i] = raw[i + 1]
  BY <1>2, <1>3, TailFacts
<1>5. /\ Here' = Here /\ ListOf(Here)' = list /\ request'.limit = request.limit
      /\ MergedFrom(wa, wk)' /\ BeforeHere(wa, wk)'
      /\ merged' = merged
  BY <1>1, <1>2, SameLists DEF Normalizing
<1>6. /\ Done \in Nat /\ Done = Len(list) - Len(raw)
      /\ \A i \in 1 .. Len(raw) : raw[i] = list[Done + i]
      /\ Chosen(list, batch, at, request.limit)
      /\ \A b \in 1 .. Len(batch) : at[b] =< Done
      /\ \A i \in 1 .. Done : ValidIn(list, i) => Covered(list, batch, at, i)
      /\ Len(batch) =< request.limit
      /\ at \in [Nat -> Nat]
  BY <1>1 DEF Normalizing, BatchFrom, InBatch, Done, Chosen
<1>7. k \in 1 .. Len(list) /\ raw[1] = list[k] /\ list[k] \in Records
  <2>1. Len(raw) >= 1 /\ 1 \in 1 .. Len(raw) /\ Len(raw) \in Nat
    BY <1>4
  <2>2. raw[1] = list[k]
    BY <2>1, <1>6
  <2>3. k \in 1 .. Len(list)
    BY <2>1, <1>3, <1>6
  <2>4. \A i \in 1 .. Len(list) : list[i] \in Records
    BY <1>3, SeqFacts
  <2> QED
    BY <2>2, <2>3, <2>4
<1>8. Done' = k
  <2>1. Done' = Len(list) - Len(raw')
    BY <1>5 DEF Done
  <2> QED
    BY <2>1, <1>3, <1>4, <1>6
<1>9. \A i \in 1 .. Len(raw') : raw'[i] = ListOf(Here)'[Done' + i]
  <2> SUFFICES ASSUME NEW i \in 1 .. Len(raw')
               PROVE  raw'[i] = list[k + i]
    BY <1>5, <1>8
  <2>1. i \in 1 .. Len(raw) - 1 /\ i + 1 \in 1 .. Len(raw) /\ Done + (i + 1) = k + i
    BY <1>3, <1>4, <1>6
  <2> QED
    BY <2>1, <1>4, <1>6
<1>10. /\ Here' \in Nat \ {0}
       /\ \A j \in 1 .. Len(merged') : wa[j] < Here'
       /\ Len(merged') < request'.limit
       /\ Done' \in Nat
  BY <1>1, <1>5, <1>6, <1>8 DEF Normalizing
<1>11. ASSUME NEW more, NEW new,
              batch' = more,
              Len(more) =< request.limit,
              Chosen(list, more, new, request.limit),
              \A b \in 1 .. Len(more) : new[b] =< k,
              \A i \in 1 .. k : ValidIn(list, i) => Covered(list, more, new, i),
              stage' = "normalize"
       PROVE  OrderInv'
  <2>1. BatchFrom(new)'
    BY <1>5, <1>11 DEF BatchFrom
  <2>2. \A i \in 1 .. Done' : ValidIn(ListOf(Here)', i) => InBatch(new, i)'
    BY <1>5, <1>8, <1>11 DEF InBatch
  <2>3. Len(batch') =< request'.limit /\ \A b \in 1 .. Len(batch') : new[b] =< Done'
    BY <1>5, <1>8, <1>11
  <2>4. Normalizing(wa, wk, new)'
    BY <1>5, <1>9, <1>10, <2>1, <2>2, <2>3 DEF Normalizing
  <2> QED
    BY <2>4, <1>11 DEF OrderInv
<1> HIDE DEF list, k
<1>12. CASE Accepted(raw[1]) /\ batch' = Append(batch, raw[1])
            /\ stage' = "normalize"
  <2>1. /\ Quality[list[k]] = "valid"
        /\ \A b \in 1 .. Len(batch) : RawKey[batch[b]] # RawKey[list[k]]
    BY <1>12, <1>7, <1>3 DEF Accepted, KeysOf
  <2>2. Len(batch) < request.limit
    <3>1. Len(batch) # request.limit
      BY <1>2
    <3>2. Len(batch) \in Nat /\ request.limit \in Nat
      BY <1>3
    <3>3. Len(batch) =< request.limit
      BY <1>6
    <3> QED
      BY <3>1, <3>2, <3>3
  <2>3. /\ \A b \in 1 .. Len(batch) : at[b] < k
        /\ \A i \in 1 .. k - 1 : ValidIn(list, i) => Covered(list, batch, at, i)
    <3>1. k = Done + 1
      BY DEF k
    <3>2. \A b \in 1 .. Len(batch) : at[b] \in Nat
      BY <1>3, <1>6
    <3>3. \A b \in 1 .. Len(batch) : at[b] < k
      BY <3>1, <3>2, <1>6
    <3>4. 1 .. k - 1 = 1 .. Done
      BY <3>1, <1>6
    <3> QED
      BY <3>3, <3>4, <1>6
  <2> DEFINE more == Append(batch, list[k])
             new  == [at EXCEPT ![Len(batch) + 1] = k]
  <2>4. /\ Chosen(list, more, new, request.limit)
        /\ \A b \in 1 .. Len(more) : new[b] =< k
        /\ \A i \in 1 .. k : ValidIn(list, i) => Covered(list, more, new, i)
    BY <2>1, <2>2, <2>3, <1>3, <1>6, <1>7, ChooseOneMore
  <2>5. Len(more) =< request.limit /\ batch' = more
    BY <1>12, <1>3, <1>7, <2>2, AppendFacts
  <2> HIDE DEF more, new
  <2> QED
    BY <2>4, <2>5, <1>11, <1>12
<1>13. CASE ~ Accepted(raw[1]) /\ batch' = batch /\ stage' = "normalize"
  <2>1. k = Done + 1 /\ \A b \in 1 .. Len(batch) : at[b] \in Nat
    BY <1>3, <1>6 DEF k
  <2>2. \A b \in 1 .. Len(batch) : at[b] =< k
    BY <2>1, <1>6
  <2>3. ValidIn(list, k) => Covered(list, batch, at, k)
    <3>1. SUFFICES ASSUME ValidIn(list, k)
                   PROVE  Covered(list, batch, at, k)
      OBVIOUS
    <3>2. RawKey[list[k]] \in KeysOf(batch, RawKey)
      BY <1>13, <1>7, <3>1 DEF ValidIn, Accepted
    <3>3. \E b \in 1 .. Len(batch) : RawKey[batch[b]] = RawKey[list[k]]
      BY <3>2, <1>3, SeqFacts DEF KeysOf
    <3> QED
      BY <3>3, <2>2 DEF Covered
  <2>4. \A i \in 1 .. k : i \in 1 .. Done \/ i = k
    <3>1. Done \in Nat
      BY <1>6
    <3> QED
      BY <3>1, <2>1
  <2>5. \A i \in 1 .. k : ValidIn(list, i) => Covered(list, batch, at, i)
    BY <2>3, <2>4, <1>6
  <2> QED
    BY <2>2, <2>5, <1>6, <1>11, <1>13
<1> QED
  <2>1. CASE stage' = "error"
    BY <2>1 DEF OrderInv
  <2> QED
    BY <2>1, <1>2, <1>12, <1>13

(* The list in turn is done: it has no more records, or enough of them. *)
LEMMA EndNormalizeKeepsOrder ==
    ASSUME CountInv, OrderInv, EndNormalize
    PROVE  OrderInv'
<1> DEFINE list == ListOf(Here)
<1>1. PICK wa, wk, at : Normalizing(wa, wk, at)
  BY DEF OrderInv, EndNormalize
<1>2. /\ raw = <<>> \/ Len(batch) = request.limit
      /\ stage' = "merge" /\ batch' = batch
      /\ UNCHANGED <<request, merged, asked>>
  BY DEF EndNormalize, Full
<1>3. /\ request.limit \in Nat \ {0} /\ Here \in 1 .. Here
      /\ list \in Seq(Records) /\ Len(list) \in Nat
      /\ batch \in Seq(Records) /\ Len(batch) \in Nat
  <2>1. Here \in 1 .. Here
    BY <1>1, OrderTypes DEF Normalizing
  <2> QED
    BY <2>1, OrderTypes
<1>4. /\ Here' = Here /\ ListOf(Here)' = list /\ request'.limit = request.limit
      /\ MergedFrom(wa, wk)' /\ BeforeHere(wa, wk)' /\ merged' = merged
      /\ \A k \in Nat : Reads(Here, k)' <=> Reads(Here, k)
  BY <1>1, <1>2, SameLists DEF Normalizing
<1>5. /\ Done \in Nat /\ Done = Len(list) - Len(raw)
      /\ Chosen(list, batch, at, request.limit)
      /\ \A b \in 1 .. Len(batch) : at[b] =< Done
      /\ \A k \in 1 .. Done : ValidIn(list, k) => Covered(list, batch, at, k)
      /\ at \in [Nat -> Nat]
  BY <1>1 DEF Normalizing, BatchFrom, InBatch, Done, Chosen
<1>6. ASSUME NEW k \in Nat, ReadIn(list, k, request.limit)
      PROVE  Covered(list, batch, at, k)
  <2>1. k \in 1 .. Len(list) /\ ValidIn(list, k)
    BY <1>6 DEF ReadIn, ValidIn
  <2>2. ASSUME k > Done
        PROVE  FALSE
    <3>1. raw # <<>>
      <4>1. ASSUME raw = <<>>
            PROVE  FALSE
        <5>1. Len(raw) = 0
          BY <4>1
        <5> QED
          BY <5>1, <2>1, <2>2, <1>3, <1>5
      <4> QED
        BY <4>1
    <3>2. Len(batch) = request.limit
      BY <3>1, <1>2
    <3>3. \A b \in 1 .. Len(batch) : at[b] \in Nat /\ at[b] < k
      <4>1. \A b \in 1 .. Len(batch) : at[b] \in Nat
        BY <1>3, <1>5
      <4> QED
        BY <4>1, <2>2, <1>5
    <3>4. \A b \in 1 .. Len(batch) :
             ValidIn(list, at[b]) /\ at[b] < k /\ list[at[b]] = batch[b]
      BY <3>3, <1>5 DEF Chosen, ReadIn
    <3>5. \A b, c \in 1 .. Len(batch) :
             b < c => RawKey[batch[b]] # RawKey[batch[c]]
      BY <1>5 DEF Chosen
    <3>6. ~ ReadIn(list, k, Len(batch))
      <4> HIDE DEF list
      <4> QED
        BY <3>4, <3>5, <2>1, <1>3, NotReadOnceFull
    <3> QED
      BY <3>2, <3>6, <1>6
  <2>3. k \in 1 .. Done
    BY <2>1, <2>2, <1>3, <1>5
  <2> QED
    BY <2>1, <2>3, <1>5
<1>7. \A k \in Nat : Reads(Here, k)' => InBatch(at, k)'
  BY <1>2, <1>4, <1>6 DEF Reads, InBatch
<1>8. BatchFrom(at)'
  BY <1>2, <1>4, <1>5 DEF BatchFrom
<1>9. \A j \in 1 .. Len(merged'), b \in 1 .. Len(batch') :
         Earlier(wa[j], wk[j], Here', at[b])
  BY <1>1, <1>4 DEF Normalizing, Earlier
<1>10. Merging(wa, wk, at)'
  <2>1. Here' \in Nat \ {0}
    BY <1>1, <1>4 DEF Normalizing
  <2> QED
    BY <2>1, <1>4, <1>7, <1>8, <1>9 DEF Merging
<1> QED
  BY <1>2, <1>10 DEF OrderInv

LEMMA SameResting ==
    ASSUME NEW wa, NEW wk, Resting(wa, wk), Here \in Nat,
           UNCHANGED <<request, merged, asked>>
    PROVE  Resting(wa, wk)'
<1>1. Here' = Here /\ merged' = merged /\ request' = request /\ asked' = asked
  BY DEF Here
<1>2. MergedFrom(wa, wk)
  BY DEF Resting
<1>3. /\ MergedFrom(wa, wk)'
      /\ \A i \in 1 .. Here, k \in Nat : Reads(i, k)' <=> Reads(i, k)
      /\ \A i \in 1 .. Here, k \in Nat :
            InMerged(wa, wk, i, k)' <=> InMerged(wa, wk, i, k)
  BY <1>1, <1>2, SameMerged
<1>4. \A i \in 1 .. Here', k \in Nat :
         Reads(i, k)' =>
              \/ InMerged(wa, wk, i, k)'
              \/ /\ Len(merged') = request'.limit
                 /\ \A j \in 1 .. Len(merged') : Earlier(wa[j], wk[j], i, k)
  BY <1>1, <1>3 DEF Resting
<1> QED
  BY <1>3, <1>4 DEF Resting

(* The results of the adapter in turn are merged, or there are enough. *)
LEMMA EndMergeKeepsOrder ==
    ASSUME CountInv, OrderInv, EndMerge
    PROVE  OrderInv'
<1>1. PICK wa, wk, at : Merging(wa, wk, at)
  BY DEF OrderInv, EndMerge
<1>2. /\ batch = <<>> \/ Len(merged) = request.limit
      /\ stage' = "ask"
      /\ UNCHANGED <<request, merged, asked>>
  BY DEF EndMerge, Full
<1>3. Here \in Nat \ {0} /\ Len(merged) \in Nat /\ Len(batch) \in Nat
  BY <1>1, OrderTypes DEF Merging
<1>4. ASSUME NEW i \in 1 .. Here, NEW k \in Nat, Reads(i, k),
             ~ InMerged(wa, wk, i, k)
      PROVE  /\ Len(merged) = request.limit
             /\ \A j \in 1 .. Len(merged) : Earlier(wa[j], wk[j], i, k)
  <2>1. i = Here
    <3>1. ~ (i \in 1 .. Here - 1)
      BY <1>1, <1>4 DEF Merging, BeforeHere
    <3> QED
      BY <3>1, <1>3
  <2>2. InBatch(at, k)
    BY <1>1, <1>4, <2>1 DEF Merging
  <2>3. PICK b \in 1 .. Len(batch) : at[b] =< k
    BY <2>2 DEF InBatch, Covered
  <2>4. batch # <<>>
    BY <2>3
  <2>5. Len(merged) = request.limit
    BY <2>4, <1>2
  <2>6. ASSUME NEW j \in 1 .. Len(merged)
        PROVE  Earlier(wa[j], wk[j], i, k)
    <3>1. Earlier(wa[j], wk[j], Here, at[b])
      BY <1>1 DEF Merging
    <3>2. wk[j] \in Nat /\ at[b] \in Nat
      BY <1>1, <1>3 DEF Merging, MergedFrom, BatchFrom, Chosen
    <3> QED
      BY <3>1, <3>2, <2>1, <2>3 DEF Earlier
  <2> QED
    BY <2>5, <2>6
<1>5. Resting(wa, wk)
  BY <1>1, <1>4 DEF Resting, Merging
<1>6. Resting(wa, wk)'
  BY <1>2, <1>3, <1>5, SameResting
<1> QED
  BY <1>2, <1>6 DEF OrderInv

(* The next result of the adapter in turn is merged: it is appended, or a  *)
(* result of the same url is there. *)
LEMMA MergeKeepsOrder ==
    ASSUME CountInv, OrderInv, MergeResult
    PROVE  OrderInv'
<1> DEFINE list == ListOf(Here)
           r    == batch[1]
<1>1. PICK wa, wk, at : Merging(wa, wk, at)
  BY DEF OrderInv, MergeResult
<1>2. /\ stage = "merge" /\ stage' = "merge"
      /\ batch # <<>> /\ batch' = Tail(batch)
      /\ \/ Key[r] \in KeysOf(merged, Key) /\ merged' = merged
         \/ Key[r] \notin KeysOf(merged, Key) /\ merged' = Append(merged, r)
      /\ request' = request /\ asked' = asked
  BY DEF MergeResult
<1>3. /\ request.limit \in Nat /\ Here \in 1 .. Here /\ Here \in Nat \ {0}
      /\ list \in Seq(Records) /\ Len(list) \in Nat
      /\ batch \in Seq(Records) /\ Len(batch) \in Nat
      /\ merged \in Seq(Records) /\ Len(merged) \in Nat
  <2>1. Here \in 1 .. Here /\ Here \in Nat \ {0}
    BY <1>1, OrderTypes DEF Merging
  <2> QED
    BY <2>1, OrderTypes
<1>4. 1 \in 1 .. Len(batch) /\ r \in Records
  BY <1>2, <1>3
<1>5. Here' = Here /\ ListOf(Here)' = list /\ request'.limit = request.limit
  BY <1>2 DEF Here, ListOf
<1>6. \A i, k : Reads(i, k)' <=> Reads(i, k)
  BY <1>2 DEF Reads, ListOf
<1>7. /\ MergedFrom(wa, wk) /\ wa \in [Nat -> Nat] /\ wk \in [Nat -> Nat]
      /\ Chosen(list, batch, at, request.limit) /\ at \in [Nat -> Nat]
      /\ \A j \in 1 .. Len(merged), b \in 1 .. Len(batch) :
            Earlier(wa[j], wk[j], Here, at[b])
      /\ \A k \in Nat : Reads(Here, k) =>
            InMerged(wa, wk, Here, k) \/ Covered(list, batch, at, k)
  BY <1>1 DEF Merging, MergedFrom, BatchFrom, InBatch, Chosen
<1>8. PICK rest \in [Nat -> Nat] : \A n \in Nat : rest[n] = at[n + 1]
  <2>1. [n \in Nat |-> at[n + 1]] \in [Nat -> Nat]
    BY <1>7
  <2> QED
    BY <2>1
<1> HIDE DEF list, r
<1>9. /\ Chosen(list, Tail(batch), rest, request.limit)
      /\ \A b \in 1 .. Len(Tail(batch)) : at[1] < rest[b]
      /\ \A k \in Nat : Covered(list, batch, at, k) =>
            \/ RawKey[r] = RawKey[list[k]] /\ at[1] =< k
            \/ Covered(list, Tail(batch), rest, k)
  BY <1>2, <1>3, <1>7, <1>8, ChosenTail DEF r
<1>10. BatchFrom(rest)'
  BY <1>2, <1>5, <1>9 DEF BatchFrom, list
<1>11. \A b \in 1 .. Len(Tail(batch)) :
          /\ b + 1 \in 1 .. Len(batch) /\ rest[b] = at[b + 1] /\ rest[b] \in Nat
  <2> SUFFICES ASSUME NEW b \in 1 .. Len(Tail(batch))
               PROVE  /\ b + 1 \in 1 .. Len(batch)
                      /\ rest[b] = at[b + 1] /\ rest[b] \in Nat
    OBVIOUS
  <2>1. Len(Tail(batch)) = Len(batch) - 1
    BY <1>2, <1>3, TailFacts
  <2>2. b + 1 \in 1 .. Len(batch) /\ b \in Nat
    BY <2>1, <1>3
  <2> QED
    BY <2>2, <1>8
<1>12. Reads(Here, at[1]) /\ list[at[1]] = r /\ at[1] \in Nat
  BY <1>4, <1>7 DEF Chosen, Reads, list, r
(* A place that is read is the first of its url in the list. *)
<1>13. ASSUME NEW k \in Nat, Reads(Here, k), RawKey[r] = RawKey[list[k]],
              at[1] =< k
       PROVE  Key[r] = Key[list[k]]
  <2>1. Quality[list[at[1]]] = "valid" /\ at[1] \in 1 .. Len(list)
    BY <1>12 DEF Reads, ReadIn, ValidIn, list
  <2>2. RawKey[list[k]] \notin KeysBefore(list, k)
    BY <1>13 DEF Reads, ReadIn, list
  <2>3. at[1] \notin 1 .. k - 1
    BY <1>12, <1>13, <2>1, <2>2 DEF KeysBefore
  <2>4. at[1] = k
    <3>1. PICK n \in Nat : n = at[1]
      BY <1>12
    <3>2. n =< k /\ n \notin 1 .. k - 1 /\ 1 =< n
      BY <3>1, <1>13, <2>1, <2>3
    <3> QED
      BY <3>1, <3>2
  <2> QED
    BY <1>12, <2>4
(* What is left to show of the results and of their places. *)
<1>14. ASSUME NEW wb, NEW wl,
              MergedFrom(wb, wl)',
              Len(merged) =< Len(merged'), Len(merged') \in Nat,
              \A j \in 1 .. Len(merged) :
                  merged'[j] = merged[j] /\ wb[j] = wa[j] /\ wl[j] = wk[j],
              \A j \in 1 .. Len(merged'), b \in 1 .. Len(Tail(batch)) :
                  Earlier(wb[j], wl[j], Here, rest[b]),
              \A k \in Nat : Reads(Here, k) /\ Key[r] = Key[list[k]] /\ at[1] =< k =>
                  \E j \in 1 .. Len(merged') : /\ Key[merged'[j]] = Key[list[k]]
                                               /\ ~ Earlier(Here, k, wb[j], wl[j])
       PROVE  OrderInv'
  <2>1. ASSUME NEW i, NEW k, InMerged(wa, wk, i, k)
        PROVE  InMerged(wb, wl, i, k)'
    <3>1. PICK j \in 1 .. Len(merged) : /\ Key[merged[j]] = Key[asked[i].list[k]]
                                        /\ ~ Earlier(i, k, wa[j], wk[j])
      BY <2>1 DEF InMerged, ListOf
    <3>2. j \in 1 .. Len(merged')
      BY <1>3, <1>14
    <3>3. Key[merged'[j]] = Key[asked'[i].list[k]] /\ ~ Earlier(i, k, wb[j], wl[j])
      BY <3>1, <1>2, <1>14
    <3> QED
      BY <3>2, <3>3 DEF InMerged, ListOf
  <2>2. BeforeHere(wb, wl)'
    <3>1. BeforeHere(wa, wk)
      BY <1>1 DEF Merging
    <3>2. \A i \in 1 .. Here' - 1, k \in Nat : Reads(i, k)' => InMerged(wb, wl, i, k)'
      BY <3>1, <2>1, <1>5, <1>6 DEF BeforeHere
    <3> QED
      BY <3>2 DEF BeforeHere
  <2>3. ASSUME NEW k \in Nat, Reads(Here, k)
        PROVE  InMerged(wb, wl, Here, k)' \/ InBatch(rest, k)'
    <3>1. CASE InMerged(wa, wk, Here, k)
      <4> DEFINE h == Here
      <4>1. InMerged(wa, wk, h, k)
        BY <3>1
      <4>2. PICK i : i = Here
        OBVIOUS
      <4>3. InMerged(wb, wl, i, k)'
        BY <4>1, <4>2, <2>1
      <4> QED
        BY <4>2, <4>3, <1>5
    <3>2. CASE RawKey[r] = RawKey[list[k]] /\ at[1] =< k
      <4>1. Key[r] = Key[list[k]]
        BY <3>2, <2>3, <1>13
      <4>2. PICK j \in 1 .. Len(merged') : /\ Key[merged'[j]] = Key[list[k]]
                                           /\ ~ Earlier(Here, k, wb[j], wl[j])
        BY <4>1, <3>2, <2>3, <1>14
      <4> QED
        BY <4>2, <1>5 DEF InMerged, list
    <3>3. CASE Covered(list, Tail(batch), rest, k)
      BY <3>3, <1>2, <1>5 DEF InBatch, list
    <3> QED
      BY <3>1, <3>2, <3>3, <2>3, <1>7, <1>9
  <2>4. \A k \in Nat : Reads(Here, k)' => InMerged(wb, wl, Here, k)' \/ InBatch(rest, k)'
    BY <2>3, <1>5, <1>6
  <2>5. Merging(wb, wl, rest)'
    BY <1>2, <1>3, <1>5, <1>10, <1>14, <2>2, <2>4 DEF Merging
  <2> QED
    BY <2>5, <1>2 DEF OrderInv
<1>15. CASE Key[r] \in KeysOf(merged, Key) /\ merged' = merged
  <2>1. MergedFrom(wa, wk)'
    BY <1>2, <1>3, <1>5, <1>7, <1>15, SameMerged
  <2>2. \A j \in 1 .. Len(merged'), b \in 1 .. Len(Tail(batch)) :
           Earlier(wa[j], wk[j], Here, rest[b])
    BY <1>7, <1>11, <1>15
  <2>3. PICK j \in 1 .. Len(merged') : Key[merged'[j]] = Key[r]
    BY <1>15, <1>3, SeqFacts DEF KeysOf
  <2>4. ASSUME NEW k \in Nat, at[1] =< k
        PROVE  ~ Earlier(Here, k, wa[j], wk[j])
    <3>1. Earlier(wa[j], wk[j], Here, at[1])
      BY <1>4, <1>7, <1>15
    <3>2. wa[j] \in Nat /\ wk[j] \in Nat /\ Here \in Nat /\ at[1] \in Nat
      BY <1>3, <1>7, <1>12, <1>15
    <3> QED
      BY <3>1, <3>2, <2>4, EarlierIsStrict
  <2>5. Len(merged) =< Len(merged') /\ Len(merged') \in Nat
    BY <1>3, <1>15
  <2> QED
    BY <2>1, <2>2, <2>3, <2>4, <2>5, <1>14, <1>15
<1>16. CASE Key[r] \notin KeysOf(merged, Key) /\ merged' = Append(merged, r)
  <2> DEFINE n == Len(merged) + 1
  <2>1. /\ n \in Nat
        /\ \A j \in 1 .. Len(merged) : j \in Nat /\ j # n /\ j \in 1 .. n
    <3>1. Len(merged) \in Nat
      BY <1>3
    <3> QED
      BY <3>1
  <2>2. PICK wb \in [Nat -> Nat], wl \in [Nat -> Nat] :
          /\ wb[n] = Here /\ wl[n] = at[1]
          /\ \A j \in 1 .. Len(merged) : wb[j] = wa[j] /\ wl[j] = wk[j]
    <3>1. /\ [wa EXCEPT ![n] = Here] \in [Nat -> Nat]
          /\ [wk EXCEPT ![n] = at[1]] \in [Nat -> Nat]
          /\ [wa EXCEPT ![n] = Here][n] = Here
          /\ [wk EXCEPT ![n] = at[1]][n] = at[1]
          /\ \A j \in 1 .. Len(merged) : /\ [wa EXCEPT ![n] = Here][j] = wa[j]
                                         /\ [wk EXCEPT ![n] = at[1]][j] = wk[j]
      <4>1. wa \in [Nat -> Nat] /\ wk \in [Nat -> Nat] /\ Here \in Nat /\ at[1] \in Nat
        BY <1>3, <1>7, <1>12
      <4> HIDE DEF n
      <4> QED
        BY <4>1, <2>1
    <3>2. PICK wb, wl : wb = [wa EXCEPT ![n] = Here] /\ wl = [wk EXCEPT ![n] = at[1]]
      OBVIOUS
    <3>3. /\ wb \in [Nat -> Nat] /\ wl \in [Nat -> Nat]
          /\ wb[n] = Here /\ wl[n] = at[1]
          /\ \A j \in 1 .. Len(merged) : wb[j] = wa[j] /\ wl[j] = wk[j]
      BY <3>1, <3>2
    <3> HIDE DEF n
    <3> QED
      BY <3>3
  <2>3. /\ Len(merged') = n /\ merged'[n] = r
        /\ \A j \in 1 .. Len(merged) : merged'[j] = merged[j]
    BY <1>3, <1>4, <1>16, AppendFacts
  <2>4. \A j \in 1 .. n : j \in 1 .. Len(merged) \/ j = n
    BY <1>3, LastOfMore
  <2>5. \A j \in 1 .. Len(merged) : Key[merged[j]] # Key[r]
    <3>1. DOMAIN merged = 1 .. Len(merged)
      BY <1>3, SeqFacts
    <3>2. \A j \in DOMAIN merged : Key[merged[j]] \in KeysOf(merged, Key)
      BY DEF KeysOf
    <3> QED
      BY <3>1, <3>2, <1>16
  <2> HIDE DEF n
  <2>6. ASSUME NEW j \in 1 .. n
        PROVE  /\ wb[j] \in 1 .. Here'
               /\ Reads(wb[j], wl[j])'
               /\ ListOf(wb[j])'[wl[j]] = merged'[j]
    <3>1. CASE j \in 1 .. Len(merged)
      <4>1. /\ wa[j] \in 1 .. Here /\ Reads(wa[j], wk[j])
            /\ ListOf(wa[j])[wk[j]] = merged[j]
        BY <3>1, <1>7 DEF MergedFrom
      <4>2. wb[j] = wa[j] /\ wl[j] = wk[j] /\ merged'[j] = merged[j]
        BY <3>1, <2>2, <2>3
      <4> QED
        BY <4>1, <4>2, <1>2, <1>5, <1>6 DEF ListOf
    <3>2. CASE j = n
      <4>1. wb[j] = Here /\ wl[j] = at[1] /\ merged'[j] = r
        BY <3>2, <2>2, <2>3
      <4> QED
        BY <4>1, <1>2, <1>3, <1>5, <1>6, <1>12 DEF ListOf, list
    <3> QED
      BY <3>1, <3>2, <2>4
  <2>7. ASSUME NEW j \in 1 .. n, NEW l \in 1 .. n, j < l
        PROVE  /\ Earlier(wb[j], wl[j], wb[l], wl[l])
               /\ Key[merged'[j]] # Key[merged'[l]]
    <3>1. j \in 1 .. Len(merged)
      BY <2>7, <2>4, <1>3 DEF n
    <3>2. wb[j] = wa[j] /\ wl[j] = wk[j] /\ merged'[j] = merged[j]
      BY <3>1, <2>2, <2>3
    <3>3. CASE l \in 1 .. Len(merged)
      <4>1. wb[l] = wa[l] /\ wl[l] = wk[l] /\ merged'[l] = merged[l]
        BY <3>3, <2>2, <2>3
      <4>2. Earlier(wa[j], wk[j], wa[l], wk[l]) /\ Key[merged[j]] # Key[merged[l]]
        BY <3>1, <3>3, <2>7, <1>7 DEF MergedFrom
      <4> QED
        BY <3>2, <4>1, <4>2
    <3>4. CASE l = n
      <4>1. wb[l] = Here /\ wl[l] = at[1] /\ merged'[l] = r
        BY <3>4, <2>2, <2>3
      <4>2. Earlier(wa[j], wk[j], Here, at[1])
        BY <3>1, <1>4, <1>7
      <4> QED
        BY <3>1, <3>2, <4>1, <4>2, <2>5
    <3> QED
      BY <3>3, <3>4, <2>4
  <2>8. MergedFrom(wb, wl)'
    <3>1. \A j, l \in 1 .. Len(merged') :
             j < l => /\ Earlier(wb[j], wl[j], wb[l], wl[l])
                      /\ Key[merged'[j]] # Key[merged'[l]]
      BY <2>3, <2>7
    <3>2. \A j \in 1 .. Len(merged') : /\ wb[j] \in 1 .. Here'
                                       /\ Reads(wb[j], wl[j])'
                                       /\ ListOf(wb[j])'[wl[j]] = merged'[j]
      BY <2>3, <2>6
    <3> QED
      BY <3>1, <3>2, <2>2 DEF MergedFrom
  <2>9. ASSUME NEW j \in 1 .. Len(merged'), NEW b \in 1 .. Len(Tail(batch))
        PROVE  Earlier(wb[j], wl[j], Here, rest[b])
    <3>1. CASE j \in 1 .. Len(merged)
      BY <3>1, <2>2, <1>7, <1>11
    <3>2. CASE j = n
      <4>1. wb[j] = Here /\ wl[j] = at[1] /\ at[1] < rest[b]
        BY <3>2, <2>2, <1>9
      <4> QED
        BY <4>1 DEF Earlier
    <3> QED
      BY <3>1, <3>2, <2>3, <2>4
  <2>10. ASSUME NEW k \in Nat, Key[r] = Key[list[k]], at[1] =< k
         PROVE  \E j \in 1 .. Len(merged') : /\ Key[merged'[j]] = Key[list[k]]
                                             /\ ~ Earlier(Here, k, wb[j], wl[j])
    <3>1. n \in 1 .. Len(merged')
      BY <2>3, <1>3 DEF n
    <3>2. ~ Earlier(Here, k, wb[n], wl[n])
      BY <2>2, <2>10, <1>3, <1>12, EarlierIsStrict
    <3> QED
      BY <3>1, <3>2, <2>3, <2>10
  <2>11. Len(merged) =< Len(merged') /\ Len(merged') \in Nat
    BY <2>3, <1>3 DEF n
  <2>12. \A k \in Nat : Reads(Here, k) /\ Key[r] = Key[list[k]] /\ at[1] =< k =>
            \E j \in 1 .. Len(merged') : /\ Key[merged'[j]] = Key[list[k]]
                                         /\ ~ Earlier(Here, k, wb[j], wl[j])
    BY <2>10
  <2>13. \A j \in 1 .. Len(merged'), b \in 1 .. Len(Tail(batch)) :
            Earlier(wb[j], wl[j], Here, rest[b])
    BY <2>9
  <2>14. \A j \in 1 .. Len(merged) :
            merged'[j] = merged[j] /\ wb[j] = wa[j] /\ wl[j] = wk[j]
    BY <2>2, <2>3
  <2> QED
    BY <2>8, <2>11, <2>12, <2>13, <2>14, <1>14
<1> QED
  BY <1>2, <1>15, <1>16

LEMMA SameOrder ==
    ASSUME CountInv, OrderInv, UNCHANGED searchVars
    PROVE  OrderInv'
<1>1. UNCHANGED <<request, stage, raw, batch, merged, asked>>
  BY DEF searchVars
<1>2. CASE stage = "normalize"
  <2>1. PICK wa, wk, at : Normalizing(wa, wk, at)
    BY <1>2 DEF OrderInv
  <2>2. /\ Here' = Here /\ ListOf(Here)' = ListOf(Here)
        /\ MergedFrom(wa, wk)' /\ BeforeHere(wa, wk)'
    BY <1>1, <2>1, SameLists DEF Normalizing
  <2>3. BatchFrom(at)' /\ Done' = Done /\ \A k : InBatch(at, k)' <=> InBatch(at, k)
    BY <1>1, <2>1, <2>2 DEF Normalizing, BatchFrom, InBatch, Done
  <2>4. Normalizing(wa, wk, at)'
    BY <1>1, <2>1, <2>2, <2>3 DEF Normalizing
  <2> QED
    BY <1>1, <1>2, <2>4 DEF OrderInv
<1>3. CASE stage = "merge"
  <2>1. PICK wa, wk, at : Merging(wa, wk, at)
    BY <1>3 DEF OrderInv
  <2>2. /\ Here' = Here /\ ListOf(Here)' = ListOf(Here)
        /\ MergedFrom(wa, wk)' /\ BeforeHere(wa, wk)'
        /\ \A k \in Nat : Reads(Here, k)' <=> Reads(Here, k)
        /\ \A k \in Nat : InMerged(wa, wk, Here, k)' <=> InMerged(wa, wk, Here, k)
    BY <1>1, <2>1, SameLists DEF Merging
  <2>3. BatchFrom(at)' /\ \A k : InBatch(at, k)' <=> InBatch(at, k)
    BY <1>1, <2>1, <2>2 DEF Merging, BatchFrom, InBatch
  <2>4. \A k \in Nat : Reads(Here, k)' => InMerged(wa, wk, Here, k)' \/ InBatch(at, k)'
    BY <2>1, <2>2, <2>3 DEF Merging
  <2>5. Merging(wa, wk, at)'
    BY <1>1, <2>1, <2>2, <2>3, <2>4 DEF Merging
  <2> QED
    BY <1>1, <1>3, <2>5 DEF OrderInv
<1>4. CASE stage \in {"ask", "results"}
  <2>1. PICK wa, wk : Resting(wa, wk)
    BY <1>4 DEF OrderInv
  <2>2. Resting(wa, wk)'
    BY <1>1, <2>1, OrderTypes, SameResting
  <2> QED
    BY <1>1, <1>4, <2>2 DEF OrderInv
<1> QED
  BY <1>1, <1>2, <1>3, <1>4 DEF OrderInv

LEMMA SearchStepKeepsOrder ==
    ASSUME CountInv, OrderInv, SearchNext
    PROVE  OrderInv'
<1>1. CASE AskNextAdapter
  <2>1. stage = "ask" /\ MoreToAsk /\ UNCHANGED <<request, merged>>
    BY <1>1 DEF AskNextAdapter
  <2>3. CASE AdapterRaises /\ UNCHANGED <<raw, batch>>
    BY <2>3 DEF AdapterRaises, OrderInv
  <2> SUFFICES ASSUME ~ (AdapterRaises /\ UNCHANGED <<raw, batch>>)
               PROVE  OrderInv'
    BY <2>3
  <2>2. PICK failed \in BOOLEAN, list \in Seq(Records) :
          /\ asked' = Append(asked, [failed |-> failed, list |-> list])
          /\ \/ stage' = "ask" /\ Len(list) = 0
             \/ stage' = "normalize" /\ raw' = list /\ batch' = <<>>
    <3>1. CASE AdapterFails /\ UNCHANGED <<stage, raw, batch>>
      <4>1. /\ asked' = Append(asked, [failed |-> TRUE, list |-> <<>>])
            /\ stage' = "ask"
        BY <3>1, <2>1 DEF AdapterFails, Unreachable
      <4>2. TRUE \in BOOLEAN /\ <<>> \in Seq(Records) /\ Len(<<>>) = 0
        OBVIOUS
      <4> QED
        BY <4>1, <4>2
    <3>2. CASE \E list \in Answers : /\ AdapterReturns(list)
                                     /\ raw' = list
                                     /\ batch' = <<>>
                                     /\ stage' = "normalize"
      BY <3>2, SearchAssumption DEF AdapterReturns
    <3> QED
      BY <3>1, <3>2, <1>1 DEF AskNextAdapter
  <2> QED
    BY <2>1, <2>2, AskKeepsOrder
<1>2. CASE NormalizeRecord
  BY <1>2, NormalizeKeepsOrder
<1>3. CASE EndNormalize
  BY <1>3, EndNormalizeKeepsOrder
<1>4. CASE MergeResult
  BY <1>4, MergeKeepsOrder
<1>5. CASE EndMerge
  BY <1>5, EndMergeKeepsOrder
<1>6. CASE EndSearch \/ NotReady
  <2>1. /\ stage = "ask" /\ stage' \in {"results", "unavailable"}
        /\ UNCHANGED <<request, merged, asked>>
    BY <1>6 DEF EndSearch, NotReady
  <2>2. PICK wa, wk : Resting(wa, wk)
    BY <2>1 DEF OrderInv
  <2>3. Resting(wa, wk)'
    BY <2>1, <2>2, OrderTypes, SameResting
  <2> QED
    BY <2>1, <2>3 DEF OrderInv
<1>7. CASE ProbeNextAdapter
  <2>1. stage = "ask" /\ MoreToAsk /\ UNCHANGED <<request, merged>>
    BY <1>7 DEF ProbeNextAdapter
  <2>2. PICK failed \in BOOLEAN, list \in Seq(Records) :
          /\ asked' = Append(asked, [failed |-> failed, list |-> list])
          /\ \/ stage' = "ask" /\ Len(list) = 0
             \/ stage' = "ready"
    <3>1. <<>> \in Seq(Records) /\ Len(<<>>) = 0
      OBVIOUS
    <3> QED
      BY <3>1, <1>7, <2>1
         DEF ProbeNextAdapter, AdapterFails, AdapterReturns, Unreachable
  <2> QED
    BY <2>1, <2>2, AskKeepsOrder
<1> QED
  BY <1>1, <1>2, <1>3, <1>4, <1>5, <1>6, <1>7 DEF SearchNext

(* The places that adapters read. *)
LEMMA PlacesAreRead ==
    ASSUME CountInv
    PROVE  /\ \A p \in ReadPlaces :
                 \E i \in 1 .. Here, k \in Nat : p = <<i, k>> /\ Reads(i, k)
           /\ \A i \in 1 .. Here, k \in Nat :
                 Reads(i, k) => <<i, k>> \in ReadPlaces
<1>1. DOMAIN asked = 1 .. Here
  BY OrderTypes, SeqFacts DEF Here
<1>2. \A i \in 1 .. Here : DOMAIN asked[i].list = 1 .. Len(asked[i].list)
  BY OrderTypes, SeqFacts DEF ListOf
<1>3. \A i, k : IsRead(<<i, k>>) <=>
         /\ Quality[asked[i].list[k]] = "valid"
         /\ RawKey[asked[i].list[k]] \notin KeysBefore(asked[i].list, k)
         /\ ~ (Cardinality(KeysBefore(asked[i].list, k)) >= request.limit)
  BY DEF IsRead, At, KeysBefore
<1>4. ASSUME NEW p \in ReadPlaces
      PROVE  \E i \in 1 .. Here, k \in Nat : p = <<i, k>> /\ Reads(i, k)
  <2>1. PICK i \in 1 .. Here : p \in {i} \X (1 .. Len(asked[i].list))
    BY <1>1, <1>2 DEF ReadPlaces, AllPlaces
  <2>2. PICK k \in 1 .. Len(asked[i].list) : p = <<i, k>>
    BY <2>1
  <2>3. k \in Nat
    BY <2>2
  <2>4. Reads(i, k)
    BY <1>3, <1>4, <2>2 DEF ReadPlaces, Reads, ReadIn, ValidIn, ListOf
  <2> QED
    BY <2>2, <2>3, <2>4
<1>5. ASSUME NEW i \in 1 .. Here, NEW k \in Nat, Reads(i, k)
      PROVE  <<i, k>> \in ReadPlaces
  <2>1. k \in 1 .. Len(asked[i].list)
    BY <1>5 DEF Reads, ReadIn, ValidIn, ListOf
  <2>2. <<i, k>> \in {i} \X DOMAIN asked[i].list
    BY <2>1, <1>2
  <2>3. <<i, k>> \in AllPlaces
    BY <2>2, <1>1 DEF AllPlaces
  <2>4. IsRead(<<i, k>>)
    BY <1>3, <1>5 DEF Reads, ReadIn, ValidIn, ListOf
  <2> QED
    BY <2>3, <2>4 DEF ReadPlaces
<1> QED
  BY <1>4, <1>5

LEMMA RestingIsComplete ==
    ASSUME CountInv, NEW wa, NEW wk, Resting(wa, wk)
    PROVE  ResultsAreComplete
<1>1. /\ Len(merged) \in Nat /\ DOMAIN merged = 1 .. Len(merged)
  BY OrderTypes, SeqFacts
<1>2. \A i, k, j, l : Before(<<i, k>>, <<j, l>>) <=> Earlier(i, k, j, l)
  BY DEF Before, Earlier
<1>3. \A i, k : At(<<i, k>>) = ListOf(i)[k]
  BY DEF At, ListOf
<1>4. PICK place : place = [j \in DOMAIN merged |-> <<wa[j], wk[j]>>]
  OBVIOUS
<1>5. ASSUME NEW j \in DOMAIN merged
      PROVE  /\ place[j] = <<wa[j], wk[j]>>
             /\ place[j] \in ReadPlaces
             /\ At(place[j]) = merged[j]
  <2>1. place[j] = <<wa[j], wk[j]>>
    BY <1>4
  <2>2. /\ wa[j] \in 1 .. Here /\ wk[j] \in Nat /\ Reads(wa[j], wk[j])
        /\ ListOf(wa[j])[wk[j]] = merged[j]
    <3>1. j \in 1 .. Len(merged) /\ j \in Nat
      BY <1>1
    <3>2. wk[j] \in Nat
      BY <3>1 DEF Resting, MergedFrom
    <3> QED
      BY <3>1, <3>2 DEF Resting, MergedFrom
  <2> QED
    BY <1>3, <2>1, <2>2, PlacesAreRead
<1>6. place \in [DOMAIN merged -> ReadPlaces]
  BY <1>4, <1>5
<1>7. ASSUME NEW j \in DOMAIN merged, NEW k \in DOMAIN merged, j < k
      PROVE  Before(place[j], place[k]) /\ Key[merged[j]] # Key[merged[k]]
  <2>1. Earlier(wa[j], wk[j], wa[k], wk[k]) /\ Key[merged[j]] # Key[merged[k]]
    BY <1>1, <1>7 DEF Resting, MergedFrom
  <2>2. Before(<<wa[j], wk[j]>>, <<wa[k], wk[k]>>)
    BY <1>2, <2>1
  <2> QED
    BY <1>5, <2>1, <2>2
<1>8. ASSUME NEW p \in ReadPlaces
      PROVE  \/ \E j \in DOMAIN merged : /\ Key[merged[j]] = Key[At(p)]
                                          /\ ~ Before(p, place[j])
             \/ Full(merged) /\ \A j \in DOMAIN merged : Before(place[j], p)
  <2>1. PICK i \in 1 .. Here, k \in Nat : p = <<i, k>> /\ Reads(i, k)
    BY PlacesAreRead
  <2>2. CASE InMerged(wa, wk, i, k)
    BY <1>1, <1>2, <1>3, <1>5, <2>1, <2>2 DEF InMerged
  <2>3. CASE /\ Len(merged) = request.limit
             /\ \A j \in 1 .. Len(merged) : Earlier(wa[j], wk[j], i, k)
    BY <1>1, <1>2, <1>5, <2>1, <2>3 DEF Full
  <2> QED
    BY <2>1, <2>2, <2>3 DEF Resting
<1> QED
  BY <1>5, <1>6, <1>7, <1>8 DEF ResultsAreComplete

(* Each result is the record at a place that an adapter read, in order and *)
(* without a url twice, and each place that was read is accounted for, up  *)
(* to max_results (SearchOrchestrator.run, _normalize_records). *)
THEOREM ResultsStayComplete == Spec => []ResultsAreComplete
<1>1. Init => OrderInv
  <2> SUFFICES ASSUME Init
               PROVE  OrderInv
    OBVIOUS
  <2>1. stage = "ask" /\ merged = <<>> /\ asked = <<>>
    BY DEF Init, SearchInit
  <2>2. Len(merged) = 0 /\ Here = 0
    BY <2>1 DEF Here
  <2> DEFINE w == [n \in Nat |-> 0]
  <2>3. w \in [Nat -> Nat]
    OBVIOUS
  <2> HIDE DEF w
  <2>4. MergedFrom(w, w)
    BY <2>2, <2>3 DEF MergedFrom
  <2>5. Resting(w, w)
    BY <2>2, <2>4 DEF Resting
  <2> QED
    BY <2>1, <2>5 DEF OrderInv
<1>2. ASSUME RequestInv, OrderInv, [Next]_vars
      PROVE  OrderInv'
  <2>1. CountInv
    BY <1>2 DEF RequestInv
  <2>2. CASE SearchStep
    BY <2>1, <2>2, <1>2, SearchStepKeepsOrder DEF SearchStep
  <2>3. CASE UNCHANGED searchVars
    BY <2>1, <2>3, <1>2, SameOrder
  <2>4. SearchStep \/ UNCHANGED searchVars
    BY <1>2
       DEF Next, vars, EndOfSearch, PassResult, FetchResult, FetchStep,
           PageUnavailable, AskModel, CompletionStep, ModelUnavailable,
           UseExcerpt, EnrichmentRaises, EndOfEnrichment, Over, Finish
  <2> QED
    BY <2>2, <2>3, <2>4
<1>3. RequestInv /\ OrderInv => ResultsAreComplete
  <2> SUFFICES ASSUME RequestInv, OrderInv, stage = "results"
               PROVE  ResultsAreComplete
    BY DEF ResultsAreComplete
  <2>1. PICK wa, wk : Resting(wa, wk)
    BY DEF OrderInv
  <2> QED
    BY <2>1, RestingIsComplete DEF RequestInv
<1> QED
  BY <1>1, <1>2, <1>3, RequestInvariant, PTL DEF Spec
=============================================================================
