---------------------------- MODULE ContentFetch ----------------------------
(***************************************************************************)
(* One fetch of an untrusted url (extract.py): every hop resolves the host *)
(* again, is refused if any address is blocked, and sends one request to   *)
(* an address that was vetted; redirects are followed by the fetcher       *)
(* itself, up to a bound.                                                  *)
(***************************************************************************)
EXTENDS Naturals, Sequences, FiniteSetsExt

CONSTANTS Urls,           \* urls a fetch may start at or be redirected to
          Fetchable,      \* those with a http(s) scheme and a hostname
          Blocked,        \* addresses Rancho must never connect to
          Resolutions,    \* bound: the address sets a name may resolve to
          MaxRedirects    \* _MAX_REDIRECTS

ASSUME FetchAssumption ==
    /\ Fetchable \subseteq Urls
    /\ \A addresses \in Resolutions : addresses \subseteq Nat
    /\ MaxRedirects \in Nat

VARIABLES fetch,      \* idle, resolve or request; then how the fetch ended
          current,    \* the url of this hop
          seen,       \* urls of this hop and the hops before
          pin,        \* the vetted address of this hop
          requests    \* history: requests sent, with their addresses

fetchVars == <<fetch, current, seen, pin, requests>>

NoUrl == "none"

FetchInit ==
    /\ fetch = "idle"
    /\ current = NoUrl
    /\ seen = {}
    /\ pin = 0
    /\ requests = <<>>

BeginFetch(url) ==
    /\ fetch' = "resolve"
    /\ current' = url
    /\ seen' = {}
    /\ pin' = 0
    /\ requests' = <<>>

(* Its caller has used the result: the local state of the fetch is gone. *)
ForgetFetch ==
    /\ fetch' = "idle"
    /\ current' = NoUrl
    /\ seen' = {}
    /\ pin' = 0
    /\ requests' = <<>>

(* The guards at the head of a hop of _follow: the hop bound, the loop     *)
(* check and the scheme. *)
HopAllowed_NoLoopCheck ==
    /\ Len(requests) =< MaxRedirects
    /\ current \in Fetchable

HopAllowed ==
    /\ Len(requests) =< MaxRedirects
    /\ current \notin seen
    /\ current \in Fetchable

(* _resolve_and_vet: no address, or a blocked one among them, refuses. *)
Vetted(addresses) == addresses # {} /\ addresses \cap Blocked = {}

RefuseHop ==
    /\ fetch = "resolve"
    /\ ~ HopAllowed
    /\ fetch' = "unavailable"
    /\ UNCHANGED <<current, seen, pin, requests>>

ResolveHost ==
    /\ fetch = "resolve"
    /\ HopAllowed
    /\ seen' = seen \cup {current}
    /\ \E addresses \in Resolutions :
          \/ /\ ~ Vetted(addresses)
             /\ fetch' = "unavailable"
             /\ UNCHANGED pin
          \/ /\ Vetted(addresses)
             /\ pin' = Min(addresses)
             /\ fetch' = "request"
    /\ UNCHANGED <<current, requests>>

(* _fetch_once.  A redirect without a location, an error status, another   *)
(* media type, a body over the cap, a network error and a ValueError make  *)
(* the content unavailable; a defect is an exception that fetch does not   *)
(* catch, such as the RecursionError of converting a deeply nested page.   *)
SendRequest(result) ==
    /\ fetch = "request"
    /\ requests' = Append(requests, [url |-> current, address |-> pin])
    /\ fetch' = result
    /\ UNCHANGED <<seen, pin>>

FollowRedirect ==
    /\ SendRequest("resolve")
    /\ current' \in Urls

ReceivePage == SendRequest("page") /\ UNCHANGED current

ReceiveNothing ==
    /\ \E result \in {"unavailable", "defect"} : SendRequest(result)
    /\ UNCHANGED current

FetchNext ==
    \/ RefuseHop
    \/ ResolveHost
    \/ FollowRedirect
    \/ ReceivePage
    \/ ReceiveNothing

----------------------------------------------------------------------------
(* Properties *)

(* However names resolve again and servers redirect, a fetch ends after    *)
(* _MAX_REDIRECTS + 1 requests, never sends one to a blocked address, asks *)
(* no url twice, and the page it returns carries the url of its last       *)
(* request (extract.py "raises a typed error; it never fabricates          *)
(* content"). *)
FetchesAreContained ==
    /\ Len(requests) =< MaxRedirects + 1
    /\ \A i, j \in DOMAIN requests :
          /\ requests[i].address \notin Blocked
          /\ requests[i].url \in Fetchable
          /\ requests[i].url = requests[j].url => i = j
    /\ fetch = "page" => requests[Len(requests)].url = current
=============================================================================
