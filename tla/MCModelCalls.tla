---------------------------- MODULE MCModelCalls ----------------------------
(* Model-checking instance of ModelCalls.  A payload has m characters of   *)
(* metadata and two contents of at most 6 characters; their characters     *)
(* cost one or two each, or, in the uneven ones, six from the fourth on.   *)
EXTENDS ModelCalls

MCQuotas == 0 .. Longest

MCPayloads ==
    {[q \in MCQuotas |-> m + q + c * Lesser(q, n)] :
        m \in {1, 4, 9}, c \in {0, 1, 2}, n \in {0, 3, 6}}
    \cup {[q \in MCQuotas |-> m + IF q < 4 THEN q ELSE 3 + 6 * (q - 3)] : m \in {1, 4}}

MCQueryLists == SeqOf({"q1", "q2"}, 3) \cup {<<"bad">>, <<"q1", "bad">>, <<"q1", "q2", "bad">>}

MCUrlOf == [e \in {"e1", "e2", "e3"} |-> e]

MCCitations ==
    [wellFormed : {TRUE}, ids : SUBSET {"e1", "e2", "e3"}, urls : {{}, {"e1"}, {"e2", "e3"}}]
    \cup [wellFormed : {FALSE}, ids : {{"e1"}}, urls : {{}}]
=============================================================================
