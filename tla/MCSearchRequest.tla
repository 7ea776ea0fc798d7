-------------------------- MODULE MCSearchRequest --------------------------
(* Model-checking instance of SearchRequest.  The urls "a" and "a/" are    *)
(* one page to the orchestrator and two to an adapter, "a" and "A" the     *)
(* other way round; "bad" is rejected and "[" is malformed.                *)
EXTENDS SearchRequest, TLC

MCRecords == {"a", "A", "a/", "b", "c", "bad", "["}

MCQuality ==
    [r \in MCRecords |-> CASE r = "bad" -> "rejected"
                           [] r = "["   -> "malformed"
                           [] OTHER     -> "valid"]

MCRawKey == [r \in MCRecords |-> IF r = "A" THEN "a" ELSE r]
MCKey    == [r \in MCRecords |-> IF r = "a/" THEN "a" ELSE r]

MCAnswers ==
    {<<>>, <<"a", "A", "a/", "a", "b">>, <<"a/", "bad", "A">>, <<"b", "[", "c">>}

MCResolutions == {{}, {2, 3}, {1, 2}}
=============================================================================
