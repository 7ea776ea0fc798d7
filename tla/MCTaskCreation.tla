--------------------------- MODULE MCTaskCreation ---------------------------
(* Model-checking instance of TaskCreation: two clients send the same      *)
(* research request with one key, a third sends another body with that     *)
(* key, and one sends a monitor with it; "bare" has no key.                *)
EXTENDS TaskCreation

CONSTANTS r1, r2, other, bare, mon1, mon2, k

MCKeyOf == [r \in Requests |-> IF r = bare THEN NoKey ELSE k]
MCBodyOf == [r \in Requests |->
                CASE r \in {r1, r2} -> "wanted"
                  [] r = other      -> "other"
                  [] r = bare       -> "bare"
                  [] OTHER          -> "watched"]
=============================================================================
