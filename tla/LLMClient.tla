------------------------------ MODULE LLMClient ------------------------------
(***************************************************************************)
(* One completion of the local model client (llm.py): a bounded number of  *)
(* attempts shared by the complex model, which gets one, and the default   *)
(* model, which is retried after a backoff.                                *)
(***************************************************************************)
EXTENDS Naturals, Sequences

CONSTANTS MaxAttempts,      \* _MAX_ATTEMPTS
          HasComplexModel   \* a complex model is configured

ASSUME CompletionAssumption ==
    /\ MaxAttempts \in Nat \ {0}
    /\ HasComplexModel \in BOOLEAN

(* answered:  a non-blank string                                           *)
(* refused:   another status, a redirect, or a body that is no completion  *)
(* retryable: ConnectError, TimeoutException or a retryable status         *)
(* broken:    another httpx error (a read error, a protocol error), or a   *)
(*            RecursionError of a body nested too deep to decode, which    *)
(*            _request does not catch                                      *)
PostResult == {"answered", "refused", "retryable", "broken"}

VARIABLES completion,   \* idle, post or backoff; then how it ended
          model,        \* the model of the next attempt
          posts         \* history: attempts made, with their results

completionVars == <<completion, model, posts>>

CompletionInit ==
    /\ completion = "idle"
    /\ model = "default"
    /\ posts = <<>>

SelectedModel(highEffort) ==
    IF highEffort /\ HasComplexModel THEN "complex" ELSE "default"

(* An oversized message is refused before any attempt. *)
BeginCompletion(highEffort, fits) ==
    /\ model' = SelectedModel(highEffort)
    /\ completion' = IF fits THEN "post" ELSE "unavailable"
    /\ posts' = <<>>

ForgetCompletion ==
    /\ completion' = "idle"
    /\ model' = "default"
    /\ posts' = <<>>

(* What follows a retryable failure. *)
AfterRetryable_OwnBudget ==
    IF model = "complex" THEN "post"
    ELSE IF Len(SelectSeq(posts', LAMBDA p : p.model = "default")) = MaxAttempts
      THEN "unavailable" ELSE "backoff"

AfterRetryable ==
    IF Len(posts') = MaxAttempts THEN "unavailable"
    ELSE IF model = "complex" THEN "post"
    ELSE "backoff"

Post(result) ==
    /\ completion = "post"
    /\ posts' = Append(posts, [model |-> model, result |-> result])

PostIsAnswered ==
    /\ Post("answered")
    /\ completion' = "answered"
    /\ UNCHANGED model

PostIsRefused ==
    /\ Post("refused")
    /\ completion' = "unavailable"
    /\ UNCHANGED model

PostIsRetryable ==
    /\ Post("retryable")
    /\ completion' = AfterRetryable
    /\ model' = "default"

PostBreaks ==
    /\ Post("broken")
    /\ completion' = "broken"
    /\ UNCHANGED model

Sleep ==
    /\ completion = "backoff"
    /\ completion' = "post"
    /\ UNCHANGED <<model, posts>>

CompletionNext ==
    \/ PostIsAnswered
    \/ PostIsRefused
    \/ PostIsRetryable
    \/ PostBreaks
    \/ Sleep

(* A client on its own, for the proofs: one completion after the other. *)
Ended == completion \in {"idle", "answered", "unavailable", "broken"}

NextCompletion ==
    /\ Ended
    /\ \E highEffort, fits \in BOOLEAN : BeginCompletion(highEffort, fits)

CompletionSpec ==
    CompletionInit /\ [][CompletionNext \/ NextCompletion]_completionVars

----------------------------------------------------------------------------
(* Properties *)

(* The complex model and the default one share _MAX_ATTEMPTS: the complex  *)
(* one is tried at most once and first, an attempt follows a retryable     *)
(* failure only, and the client gives up on a refusal, on an invalid       *)
(* request or when the attempts are used up, never before (complete). *)
AttemptsAreShared ==
    LET last == Len(posts) IN
    /\ last =< MaxAttempts
    /\ \A i \in 1 .. last :
          /\ i < last => posts[i].result = "retryable"
          /\ posts[i].model = "complex" => i = 1
    /\ completion = "answered" => last > 0 /\ posts[last].result = "answered"
    /\ completion = "unavailable" /\ last > 0 =>
          posts[last].result = "refused" \/ last = MaxAttempts
    /\ completion = "backoff" => 0 < last /\ last < MaxAttempts
=============================================================================
