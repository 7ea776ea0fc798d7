--------------------------- MODULE ModelCallsProofs ---------------------------
(***************************************************************************)
(* Proofs about the calls of the local model: the budget of their prompts  *)
(* (PromptBudget), the attempts of a completion (LLMClient) and, of both   *)
(* put together with the validation of the answers (ModelCalls), what an   *)
(* attempt of a task may rely on, whatever the model answers.              *)
(***************************************************************************)
EXTENDS ModelCalls, FiniteSetTheorems, Integers, TLAPS

----------------------------------------------------------------------------
(* The prompt *)

(* What was skipped so far did not fit. *)
NoneSkipped ==
    prompt = "shrink" /\ Proportional =>
        \A q \in quota + 1 .. Longest : ~ Fits(q)

PromptInv == PromptTypeOK /\ NoneSkipped /\ KeepsAllThatFits

(* Integer division rounds down: what is beyond the quotient is beyond the *)
(* fraction. *)
LEMMA DivisionRoundsDown ==
    ASSUME NEW a \in Nat, NEW b \in Nat \ {0}
    PROVE  /\ a \div b \in Nat
           /\ a < b * (a \div b + 1)
  OBVIOUS

(* Multiplication is monotone and may be cancelled. *)
LEMMA ProductsGrow ==
    ASSUME NEW a \in Nat, NEW b \in Nat, NEW c \in Nat, a =< b
    PROVE  c * a =< c * b
  OBVIOUS

LEMMA Cancel ==
    ASSUME NEW a \in Nat, NEW b \in Nat, NEW c \in Nat, c * a < c * b
    PROVE  a < b
<1>1. ~ (b =< a)
  BY ProductsGrow
<1> QED
  BY <1>1

(* The numbers beyond n, up to m. *)
LEMMA Beyond ==
    ASSUME NEW n \in Nat, NEW m \in Nat
    PROVE  \A q \in n + 1 .. m : q \in 0 .. m /\ n < q
  OBVIOUS

(* The next quota is smaller and in range. *)
LEMMA NextQuotaIsSmaller ==
    ASSUME PromptTypeOK, ShrinkQuota
    PROVE  /\ quota \in Nat \ {0}
           /\ quota' \in 0 .. Longest
           /\ quota' < quota
           /\ quota' # quota - 1 => quota' = (quota * Bound) \div length[quota]
<1>1. quota \in Nat \ {0} /\ quota =< Longest /\ length[quota] \in Nat \ {0}
  BY PromptAssumption DEF PromptTypeOK, ShrinkQuota
<1>2. quota * Bound \in Nat
  BY <1>1, PromptAssumption
<1>3. (quota * Bound) \div length[quota] \in Nat
  BY <1>1, <1>2, DivisionRoundsDown
<1>4. quota' = Lesser(quota - 1, (quota * Bound) \div length[quota])
  BY DEF ShrinkQuota, NextQuota
<1> HIDE DEF ShrinkQuota
<1> QED
  BY <1>1, <1>3, <1>4, PromptAssumption DEF Lesser

(* A quota between the next and this one would not have fitted: its length *)
(* is at least its share of the present length, which exceeds the bound. *)
LEMMA SkippedDoNotFit ==
    ASSUME PromptTypeOK, ShrinkQuota, Proportional,
           NEW r \in 0 .. Longest, quota' < r, r < quota
    PROVE  ~ Fits(r)
<1> DEFINE L == length[quota]
           x == (quota * Bound) \div L
<1>1. /\ quota \in Nat \ {0} /\ quota \in 0 .. Longest
      /\ L \in Nat \ {0} /\ length[r] \in Nat /\ r \in Nat /\ Bound \in Nat
  BY PromptAssumption, NextQuotaIsSmaller DEF PromptTypeOK
<1>2. quota' = x
  <2>1. quota' # quota - 1
    BY <1>1, NextQuotaIsSmaller, PromptAssumption
  <2> QED
    BY <2>1, NextQuotaIsSmaller
<1>3. quota * Bound \in Nat
  BY <1>1
<1>4. x \in Nat /\ quota * Bound < L * (x + 1)
  BY <1>1, <1>3, DivisionRoundsDown
<1>5. r * L =< quota * length[r]
  BY <1>1 DEF Proportional
<1> HIDE DEF L, x
<1>6. L * (x + 1) =< L * r
  BY <1>1, <1>2, <1>4, ProductsGrow
<1>7. L * r = r * L /\ L * r \in Nat /\ L * (x + 1) \in Nat
      /\ quota * length[r] \in Nat
  BY <1>1, <1>4
<1>8. quota * Bound < quota * length[r]
  <2> DEFINE a == quota * Bound
             b == L * (x + 1)
             c == L * r
             d == quota * length[r]
  <2>1. a \in Nat /\ b \in Nat /\ c \in Nat /\ d \in Nat /\ a < b /\ b =< c
        /\ c =< d
    BY <1>3, <1>4, <1>5, <1>6, <1>7
  <2> HIDE DEF a, b, c, d
  <2>2. a < d
    BY <2>1
  <2> QED
    BY <2>2 DEF a, d
<1>9. Bound < length[r]
  BY <1>1, <1>8, Cancel
<1> QED
  BY <1>1, <1>9 DEF Fits

(* A pass that shrinks the quota skips nothing that fits. *)
LEMMA ShrinkKeepsInv ==
    ASSUME PromptInv, ShrinkQuota
    PROVE  PromptInv'
<1>1. PromptTypeOK /\ prompt = "shrink" /\ ~ Fits(quota)
      /\ prompt' = prompt /\ length' = length
  BY DEF PromptInv, ShrinkQuota
<1>2. /\ quota \in Nat \ {0}
      /\ quota' \in 0 .. Longest
      /\ quota' < quota
  BY <1>1, NextQuotaIsSmaller
<1>3. PromptTypeOK'
  BY <1>1, <1>2 DEF PromptTypeOK
<1>4. ASSUME Proportional, NEW r \in 0 .. Longest, quota' < r
      PROVE  ~ Fits(r)
  <2>1. CASE r < quota
    BY <2>1, <1>1, <1>4, SkippedDoNotFit
  <2>2. CASE r = quota
    BY <2>2, <1>1
  <2>3. CASE quota < r
    <3>1. r \in quota + 1 .. Longest
      BY <2>3, <1>2, PromptAssumption
    <3> QED
      BY <3>1, <1>1, <1>4 DEF PromptInv, NoneSkipped
  <2> QED
    BY <2>1, <2>2, <2>3, <1>2, PromptAssumption
<1>5. NoneSkipped'
  <2>1. \A q \in quota' + 1 .. Longest : q \in 0 .. Longest /\ quota' < q
    <3>1. quota' \in Nat /\ Longest \in Nat
      BY <1>2, PromptAssumption
    <3> QED
      BY <3>1, Beyond
  <2> QED
    BY <2>1, <1>1, <1>4 DEF NoneSkipped, Proportional, Fits
<1>6. KeepsAllThatFits'
  BY <1>1 DEF KeepsAllThatFits
<1> QED
  BY <1>3, <1>5, <1>6 DEF PromptInv

(* The end of the loop, either way. *)
LEMMA EndPromptKeepsInv ==
    ASSUME PromptInv, PromptFits \/ RefusePrompt
    PROVE  PromptInv'
<1>1. /\ prompt = "shrink" /\ prompt' \in {"ready", "refused"}
      /\ length' = length /\ quota' = quota
      /\ prompt' = "ready" => Fits(quota)
      /\ prompt' = "refused" => ~ Fits(0)
  BY DEF PromptFits, RefusePrompt
<1>2. PromptTypeOK'
  BY <1>1 DEF PromptInv, PromptTypeOK
<1>3. NoneSkipped'
  BY <1>1 DEF NoneSkipped
<1>4. KeepsAllThatFits'
  BY <1>1 DEF PromptInv, NoneSkipped, KeepsAllThatFits, Proportional, Fits
<1> QED
  BY <1>2, <1>3, <1>4 DEF PromptInv

(* The first pass keeps the contents whole: nothing is skipped. *)
LEMMA BeginPromptKeepsInv ==
    ASSUME BeginPrompt
    PROVE  PromptInv'
<1>1. prompt' = "shrink" /\ quota' = Longest
      /\ length' \in [0 .. Longest -> Nat \ {0}]
  BY PromptAssumption DEF BeginPrompt
<1>2. PromptTypeOK'
  BY <1>1, PromptAssumption DEF PromptTypeOK
<1>3. NoneSkipped'
  BY <1>1, PromptAssumption DEF NoneSkipped
<1>4. KeepsAllThatFits'
  BY <1>1 DEF KeepsAllThatFits
<1> QED
  BY <1>2, <1>3, <1>4 DEF PromptInv

(* The invariant of the shrinking loop. *)
THEOREM PromptInvariant == PromptSpec => []PromptInv
<1>1. PromptInit => PromptInv
  BY PromptAssumption
     DEF PromptInit, NoPayload, PromptInv, PromptTypeOK, NoneSkipped,
         KeepsAllThatFits
<1>2. ASSUME PromptInv,
             [PromptNext \/ (prompt # "shrink" /\ BeginPrompt)]_promptVars
      PROVE  PromptInv'
  <2>1. CASE ShrinkQuota
    BY <2>1, <1>2, ShrinkKeepsInv
  <2>2. CASE PromptFits \/ RefusePrompt
    BY <2>2, <1>2, EndPromptKeepsInv
  <2>3. CASE BeginPrompt
    BY <2>3, BeginPromptKeepsInv
  <2>4. CASE UNCHANGED promptVars
    BY <2>4, <1>2
       DEF promptVars, PromptInv, PromptTypeOK, NoneSkipped, KeepsAllThatFits,
           Proportional, Fits
  <2> QED
    BY <2>1, <2>2, <2>3, <2>4, <1>2 DEF PromptNext
<1> QED
  BY <1>1, <1>2, PTL DEF PromptSpec

(* A prompt that is sent fits, one that is refused cannot, and no longer   *)
(* prefix of the contents would have fitted. *)
THEOREM NothingIsDroppedNeedlessly == PromptSpec => []KeepsAllThatFits
BY PromptInvariant, PTL DEF PromptInv

(* The loop of serialize_bounded_evidence_payload ends: each pass has a    *)
(* smaller quota, and quotas are natural numbers. *)
THEOREM EveryPassShrinks == PromptSpec => QuotaShrinks
<1>1. ASSUME PromptInv,
             [PromptNext \/ (prompt # "shrink" /\ BeginPrompt)]_promptVars
      PROVE  [prompt = "shrink" /\ prompt' = "shrink"
                => quota' < quota]_promptVars
  <2>1. CASE ShrinkQuota
    BY <2>1, <1>1, NextQuotaIsSmaller DEF PromptInv
  <2>2. CASE PromptFits \/ RefusePrompt
    BY <2>2 DEF PromptFits, RefusePrompt
  <2> QED
    BY <2>1, <2>2, <1>1 DEF PromptNext
<1> QED
  BY <1>1, PromptInvariant, PTL DEF PromptSpec, QuotaShrinks

----------------------------------------------------------------------------
(* The completion *)

Attempt == [model : {"default", "complex"}, result : PostResult]

CompletionTypeOK ==
    /\ completion \in {"idle", "post", "backoff", "answered", "unavailable",
                       "broken"}
    /\ model \in {"default", "complex"}
    /\ posts \in Seq(Attempt)

(* Before another attempt every earlier one failed in a retryable way, one *)
(* is left, and the complex model has had its turn. *)
MayPost ==
    completion \in {"post", "backoff"} =>
        /\ Len(posts) < MaxAttempts
        /\ \A i \in 1 .. Len(posts) : posts[i].result = "retryable"
        /\ Len(posts) > 0 => model = "default"

(* An error that is not retried is the last attempt. *)
BreaksAtTheLast ==
    completion = "broken" => posts # <<>> /\ posts[Len(posts)].result = "broken"

CompletionInv ==
    CompletionTypeOK /\ MayPost /\ AttemptsAreShared /\ BreaksAtTheLast

(* Every attempt adds one entry to the history, the earlier ones stay. *)
LEMMA PostAppends ==
    ASSUME CompletionTypeOK, NEW kind \in PostResult, Post(kind)
    PROVE  /\ posts' \in Seq(Attempt)
           /\ Len(posts') = Len(posts) + 1
           /\ \A i \in 1 .. Len(posts) : posts'[i] = posts[i]
           /\ posts'[Len(posts) + 1] = [model |-> model, result |-> kind]
<1> DEFINE new == [model |-> model, result |-> kind]
<1>1. new \in Attempt
  BY DEF Attempt, CompletionTypeOK
<1>2. posts' = Append(posts, new) /\ posts \in Seq(Attempt)
  BY DEF Post, CompletionTypeOK
<1> HIDE DEF new
<1>3. /\ posts' \in Seq(Attempt)
      /\ Len(posts') = Len(posts) + 1
      /\ \A i \in 1 .. Len(posts) : posts'[i] = posts[i]
      /\ posts'[Len(posts) + 1] = new
  BY <1>1, <1>2
<1> QED
  BY <1>3 DEF new

(* An attempt, whatever its result, keeps what AttemptsAreShared says of   *)
(* the history. *)
LEMMA PostKeepsHistory ==
    ASSUME CompletionInv, NEW kind \in PostResult, Post(kind)
    PROVE  /\ Len(posts') \in 1 .. MaxAttempts
           /\ \A i \in 1 .. Len(posts') :
                 /\ i < Len(posts') => posts'[i].result = "retryable"
                 /\ posts'[i].model = "complex" => i = 1
           /\ posts'[Len(posts')].result = kind
<1>1. /\ CompletionTypeOK
      /\ Len(posts) < MaxAttempts
      /\ \A i \in 1 .. Len(posts) : /\ posts[i].result = "retryable"
                                    /\ posts[i].model = "complex" => i = 1
      /\ Len(posts) > 0 => model = "default"
  BY DEF CompletionInv, MayPost, AttemptsAreShared, Post
<1>2. /\ Len(posts') = Len(posts) + 1
      /\ \A i \in 1 .. Len(posts) : posts'[i] = posts[i]
      /\ posts'[Len(posts) + 1] = [model |-> model, result |-> kind]
  BY <1>1, PostAppends
<1>3. Len(posts) \in Nat /\ MaxAttempts \in Nat
  BY <1>1, CompletionAssumption DEF CompletionTypeOK
<1>4. /\ posts'[Len(posts) + 1].result = kind
      /\ posts'[Len(posts) + 1].model = model
  BY <1>2
<1>5. ASSUME NEW i \in 1 .. Len(posts')
      PROVE  /\ i < Len(posts') => posts'[i].result = "retryable"
             /\ posts'[i].model = "complex" => i = 1
  <2>1. CASE i \in 1 .. Len(posts)
    BY <2>1, <1>1, <1>2
  <2>2. CASE i = Len(posts) + 1
    BY <2>2, <1>1, <1>2, <1>3, <1>4
  <2> QED
    BY <2>1, <2>2, <1>2, <1>3
<1> QED
  BY <1>1, <1>2, <1>3, <1>4, <1>5

(* A retryable failure: all attempts so far are retryable, the next one    *)
(* goes to the default model, and it is made only if one is left. *)
LEMMA RetryableKeepsInv ==
    ASSUME CompletionInv, PostIsRetryable
    PROVE  CompletionInv'
<1>1. Post("retryable") /\ "retryable" \in PostResult
  BY DEF PostIsRetryable, PostResult
<1>2. /\ Len(posts') \in 1 .. MaxAttempts
      /\ \A i \in 1 .. Len(posts') :
            /\ i < Len(posts') => posts'[i].result = "retryable"
            /\ posts'[i].model = "complex" => i = 1
      /\ posts'[Len(posts')].result = "retryable"
  BY <1>1, PostKeepsHistory
<1>3. posts' \in Seq(Attempt)
  BY <1>1, PostAppends DEF CompletionInv
<1>4. model' = "default" /\ completion' = AfterRetryable
  BY DEF PostIsRetryable
<1>5. /\ completion' \in {"post", "backoff", "unavailable"}
      /\ completion' = "unavailable" => Len(posts') = MaxAttempts
      /\ completion' # "unavailable" => Len(posts') # MaxAttempts
  BY <1>4 DEF AfterRetryable
<1>6. CompletionTypeOK'
  BY <1>3, <1>4, <1>5 DEF CompletionTypeOK
<1>7. MayPost'
  BY <1>2, <1>4, <1>5, CompletionAssumption DEF MayPost
<1>8. AttemptsAreShared'
  BY <1>2, <1>5, CompletionAssumption DEF AttemptsAreShared
<1>9. BreaksAtTheLast'
  BY <1>5 DEF BreaksAtTheLast
<1> QED
  BY <1>6, <1>7, <1>8, <1>9 DEF CompletionInv

(* An attempt that ends the completion. *)
LEMMA LastPostKeepsInv ==
    ASSUME CompletionInv, PostIsAnswered \/ PostIsRefused \/ PostBreaks
    PROVE  CompletionInv'
<1>1. PICK kind \in PostResult :
        /\ Post(kind)
        /\ model' = model
        /\ completion' \in {"answered", "unavailable", "broken"}
        /\ completion' = "answered" => kind = "answered"
        /\ completion' = "unavailable" => kind = "refused"
        /\ completion' = "broken" => kind = "broken"
  <2>1. {"answered", "refused", "broken"} \subseteq PostResult
    BY DEF PostResult
  <2> QED
    BY <2>1 DEF PostIsAnswered, PostIsRefused, PostBreaks
<1>2. /\ Len(posts') \in 1 .. MaxAttempts
      /\ \A i \in 1 .. Len(posts') :
            /\ i < Len(posts') => posts'[i].result = "retryable"
            /\ posts'[i].model = "complex" => i = 1
      /\ posts'[Len(posts')].result = kind
  BY <1>1, PostKeepsHistory
<1>3. CompletionTypeOK'
  BY <1>1, PostAppends DEF CompletionInv, CompletionTypeOK
<1>4. MayPost'
  BY <1>1 DEF MayPost
<1>5. AttemptsAreShared'
  BY <1>1, <1>2, CompletionAssumption DEF AttemptsAreShared
<1>6. BreaksAtTheLast'
  <2>1. Len(<<>>) = 0
    OBVIOUS
  <2>2. posts' # <<>>
    BY <1>2, <2>1
  <2> QED
    BY <1>1, <1>2, <2>2 DEF BreaksAtTheLast
<1> QED
  BY <1>3, <1>4, <1>5, <1>6 DEF CompletionInv

(* A completion begins without a history. *)
LEMMA BeginCompletionKeepsInv ==
    ASSUME NEW highEffort \in BOOLEAN, NEW fits \in BOOLEAN,
           BeginCompletion(highEffort, fits)
    PROVE  CompletionInv'
<1>1. posts' = <<>> /\ Len(posts') = 0 /\ posts' \in Seq(Attempt)
  BY DEF BeginCompletion
<1>2. model' \in {"default", "complex"} /\ completion' \in {"post", "unavailable"}
  BY DEF BeginCompletion, SelectedModel
<1>3. CompletionTypeOK'
  BY <1>1, <1>2 DEF CompletionTypeOK
<1>4. MayPost'
  BY <1>1, CompletionAssumption DEF MayPost
<1>5. AttemptsAreShared'
  BY <1>1, <1>2, CompletionAssumption DEF AttemptsAreShared
<1>6. BreaksAtTheLast'
  BY <1>2 DEF BreaksAtTheLast
<1> QED
  BY <1>3, <1>4, <1>5, <1>6 DEF CompletionInv

(* The invariant holds of every completion. *)
THEOREM CompletionInvariant == CompletionSpec => []CompletionInv
<1>1. CompletionInit => CompletionInv
  BY CompletionAssumption
     DEF CompletionInit, CompletionInv, CompletionTypeOK, MayPost,
         AttemptsAreShared, BreaksAtTheLast
<1>2. ASSUME CompletionInv, [CompletionNext \/ NextCompletion]_completionVars
      PROVE  CompletionInv'
  <2>1. CASE PostIsAnswered \/ PostIsRefused \/ PostBreaks
    BY <2>1, <1>2, LastPostKeepsInv
  <2>2. CASE PostIsRetryable
    BY <2>2, <1>2, RetryableKeepsInv
  <2>3. CASE Sleep
    BY <2>3, <1>2
       DEF Sleep, CompletionInv, CompletionTypeOK, MayPost, AttemptsAreShared,
         BreaksAtTheLast
  <2>4. CASE NextCompletion
    BY <2>4, BeginCompletionKeepsInv DEF NextCompletion
  <2>5. CASE UNCHANGED completionVars
    BY <2>5, <1>2
       DEF completionVars, CompletionInv, CompletionTypeOK, MayPost,
           AttemptsAreShared, BreaksAtTheLast
  <2> QED
    BY <2>1, <2>2, <2>3, <2>4, <2>5, <1>2 DEF CompletionNext
<1> QED
  BY <1>1, <1>2, PTL DEF CompletionSpec

(* The attempts of a completion are shared and bounded (complete).  *)
THEOREM SharedAttempts == CompletionSpec => []AttemptsAreShared
BY CompletionInvariant, PTL DEF CompletionInv

----------------------------------------------------------------------------
(* The queries of an answer *)

(* Every non-empty set of natural numbers has a least element. *)
LEMMA LeastNumber ==
    ASSUME NEW T \in SUBSET Nat, T # {}
    PROVE  \E n \in T : \A m \in T : n =< m
<1> DEFINE R == OpToRel(<, Nat)
<1>1. IsWellFoundedOn(R, Nat)
  BY NatLessThanWellFounded
<1>2. \A x, y \in Nat : <<x, y>> \in R <=> x < y
  BY DEF OpToRel
<1>3. T \subseteq Nat
  OBVIOUS
<1> HIDE DEF R
<1>4. PICK x \in T : \A y \in T : ~ (<<y, x>> \in R)
  BY <1>1, <1>3, WFMin
<1>5. ASSUME NEW m \in T
      PROVE  x =< m
  <2>1. m \in Nat /\ x \in Nat
    BY <1>3
  <2>2. ~ (m < x)
    BY <2>1, <1>2, <1>4
  <2> QED
    BY <2>1, <2>2
<1> QED
  BY <1>5

(* One pass of the loop of Collected. *)
More(kept, q, n) ==
    IF \/ q = "bad"
       \/ q \in Range(kept)
       \/ Len(kept) = n
      THEN kept
    ELSE Append(kept, q)

(* f holds what the loop has kept after each of its first m passes. *)
Runs(f, list, n, m) ==
    /\ f[0] = <<>>
    /\ \A i \in 1 .. m : f[i] = More(f[i - 1], list[i], n)

(* There is a run of any length: one more pass after the longest. *)
LEMMA LoopRuns ==
    ASSUME NEW list, NEW n, NEW m \in Nat
    PROVE  \E f : f = [i \in 0 .. m |-> f[i]] /\ Runs(f, list, n, m)
<1> DEFINE Possible(j) == \E f : f = [i \in 0 .. m |-> f[i]] /\ Runs(f, list, n, j)
           T == {j \in 0 .. m : ~ Possible(j)}
<1>1. Possible(0)
  <2> DEFINE f == [i \in 0 .. m |-> <<>>]
  <2>1. f = [i \in 0 .. m |-> f[i]] /\ f[0] = <<>>
    OBVIOUS
  <2>2. Runs(f, list, n, 0)
    BY <2>1 DEF Runs
  <2> HIDE DEF f
  <2> QED
    BY <2>1, <2>2
<1>2. ASSUME NEW j \in 1 .. m, Possible(j - 1)
      PROVE  Possible(j)
  <2>1. PICK f : f = [i \in 0 .. m |-> f[i]] /\ Runs(f, list, n, j - 1)
    BY <1>2
  <2> DEFINE g == [f EXCEPT ![j] = More(f[j - 1], list[j], n)]
  <2>2. /\ g = [i \in 0 .. m |-> g[i]]
        /\ g[j] = More(f[j - 1], list[j], n)
        /\ \A i \in 0 .. j - 1 : g[i] = f[i]
    <3>1. j \in 0 .. m /\ \A i \in 0 .. j - 1 : i \in 0 .. m /\ i # j
      OBVIOUS
    <3> QED
      BY <2>1, <3>1
  <2> HIDE DEF g
  <2>3. g[0] = <<>>
    <3>1. 0 \in 0 .. j - 1
      OBVIOUS
    <3> QED
      BY <3>1, <2>1, <2>2 DEF Runs
  <2>4. ASSUME NEW i \in 1 .. j
        PROVE  g[i] = More(g[i - 1], list[i], n)
    <3>1. i - 1 \in 0 .. j - 1
      OBVIOUS
    <3>2. CASE i = j
      BY <3>1, <3>2, <2>2
    <3>3. CASE i # j
      <4>1. i \in 1 .. j - 1 /\ i \in 0 .. j - 1
        BY <3>3
      <4> QED
        BY <3>1, <4>1, <2>1, <2>2 DEF Runs
    <3> QED
      BY <3>2, <3>3
  <2> QED
    BY <2>2, <2>3, <2>4 DEF Runs
<1>3. Possible(m)
  <2> SUFFICES ASSUME T # {}
               PROVE  FALSE
    OBVIOUS
  <2>1. T \in SUBSET Nat
    OBVIOUS
  <2>2. PICK j \in T : \A k \in T : j =< k
    BY <2>1, LeastNumber
  <2>3. j \in 0 .. m /\ ~ Possible(j)
    OBVIOUS
  <2> HIDE DEF Possible
  <2>4. j \in 1 .. m /\ j - 1 \in 0 .. m /\ ~ (j =< j - 1)
    BY <2>3, <1>1
  <2>5. Possible(j - 1)
    BY <2>2, <2>4
  <2> QED
    BY <2>3, <2>4, <2>5, <1>2
<1> QED
  BY <1>3

(* What is collected is what the loop has kept at the end of the list. *)
LEMMA CollectedByARun ==
    ASSUME NEW list, Len(list) \in Nat, NEW n
    PROVE  \E f : Runs(f, list, n, Len(list)) /\ Collected(list, n) = f[Len(list)]
<1> DEFINE Defined(f) ==
             f = [i \in 0 .. Len(list) |->
                    IF i = 0 THEN <<>>
                    ELSE IF \/ list[i] = "bad"
                            \/ list[i] \in Range(f[i - 1])
                            \/ Len(f[i - 1]) = n
                      THEN f[i - 1]
                    ELSE Append(f[i - 1], list[i])]
<1>1. \E f : Defined(f)
  <2>1. PICK f : f = [i \in 0 .. Len(list) |-> f[i]] /\ Runs(f, list, n, Len(list))
    BY LoopRuns
  <2>2. \A i \in 0 .. Len(list) : f[i] = IF i = 0 THEN <<>>
                                         ELSE More(f[i - 1], list[i], n)
    BY <2>1 DEF Runs
  <2> QED
    BY <2>1, <2>2 DEF More
<1>2. PICK g : g = CHOOSE f : Defined(f)
  OBVIOUS
<1>3. Defined(g)
  BY <1>1, <1>2
<1>4. Collected(list, n) = g[Len(list)]
  BY <1>2 DEF Collected
<1>5. Runs(g, list, n, Len(list))
  <2>1. \A i \in 0 .. Len(list) : g[i] = IF i = 0 THEN <<>>
                                         ELSE More(g[i - 1], list[i], n)
    BY <1>3 DEF More
  <2>2. 0 \in 0 .. Len(list) /\ \A i \in 1 .. Len(list) : i \in 0 .. Len(list) /\ i # 0
    OBVIOUS
  <2> HIDE DEF Defined
  <2> QED
    BY <2>1, <2>2 DEF Runs
<1> QED
  BY <1>4, <1>5

(* What the loop has kept of the first i of a list. *)
Kept(s, list, n, i) ==
    /\ s \in Seq(Queries)
    /\ Len(s) =< n
    /\ \A j \in 1 .. Len(s) :
          s[j] # "bad" /\ \E k \in 1 .. i : s[j] = list[k]
    /\ \A j, k \in 1 .. Len(s) : s[j] = s[k] => j = k
    /\ i > 0 /\ n > 0 /\ list[1] # "bad" => Len(s) > 0

LEMMA MoreKeeps ==
    ASSUME NEW list \in Seq(Queries), NEW n \in Nat, NEW i \in 1 .. Len(list),
           NEW s, Kept(s, list, n, i - 1)
    PROVE  Kept(More(s, list[i], n), list, n, i)
<1> DEFINE q == list[i]
<1>1. /\ s \in Seq(Queries) /\ Len(s) \in Nat /\ Len(s) =< n
      /\ \A j \in 1 .. Len(s) :
            s[j] # "bad" /\ \E k \in 1 .. i - 1 : s[j] = list[k]
      /\ \A j, k \in 1 .. Len(s) : s[j] = s[k] => j = k
      /\ i - 1 > 0 /\ n > 0 /\ list[1] # "bad" => Len(s) > 0
  BY DEF Kept
<1>2. q \in Queries /\ i \in Nat
  OBVIOUS
<1>3. \A j \in 1 .. Len(s) : s[j] # "bad" /\ \E k \in 1 .. i : s[j] = list[k]
  <2>1. \A k \in 1 .. i - 1 : k \in 1 .. i
    OBVIOUS
  <2> QED
    BY <1>1, <2>1
<1>4. \A e : e \in Range(s) <=> \E j \in 1 .. Len(s) : s[j] = e
  BY <1>1 DEF Range
<1>5. CASE q = "bad" \/ q \in Range(s) \/ Len(s) = n
  <2>1. i > 0 /\ n > 0 /\ list[1] # "bad" => Len(s) > 0
    <3>1. CASE i = 1 /\ q \in Range(s)
      BY <3>1, <1>1, <1>4
    <3>2. CASE i = 1 /\ Len(s) = n
      BY <3>2, <1>1
    <3>3. CASE i = 1 /\ q = "bad"
      BY <3>3
    <3>4. CASE i # 1
      <4>1. i - 1 > 0
        BY <3>4
      <4> QED
        BY <4>1, <1>1
    <3> QED
      BY <3>1, <3>2, <3>3, <3>4, <1>5
  <2>2. Kept(s, list, n, i)
    BY <1>1, <1>3, <2>1 DEF Kept
  <2> QED
    BY <1>5, <2>2 DEF More
<1>6. CASE ~ (q = "bad" \/ q \in Range(s) \/ Len(s) = n)
  <2> DEFINE t == Append(s, q)
  <2>1. /\ t \in Seq(Queries) /\ Len(t) = Len(s) + 1 /\ t[Len(s) + 1] = q
        /\ \A j \in 1 .. Len(s) : t[j] = s[j]
    BY <1>1, <1>2
  <2>2. Len(t) =< n /\ Len(t) > 0
    BY <1>1, <1>6, <2>1
  <2>3. \A j \in 1 .. Len(t) : j \in 1 .. Len(s) \/ j = Len(s) + 1
    BY <1>1, <2>1
  <2> HIDE DEF t, q
  <2>4. ASSUME NEW j \in 1 .. Len(t)
        PROVE  t[j] # "bad" /\ \E k \in 1 .. i : t[j] = list[k]
    <3>1. q = list[i] /\ i \in 1 .. i
      BY DEF q
    <3>2. CASE j \in 1 .. Len(s)
      BY <3>2, <1>3, <2>1
    <3>3. CASE j = Len(s) + 1
      BY <3>1, <3>3, <1>6, <2>1
    <3> QED
      BY <3>2, <3>3, <2>3
  <2>5. \A j \in 1 .. Len(s) : s[j] # q
    BY <1>4, <1>6
  <2>6. ASSUME NEW j \in 1 .. Len(t), NEW k \in 1 .. Len(t), t[j] = t[k]
        PROVE  j = k
    <3>1. CASE j \in 1 .. Len(s) /\ k \in 1 .. Len(s)
      BY <3>1, <2>6, <1>1, <2>1
    <3>2. CASE j = Len(s) + 1 /\ k \in 1 .. Len(s)
      BY <3>2, <2>1, <2>5, <2>6
    <3>3. CASE j \in 1 .. Len(s) /\ k = Len(s) + 1
      BY <3>3, <2>1, <2>5, <2>6
    <3> QED
      BY <3>1, <3>2, <3>3, <2>3
  <2>7. Kept(t, list, n, i)
    BY <2>1, <2>2, <2>4, <2>6 DEF Kept
  <2> QED
    BY <1>6, <2>7 DEF More, t, q
<1> QED
  BY <1>5, <1>6

(* Collected returns at most n queries of the list, none of them bad or    *)
(* repeated, and some if the list begins with a good one. *)
LEMMA CollectedIsKept ==
    ASSUME NEW list \in Seq(Queries), NEW n \in Nat
    PROVE  Kept(Collected(list, n), list, n, Len(list))
<1>1. Len(list) \in Nat
  OBVIOUS
<1>2. PICK f : Runs(f, list, n, Len(list)) /\ Collected(list, n) = f[Len(list)]
  BY <1>1, CollectedByARun
<1> DEFINE T == {i \in 0 .. Len(list) : ~ Kept(f[i], list, n, i)}
<1>3. Kept(f[0], list, n, 0)
  <2>1. f[0] = <<>> /\ <<>> \in Seq(Queries) /\ Len(<<>>) = 0
    BY <1>2 DEF Runs
  <2> QED
    BY <2>1 DEF Kept
<1>4. ASSUME NEW i \in 1 .. Len(list), Kept(f[i - 1], list, n, i - 1)
      PROVE  Kept(f[i], list, n, i)
  <2>1. f[i] = More(f[i - 1], list[i], n)
    BY <1>2 DEF Runs
  <2> QED
    BY <2>1, <1>4, MoreKeeps
<1>5. T = {}
  <2> SUFFICES ASSUME T # {}
               PROVE  FALSE
    OBVIOUS
  <2>1. T \in SUBSET Nat
    OBVIOUS
  <2>2. PICK i \in T : \A k \in T : i =< k
    BY <2>1, LeastNumber
  <2>3. i \in 0 .. Len(list) /\ ~ Kept(f[i], list, n, i)
    OBVIOUS
  <2>4. i \in 1 .. Len(list) /\ i - 1 \in 0 .. Len(list) /\ ~ (i =< i - 1)
    BY <1>1, <2>3, <1>3
  <2>5. Kept(f[i - 1], list, n, i - 1)
    BY <2>2, <2>4
  <2> QED
    BY <2>3, <2>4, <2>5, <1>4
<1>6. Len(list) \in 0 .. Len(list)
  BY <1>1
<1> QED
  BY <1>2, <1>5, <1>6

----------------------------------------------------------------------------
(* What is made of an answer *)

(* What AnswersFitTheLoop asks of a list of queries taken from another. *)
FitsTheLoop(queries, source) ==
    /\ Len(queries) =< limit
    /\ AllGood(queries)
    /\ \A i, j \in DOMAIN queries : queries[i] = queries[j] => i = j
    /\ Range(queries) \subseteq Range(source)

LEMMA CollectedFits ==
    ASSUME limit \in Nat, NEW list \in Seq(Queries)
    PROVE  /\ FitsTheLoop(Collected(list, limit), list)
           /\ list = <<>> => Collected(list, limit) = <<>>
           /\ limit > 0 /\ list # <<>> /\ AllGood(list) =>
                 Collected(list, limit) # <<>>
<1>1. PICK s : s = Collected(list, limit)
  OBVIOUS
<1>2. Kept(s, list, limit, Len(list))
  BY <1>1, CollectedIsKept
<1>3. /\ s \in Seq(Queries) /\ Len(s) \in Nat /\ DOMAIN s = 1 .. Len(s)
      /\ Len(list) \in Nat /\ DOMAIN list = 1 .. Len(list)
  BY <1>2 DEF Kept
<1>4. FitsTheLoop(s, list)
  <2>1. /\ Len(s) =< limit
        /\ \A j \in 1 .. Len(s) :
              s[j] # "bad" /\ \E k \in 1 .. Len(list) : s[j] = list[k]
        /\ \A j, k \in 1 .. Len(s) : s[j] = s[k] => j = k
    BY <1>2 DEF Kept
  <2>2. \A e \in Range(s) : \E j \in 1 .. Len(s) : e = s[j]
    BY <1>3 DEF Range
  <2>3. \A k \in 1 .. Len(list) : list[k] \in Range(list)
    BY <1>3 DEF Range
  <2>4. "bad" \notin Range(s)
    BY <2>1, <2>2
  <2>5. Range(s) \subseteq Range(list)
    BY <2>1, <2>2, <2>3
  <2> QED
    BY <1>3, <2>1, <2>4, <2>5 DEF FitsTheLoop, AllGood
<1>5. ASSUME list = <<>>
      PROVE  s = <<>>
  <2>1. Len(list) = 0
    BY <1>5
  <2>2. \A j \in 1 .. Len(s) : FALSE
    BY <1>2, <2>1 DEF Kept
  <2>3. Len(s) = 0
    BY <1>3, <2>2
  <2> QED
    BY <1>3, <2>3
<1>6. ASSUME limit > 0, list # <<>>, AllGood(list)
      PROVE  s # <<>>
  <2>1. Len(list) > 0
    BY <1>3, <1>6
  <2>2. list[1] # "bad"
    BY <1>3, <1>6, <2>1 DEF AllGood, Range
  <2>3. Len(s) > 0
    BY <1>2, <1>6, <2>1, <2>2 DEF Kept
  <2> QED
    BY <2>3
<1> QED
  BY <1>1, <1>4, <1>5, <1>6

LEMMA FirstOfFacts ==
    ASSUME NEW list \in Seq(Queries), NEW n \in Nat
    PROVE  /\ FirstOf(list, n) \in Seq(Queries)
           /\ Range(FirstOf(list, n)) \subseteq Range(list)
<1>1. PICK m : m = Lesser(n, Len(list))
  OBVIOUS
<1>2. Len(list) \in Nat /\ m \in 0 .. Len(list)
  BY <1>1 DEF Lesser
<1>3. PICK first : first = SubSeq(list, 1, m)
  OBVIOUS
<1>4. /\ first \in Seq(Queries)
      /\ Len(first) = m
      /\ \A i \in 1 .. m : first[i] = list[i]
  BY <1>2, <1>3
<1>5. Range(first) \subseteq Range(list)
  <2>1. DOMAIN first = 1 .. m /\ DOMAIN list = 1 .. Len(list)
    BY <1>4
  <2> QED
    BY <1>2, <1>4, <2>1 DEF Range
<1> QED
  BY <1>1, <1>3, <1>4, <1>5 DEF FirstOf

(* Whatever the model answers, its plan fits. *)
LEMMA PlanFits ==
    ASSUME limit \in Nat, NEW a \in Answers, NEW queries,
           queries = PlannedQueries(a)
    PROVE  /\ Len(queries) =< limit
           /\ AllGood(queries)
           /\ \A i, j \in DOMAIN queries : queries[i] = queries[j] => i = j
           /\ queries # <<>> => Range(queries) \subseteq Range(a.queries)
<1>1. CASE a.shape = "prose"
  <2>1. a.queries \in Seq(Queries) /\ queries = Collected(a.queries, limit)
    BY <1>1, CallAssumption DEF Answers, PlannedQueries
  <2> QED
    BY <2>1, CollectedFits DEF FitsTheLoop
<1>2. CASE a.shape = "plan" /\ AllGood(FirstOf(a.queries, limit))
  <2>1. /\ a.queries \in Seq(Queries)
        /\ queries = Collected(FirstOf(a.queries, limit), limit)
    BY <1>2, CallAssumption DEF Answers, PlannedQueries
  <2>2. PICK list : list = FirstOf(a.queries, limit)
    OBVIOUS
  <2>3. list \in Seq(Queries) /\ Range(list) \subseteq Range(a.queries)
    BY <2>1, <2>2, FirstOfFacts
  <2>4. FitsTheLoop(queries, list)
    BY <2>1, <2>2, <2>3, CollectedFits
  <2> QED
    BY <2>3, <2>4 DEF FitsTheLoop
<1>3. CASE ~ (a.shape = "prose")
           /\ ~ (a.shape = "plan" /\ AllGood(FirstOf(a.queries, limit)))
  <2>1. queries = <<>>
    BY <1>3 DEF PlannedQueries
  <2>2. Len(queries) = 0 /\ DOMAIN queries = {} /\ Range(queries) = {}
    BY <2>1 DEF Range
  <2> QED
    BY <2>1, <2>2 DEF AllGood
<1> QED
  BY <1>1, <1>2, <1>3

(* So does an evaluation, and it is complete or asks something. *)
LEMMA EvaluationFits ==
    ASSUME limit \in Nat \ {0}, NEW a \in Answers, NEW r, r = Evaluated(a)
    PROVE  \/ r = Unavailable
           \/ /\ r.status = "evaluated"
              /\ FitsTheLoop(r.queries, a.queries)
              /\ r.complete <=> r.queries = <<>>
<1>1. CASE r # Unavailable
  <2>1. /\ a.shape = "evaluation" /\ AllGood(a.queries)
        /\ a.complete = (a.queries = <<>>)
        /\ r = [status |-> "evaluated", complete |-> a.complete,
                queries |-> Collected(a.queries, limit)]
    BY <1>1 DEF Evaluated
  <2>2. a.queries \in Seq(Queries) /\ a.complete \in BOOLEAN
    BY <2>1, CallAssumption DEF Answers
  <2>3. /\ r.status = "evaluated" /\ r.complete = a.complete
        /\ r.queries = Collected(a.queries, limit)
    BY <2>1
  <2>4. /\ FitsTheLoop(r.queries, a.queries)
        /\ a.queries = <<>> <=> r.queries = <<>>
    BY <2>1, <2>2, <2>3, CollectedFits
  <2> QED
    BY <2>1, <2>3, <2>4, Zenon
<1> QED
  BY <1>1

----------------------------------------------------------------------------
(* A call from its prompt to its result *)

(* Until the model is asked there are no attempts, and until the call ends *)
(* it has neither a result nor an answer. *)
CallOK ==
    /\ purpose \in Purposes
    /\ limit \in Nat \ {0}
    /\ retained \in SUBSET Evidence
    /\ call \in {"prepare", "serialize", "complete", "returned", "raised"}
    /\ call \in {"prepare", "serialize"} => completion = "idle" /\ posts = <<>>
    /\ call \in {"prepare", "serialize", "complete"} =>
          result = Unavailable /\ answer = NoAnswer

CallInv ==
    /\ PromptInv /\ CompletionInv
    /\ CallOK /\ AnswersFitTheLoop /\ FailuresHaveACause

(* The prompt and the completion, whoever runs them. *)
LEMMA PromptStepKeepsInv ==
    ASSUME PromptInv, PromptNext \/ BeginPrompt \/ UNCHANGED promptVars
    PROVE  PromptInv'
<1>1. CASE ShrinkQuota
  BY <1>1, ShrinkKeepsInv
<1>2. CASE PromptFits \/ RefusePrompt
  BY <1>2, EndPromptKeepsInv
<1>3. CASE BeginPrompt
  BY <1>3, BeginPromptKeepsInv
<1>4. CASE UNCHANGED promptVars
  BY <1>4
     DEF promptVars, PromptInv, PromptTypeOK, NoneSkipped, KeepsAllThatFits,
         Proportional, Fits
<1> QED
  BY <1>1, <1>2, <1>3, <1>4 DEF PromptNext

LEMMA CompletionStepKeepsInv ==
    ASSUME CompletionInv, CompletionNext \/ UNCHANGED completionVars
    PROVE  CompletionInv'
<1>1. CASE PostIsAnswered \/ PostIsRefused \/ PostBreaks
  BY <1>1, LastPostKeepsInv
<1>2. CASE PostIsRetryable
  BY <1>2, RetryableKeepsInv
<1>3. CASE Sleep
  BY <1>3
     DEF Sleep, CompletionInv, CompletionTypeOK, MayPost, AttemptsAreShared,
         BreaksAtTheLast
<1>4. CASE UNCHANGED completionVars
  BY <1>4
     DEF completionVars, CompletionInv, CompletionTypeOK, MayPost,
         AttemptsAreShared, BreaksAtTheLast
<1> QED
  BY <1>1, <1>2, <1>3, <1>4 DEF CompletionNext

(* A completion that becomes unavailable has made an attempt. *)
LEMMA FailsAfterAnAttempt ==
    ASSUME CompletionInv, CompletionNext
    PROVE  completion' = "unavailable" => posts' # <<>>
<1>1. ASSUME NEW r \in PostResult, Post(r)
      PROVE  posts' # <<>>
  <2>1. CompletionTypeOK
    BY DEF CompletionInv
  <2>2. Len(posts') = Len(posts) + 1 /\ Len(posts) \in Nat
    <3>1. Len(posts') = Len(posts) + 1
      BY <1>1, <2>1, PostAppends
    <3>2. Len(posts) \in Nat
      BY <2>1 DEF CompletionTypeOK
    <3> QED
      BY <3>1, <3>2
  <2>3. Len(posts') # 0
    BY <2>2
  <2> QED
    BY <2>3
<1>2. {"answered", "refused", "retryable", "broken"} = PostResult
  BY DEF PostResult
<1>3. CASE Sleep
  BY <1>3 DEF Sleep
<1> QED
  BY <1>1, <1>2, <1>3
     DEF CompletionNext, PostIsAnswered, PostIsRefused, PostIsRetryable, PostBreaks

LEMMA CallStepKeepsInv ==
    ASSUME CallInv, Next
    PROVE  CallInv'
<1> USE DEF CallInv
<1>1. CASE PrepareQuestion
  <2>1. PICK fits \in BOOLEAN :
          /\ BeginCompletion(TRUE, fits)
          /\ purpose = "plan" => fits
    BY <1>1 DEF PrepareQuestion
  <2>2. /\ call' = "complete" /\ purpose \in {"plan", "evaluate"}
        /\ UNCHANGED <<promptVars, purpose, limit, retained, answer, result>>
        /\ result = Unavailable /\ answer = NoAnswer
    BY <1>1 DEF PrepareQuestion, CallOK
  <2>3. PromptInv' /\ CompletionInv'
    BY <2>1, <2>2, PromptStepKeepsInv, BeginCompletionKeepsInv
  <2>4. CallOK' /\ AnswersFitTheLoop'
    BY <2>2 DEF CallOK, AnswersFitTheLoop
  <2>5. FailuresHaveACause'
    BY <2>1, <2>2 DEF FailuresHaveACause, BeginCompletion
  <2> QED
    BY <2>3, <2>4, <2>5
<1>2. CASE PrepareEvidence
  <2>1. /\ call = "prepare" /\ purpose \in {"claims", "candidates"}
        /\ \/ retained = {} /\ call' = "returned" /\ UNCHANGED promptVars
           \/ retained # {} /\ call' = "serialize" /\ BeginPrompt
        /\ UNCHANGED <<completionVars, purpose, limit, retained, answer, result>>
        /\ result = Unavailable /\ completion = "idle" /\ posts = <<>>
    BY <1>2 DEF PrepareEvidence, CallOK
  <2>2. PromptInv' /\ CompletionInv'
    BY <2>1, PromptStepKeepsInv, CompletionStepKeepsInv
  <2>3. completion' = "idle" /\ posts' = <<>>
    BY <2>1 DEF completionVars
  <2>4. result'.status = "unavailable"
    BY <2>1 DEF Unavailable
  <2>5. CallOK' /\ FailuresHaveACause'
    BY <2>1, <2>3 DEF CallOK, FailuresHaveACause
  <2>6. AnswersFitTheLoop'
    BY <2>1, <2>3, <2>4 DEF AnswersFitTheLoop
  <2> QED
    BY <2>2, <2>5, <2>6
<1>3. CASE Serialize
  <2>1. call = "serialize" /\ PromptNext /\ UNCHANGED <<completionVars, callVars>>
    BY <1>3 DEF Serialize
  <2>2. PromptInv' /\ CompletionInv'
    BY <2>1, PromptStepKeepsInv, CompletionStepKeepsInv
  <2>3. UNCHANGED <<completion, posts, purpose, limit, retained, call, answer,
                    result>>
    BY <2>1 DEF completionVars, callVars
  <2>4. CallOK' /\ AnswersFitTheLoop' /\ FailuresHaveACause'
    BY <2>1, <2>3
       DEF CallOK, AnswersFitTheLoop, FailuresHaveACause
  <2> QED
    BY <2>2, <2>4
<1>4. CASE EndSerialize
  <2>1. /\ call = "serialize" /\ result = Unavailable
        /\ UNCHANGED <<promptVars, purpose, limit, retained, answer, result>>
    BY <1>4 DEF EndSerialize, CallOK
  <2>2. CASE /\ prompt = "ready"
             /\ BeginCompletion(TRUE, length[quota] =< MessageBound)
             /\ call' = "complete"
    (* What fits the serializer fits the client. *)
    <3>1. length[quota] =< MessageBound
      <4>1. length[quota] \in Nat /\ length[quota] =< Bound
        BY <2>2 DEF PromptInv, PromptTypeOK, KeepsAllThatFits, Fits
      <4> QED
        BY <4>1, CallAssumption, PromptAssumption
    <3>2. PICK fits \in BOOLEAN : fits /\ BeginCompletion(TRUE, fits)
      <4>1. (length[quota] =< MessageBound) \in BOOLEAN
        BY <3>1
      <4> QED
        BY <4>1, <3>1, <2>2, Zenon
    <3>3. PromptInv' /\ CompletionInv'
      BY <2>1, <3>2, PromptStepKeepsInv, BeginCompletionKeepsInv
    <3>4. CallOK' /\ AnswersFitTheLoop'
      BY <2>1, <2>2 DEF CallOK, AnswersFitTheLoop
    <3>5. FailuresHaveACause'
      BY <2>1, <2>2, <3>2 DEF FailuresHaveACause, BeginCompletion
    <3> QED
      BY <3>3, <3>4, <3>5
  <2>3. CASE prompt = "refused" /\ call' = "raised" /\ UNCHANGED completionVars
    <3>1. PromptInv' /\ CompletionInv'
      BY <2>1, <2>3, PromptStepKeepsInv, CompletionStepKeepsInv
    <3>2. UNCHANGED <<completion, posts, prompt>>
      BY <2>1, <2>3 DEF completionVars, promptVars
    <3>3. CallOK' /\ AnswersFitTheLoop' /\ FailuresHaveACause'
      BY <2>1, <2>3, <3>2
         DEF CallOK, AnswersFitTheLoop, FailuresHaveACause
    <3> QED
      BY <3>1, <3>3
  <2> QED
    BY <2>2, <2>3, <1>4 DEF EndSerialize
<1>5. CASE Complete
  <2>1. call = "complete" /\ CompletionNext /\ UNCHANGED <<promptVars, callVars>>
    BY <1>5 DEF Complete
  <2>2. PromptInv' /\ CompletionInv'
    BY <2>1, PromptStepKeepsInv, CompletionStepKeepsInv
  <2>3. UNCHANGED <<prompt, purpose, limit, retained, call, answer, result>>
    BY <2>1 DEF promptVars, callVars
  <2>4. completion' = "unavailable" => posts' # <<>>
    BY <2>1, FailsAfterAnAttempt
  <2>5. CallOK' /\ AnswersFitTheLoop' /\ FailuresHaveACause'
    BY <2>1, <2>3, <2>4
       DEF CallOK, AnswersFitTheLoop, FailuresHaveACause
  <2> QED
    BY <2>2, <2>5
<1>6. CASE Validate
  <2>1. /\ call = "complete" /\ completion = "answered" /\ call' = "returned"
        /\ UNCHANGED <<promptVars, completionVars, purpose, limit, retained>>
        /\ limit \in Nat \ {0} /\ purpose \in Purposes
    BY <1>6 DEF Validate, CallOK
  <2>2. PICK a \in Answers :
          /\ answer' = a
          /\ result' = CASE purpose = "plan" ->
                              [status |-> "planned", queries |-> PlannedQueries(a)]
                         [] purpose = "evaluate" -> Evaluated(a)
                         [] OTHER -> Verified(a)
    BY <1>6 DEF Validate
  <2>3. PromptInv' /\ CompletionInv'
    BY <2>1, PromptStepKeepsInv, CompletionStepKeepsInv
  <2>4. UNCHANGED <<completion, posts, prompt>>
    BY <2>1 DEF completionVars, promptVars
  <2>5. CallOK' /\ FailuresHaveACause'
    BY <2>1, <2>4 DEF CallOK, FailuresHaveACause
  <2>6. CASE purpose = "plan"
    <3>1. PICK queries : queries = PlannedQueries(a)
      OBVIOUS
    <3>2. result' = [status |-> "planned", queries |-> queries]
      BY <2>2, <2>6, <3>1
    <3>3. result'.status = "planned" /\ result'.queries = queries
      BY <3>2
    <3>4. /\ Len(queries) =< limit
          /\ AllGood(queries)
          /\ \A i, j \in DOMAIN queries : queries[i] = queries[j] => i = j
          /\ queries # <<>> => Range(queries) \subseteq Range(a.queries)
      BY <2>1, <3>1, PlanFits
    <3>5. AnswersFitTheLoop'
      BY <2>1, <2>2, <3>3, <3>4 DEF AnswersFitTheLoop
    <3> QED
      BY <2>3, <2>5, <3>5
  <2>7. CASE purpose = "evaluate"
    <3>1. result' = Evaluated(a)
      BY <2>2, <2>7
    <3>2. \/ result' = Unavailable
          \/ /\ result'.status = "evaluated"
             /\ FitsTheLoop(result'.queries, a.queries)
             /\ result'.complete <=> result'.queries = <<>>
      BY <2>1, <3>1, EvaluationFits
    <3>3. CASE result' = Unavailable
      <4>1. result'.status = "unavailable"
        BY <3>3 DEF Unavailable
      <4> QED
        BY <4>1, <2>1, <2>3, <2>5, <2>7 DEF AnswersFitTheLoop
    <3>4. CASE /\ result'.status = "evaluated"
               /\ FitsTheLoop(result'.queries, a.queries)
               /\ result'.complete <=> result'.queries = <<>>
      <4>1. /\ Len(result'.queries) =< limit' /\ AllGood(result'.queries)
            /\ \A i, j \in DOMAIN result'.queries :
                  result'.queries[i] = result'.queries[j] => i = j
            /\ Range(result'.queries) \subseteq Range(answer'.queries)
        BY <3>4, <2>1, <2>2 DEF FitsTheLoop
      <4>2. AnswersFitTheLoop'
        BY <4>1, <3>4 DEF AnswersFitTheLoop
      <4> QED
        BY <4>2, <2>3, <2>5
    <3> QED
      BY <3>2, <3>3, <3>4
  <2>8. CASE purpose \in {"claims", "candidates"}
    <3>1. result' = Verified(a)
      BY <2>2, <2>8
    <3>2. \/ result' = Unavailable
          \/ result' = [status |-> "verified",
                        items |-> {c \in Range(a.items) : Supported(c)}]
      BY <3>1 DEF Verified
    <3>3. result'.status \in {"unavailable", "verified"}
      BY <3>2 DEF Unavailable
    <3>4. AnswersFitTheLoop'
      BY <3>3 DEF AnswersFitTheLoop
    <3> QED
      BY <2>3, <2>5, <3>4
  <2> QED
    BY <2>1, <2>6, <2>7, <2>8 DEF Purposes
<1>7. CASE DecodingBreaks
  <2>1. /\ call = "complete" /\ completion = "answered" /\ call' = "raised"
        /\ answer' = Undecodable /\ result' = Unavailable
        /\ UNCHANGED <<promptVars, completionVars, purpose, limit, retained>>
    BY <1>7 DEF DecodingBreaks, CallOK
  <2>2. PromptInv' /\ CompletionInv'
    BY <2>1, PromptStepKeepsInv, CompletionStepKeepsInv
  <2>3. UNCHANGED <<completion, posts, prompt>>
    BY <2>1 DEF completionVars, promptVars
  <2>4. result'.status = "unavailable"
    BY <2>1 DEF Unavailable
  <2>5. CallOK' /\ AnswersFitTheLoop' /\ FailuresHaveACause'
    BY <2>1, <2>3, <2>4 DEF CallOK, AnswersFitTheLoop, FailuresHaveACause
  <2> QED
    BY <2>2, <2>5
<1>8. CASE ModelUnavailable
  <2>1. /\ call = "complete" /\ call' = "returned"
        /\ result' = IF purpose = "plan" THEN [status |-> "planned", queries |-> <<>>]
                     ELSE Unavailable
        /\ UNCHANGED <<promptVars, completionVars, purpose, limit, retained, answer>>
        /\ limit \in Nat
    BY <1>8 DEF ModelUnavailable, CallOK
  <2>2. PromptInv' /\ CompletionInv'
    BY <2>1, PromptStepKeepsInv, CompletionStepKeepsInv
  <2>3. UNCHANGED <<completion, posts, prompt>>
    BY <2>1 DEF completionVars, promptVars
  <2>4. CallOK' /\ FailuresHaveACause'
    BY <2>1, <2>3 DEF CallOK, FailuresHaveACause
  <2>5. \/ result'.status = "planned" /\ result'.queries = <<>>
        \/ result'.status = "unavailable"
    BY <2>1 DEF Unavailable
  <2>7. AnswersFitTheLoop'
    <3>1. Len(<<>>) = 0 /\ DOMAIN <<>> = {} /\ Range(<<>>) = {}
      BY DEF Range
    <3> QED
      BY <2>1, <2>5, <3>1 DEF AnswersFitTheLoop, AllGood
  <2> QED
    BY <2>2, <2>4, <2>7
<1>9. CASE ModelBreaks
  <2>1. /\ call = "complete" /\ completion = "broken" /\ call' = "raised"
        /\ UNCHANGED <<promptVars, completionVars, purpose, limit, retained,
                       answer, result>>
    BY <1>9 DEF ModelBreaks
  <2>2. PromptInv' /\ CompletionInv'
    BY <2>1, PromptStepKeepsInv, CompletionStepKeepsInv
  <2>3. UNCHANGED <<completion, posts, prompt>>
    BY <2>1 DEF completionVars, promptVars
  <2>4. CallOK' /\ AnswersFitTheLoop' /\ FailuresHaveACause'
    <3>1. posts # <<>> /\ posts[Len(posts)].result = "broken"
      BY <2>1 DEF CompletionInv, BreaksAtTheLast
    <3>2. result = Unavailable /\ answer = NoAnswer
      BY <2>1 DEF CallOK
    <3> QED
      BY <2>1, <2>3, <3>1, <3>2
         DEF CallOK, AnswersFitTheLoop, FailuresHaveACause
  <2> QED
    BY <2>2, <2>4
<1>10. CASE Over
  <2>1. UNCHANGED <<promptVars, completionVars, callVars>>
    BY <1>10 DEF Over, vars
  <2>2. PromptInv' /\ CompletionInv'
    BY <2>1, PromptStepKeepsInv, CompletionStepKeepsInv
  <2>3. UNCHANGED <<completion, posts, prompt, purpose, limit, retained, call,
                    answer, result>>
    BY <2>1 DEF completionVars, promptVars, callVars
  <2>4. CallOK' /\ AnswersFitTheLoop' /\ FailuresHaveACause'
    BY <2>3
       DEF CallOK, AnswersFitTheLoop, FailuresHaveACause
  <2> QED
    BY <2>2, <2>4
<1> QED
  BY <1>1, <1>2, <1>3, <1>4, <1>5, <1>6, <1>7, <1>8, <1>9, <1>10
     DEF Next

(* The inductive invariant of a call: its prompt, its completion, and what *)
(* it has returned. *)
THEOREM CallInvariant == Spec => []CallInv
<1>1. Init => CallInv
  <2> SUFFICES ASSUME Init
               PROVE  CallInv
    OBVIOUS
  <2>1. PromptInv
    BY PromptAssumption
       DEF Init, PromptInit, NoPayload, PromptInv, PromptTypeOK, NoneSkipped,
           KeepsAllThatFits
  <2>2. CompletionInv
    BY CompletionAssumption
       DEF Init, CompletionInit, CompletionInv, CompletionTypeOK, MayPost,
           AttemptsAreShared, BreaksAtTheLast
  <2>3. limit \in Nat \ {0}
    BY CallAssumption DEF Init
  <2>4. CallOK /\ AnswersFitTheLoop /\ FailuresHaveACause
    BY <2>3
       DEF Init, CompletionInit, CallOK, AnswersFitTheLoop,
           FailuresHaveACause
  <2> QED
    BY <2>1, <2>2, <2>4 DEF CallInv
<1>2. ASSUME CallInv, [Next]_vars
      PROVE  CallInv'
  <2>1. CASE UNCHANGED vars
    <3>1. UNCHANGED <<promptVars, completionVars, callVars>>
      BY <2>1 DEF vars
    <3>2. PromptInv' /\ CompletionInv'
      BY <1>2, <3>1, PromptStepKeepsInv, CompletionStepKeepsInv DEF CallInv
    <3>3. CallOK' /\ AnswersFitTheLoop' /\ FailuresHaveACause'
      BY <1>2, <3>1
         DEF CallInv, CallOK, AnswersFitTheLoop,
             FailuresHaveACause, completionVars, promptVars, callVars
    <3> QED
      BY <3>2, <3>3 DEF CallInv
  <2> QED
    BY <2>1, <1>2, CallStepKeepsInv
<1> QED
  BY <1>1, <1>2, PTL DEF Spec

(* Whatever the model answers, a plan and an evaluation are queries the    *)
(* research loop can run: few enough, well formed, distinct and the        *)
(* model's own (plan_queries, validate_evaluation). *)
THEOREM AnswersAlwaysFit == Spec => []AnswersFitTheLoop
BY CallInvariant, PTL DEF CallInv

(* A call raises only if its metadata is too long, its last attempt met an *)
(* error that is not retried, or its answer cannot be decoded; and the     *)
(* client accepts every prompt that the serializer has bounded             *)
(* (serialize_bounded_evidence_payload, complete,                          *)
(* parse_single_json_object). *)
THEOREM RaisedCallsHaveACause == Spec => []FailuresHaveACause
BY CallInvariant, PTL DEF CallInv

(* In a call as on its own, a prompt keeps all the content that fits, and  *)
(* the attempts of the completion are shared and bounded. *)
THEOREM CallKeepsItsBounds == Spec => [](KeepsAllThatFits /\ AttemptsAreShared)
BY CallInvariant, PTL DEF CallInv, PromptInv, CompletionInv
=============================================================================
