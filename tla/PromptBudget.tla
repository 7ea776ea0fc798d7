----------------------------- MODULE PromptBudget -----------------------------
(***************************************************************************)
(* serialize_bounded_evidence_payload (prompt_budget.py): every evidence   *)
(* item keeps its metadata and the first `quota` characters of its         *)
(* content.  The quota shrinks until the serialized payload fits.          *)
(*                                                                         *)
(* A payload is the function from a quota to the length of its JSON text:  *)
(* metadata, escapes and the number of items are all the algorithm sees of *)
(* it, through that length.                                                *)
(***************************************************************************)
EXTENDS Naturals

CONSTANTS Bound,     \* _MAX_USER_MESSAGE_CHARS
          Longest,   \* characters of the longest content
          Payloads   \* bound: the payloads considered

ASSUME PromptAssumption ==
    /\ Bound \in Nat
    /\ Longest \in Nat
    /\ Payloads \subseteq [0 .. Longest -> Nat \ {0}]

VARIABLES prompt,    \* idle or shrink; then ready, or refused (ValueError)
          length,    \* the payload
          quota      \* characters of content each item keeps

promptVars == <<prompt, length, quota>>

NoPayload == [q \in 0 .. Longest |-> 1]

PromptInit ==
    /\ prompt = "idle"
    /\ length = NoPayload
    /\ quota = 0

BeginPrompt ==
    /\ prompt' = "shrink"
    /\ length' \in Payloads
    /\ quota' = Longest

Fits_ContentOnly(q) == q =< Bound

Fits(q) == length[q] =< Bound

Lesser(a, b) == IF a =< b THEN a ELSE b

NextQuota_Halves(q) == q \div 2

(* max(0, min(quota - 1, scaled_quota)) *)
NextQuota(q) == Lesser(q - 1, (q * Bound) \div length[q])

PromptFits ==
    /\ prompt = "shrink"
    /\ Fits(quota)
    /\ prompt' = "ready"
    /\ UNCHANGED <<length, quota>>

ShrinkQuota ==
    /\ prompt = "shrink"
    /\ ~ Fits(quota)
    /\ quota # 0
    /\ quota' = NextQuota(quota)
    /\ UNCHANGED <<prompt, length>>

RefusePrompt ==
    /\ prompt = "shrink"
    /\ ~ Fits(quota)
    /\ quota = 0
    /\ prompt' = "refused"
    /\ UNCHANGED <<length, quota>>

PromptNext == PromptFits \/ ShrinkQuota \/ RefusePrompt

(* The serializer on its own, for the proofs. *)
PromptSpec ==
    PromptInit /\ [][PromptNext \/ (prompt # "shrink" /\ BeginPrompt)]_promptVars

----------------------------------------------------------------------------
(* Properties *)

PromptTypeOK ==
    /\ prompt \in {"idle", "shrink", "ready", "refused"}
    /\ length \in [0 .. Longest -> Nat \ {0}]
    /\ quota \in 0 .. Longest

(* Characters of an item cost about the same: a shorter prefix of the      *)
(* contents costs at least its share of the length, since the metadata is  *)
(* paid for in full. *)
Proportional ==
    \A p, q \in 0 .. Longest : p =< q => p * length[q] =< q * length[p]

(* The prompt fits, or nothing but metadata does not fit; and the scaled   *)
(* quota never jumps over one that would have fitted, so no evidence is    *)
(* dropped needlessly (serialize_bounded_evidence_payload "Content is      *)
(* distributed evenly and reduced using the actual serialized size"). *)
KeepsAllThatFits ==
    /\ prompt = "ready" => Fits(quota)
    /\ prompt = "refused" => ~ Fits(0)
    /\ prompt \in {"ready", "refused"} /\ Proportional =>
          \A q \in quota + 1 .. Longest : ~ Fits(q)

(* Every pass of the `while True` makes the quota smaller. *)
QuotaShrinks ==
    [][prompt = "shrink" /\ prompt' = "shrink" => quota' < quota]_promptVars
=============================================================================
