------------------------------ MODULE Admission -----------------------------
(***************************************************************************)
(* The economic gate of one request in _run_pipeline: its cost is          *)
(* estimated from token counts, the execution policy kernel (EPK) decides  *)
(* on the estimate and the balance, the decision matrix picks the tier of  *)
(* an allowed request, and the tier decides what the tokens really cost.   *)
(***************************************************************************)
EXTENDS Kernel

CONSTANTS
  InputTokens,      \* message and history tokens a request may have
  EmbeddingTokens,  \* tokens retrieval may have embedded
  RerankTokens,     \* tokens retrieval may have reranked
  Balances          \* balances, in nano-dollars

ASSUME ConstantsAssumption ==
  /\ InputTokens \subseteq Nat
  /\ EmbeddingTokens \subseteq Nat
  /\ RerankTokens \subseteq Nat
  /\ Balances \subseteq Nat

VARIABLES
  request,    \* token counts and complexity
  balance,    \* request.user_balance
  stage,      \* how far _run_pipeline is
  estimated,  \* estimated cost
  decision,   \* what the EPK returned
  tier,       \* the tier the request is executed on
  due         \* what it costs if it uses the tokens that were estimated

vars == <<request, balance, stage, estimated, decision, tier, due>>

Inputs == [input : InputTokens, complexity : Complexities,
           embedding : EmbeddingTokens, rerank : RerankTokens]

Init == /\ request \in Inputs
        /\ balance \in Balances
        /\ stage = "received"
        /\ estimated = 0
        /\ decision = "DENY"
        /\ tier = "FAST"
        /\ due = 0

Estimate ==
  /\ stage = "received"
  /\ stage' = "estimated"
  /\ estimated' = EstimateOf(request)
  /\ UNCHANGED <<request, balance, decision, tier, due>>

Evaluate ==
  /\ stage = "estimated"
  /\ decision' = evaluate(estimated, balance, request.complexity)
  /\ stage' = IF decision' = "DENY" THEN "denied" ELSE "decided"
  /\ UNCHANGED <<request, balance, estimated, tier, due>>

SelectTier ==
  /\ stage = "decided"
  /\ tier' = TierFor(decision, estimated)
  /\ stage' = "selected"
  /\ UNCHANGED <<request, balance, estimated, decision, due>>

\* What _run_allow, _run_degraded or _run_heavy bill for the primary call,
\* and _run_heavy for the long-context transformer, if exactly the estimated
\* tokens are used, with the safety gate's.
DueOf(r, t) ==
  actual_cost(r.input, EstimatedOutput(r), r.embedding, r.rerank, t)
    + estimate_safety_cost
    + (IF t = "HEAVY" THEN LcOverhead(LcTokens(r)) ELSE 0)

Execute ==
  /\ stage = "selected"
  /\ due' = DueOf(request, tier)
  /\ stage' = "executed"
  /\ UNCHANGED <<request, balance, estimated, decision, tier>>

Next == Estimate \/ Evaluate \/ SelectTier \/ Execute

Spec == Init /\ [][Next]_vars
-----------------------------------------------------------------------------
Stages == {"received", "estimated", "denied", "decided", "selected", "executed"}

TypeOK ==
  /\ request \in Inputs
  /\ balance \in Balances
  /\ stage \in Stages
  /\ estimated \in Nat
  /\ decision \in Decisions
  /\ tier \in Tiers
  /\ due \in Nat

(***************************************************************************)
(* "above $0.006 -> HEAVY (theoretically unreachable on ALLOW path)"       *)
(* (economic.md): the EPK allows up to and including the threshold below   *)
(* which the matrix stops choosing GENERAL, so an estimate of exactly that *)
(* amount would slip through.  No token counts give it.                    *)
(***************************************************************************)
AllowNeverHeavy ==
  stage \in {"selected", "executed"} /\ decision = "ALLOW" => tier # "HEAVY"

\* Retrieval so expensive that it alone lifts a short message's estimate out
\* of the FAST band.
HeavyRetrieval(r) == RetrievalCost(r.embedding, r.rerank) >= 800000

(***************************************************************************)
(* "make pre-execution cost estimates safe (never underestimate)": an      *)
(* admitted request that uses the tokens estimated for it costs no more    *)
(* than the balance it was admitted on, whatever tier it is executed on.   *)
(* The exception is a short message estimated at FAST rates which an       *)
(* expensive retrieval moves to the GENERAL tier.                          *)
(***************************************************************************)
AdmittedCanPay ==
  stage = "executed" =>
    due <= balance \/ (EstimateTier(request) = "FAST" /\ HeavyRetrieval(request))

(***************************************************************************)
(* A longer message is never estimated cheaper than a shorter one of the   *)
(* same complexity: neither the change of tier at 300 tokens nor the cap   *)
(* on the output makes the estimate drop.                                  *)
(***************************************************************************)
EstimateMonotone ==
  stage = "estimated" =>
    \A n \in InputTokens :
      n >= request.input => EstimateOf([request EXCEPT !.input = n]) >= estimated
=============================================================================
