------------------------------- MODULE Kernel -------------------------------
(***************************************************************************)
(* The execution policy kernel (EPK) and the decision matrix: pure         *)
(* functions of an estimated cost, a balance and a complexity, and the     *)
(* estimate of a request r that _run_pipeline gives them.                  *)
(***************************************************************************)
EXTENDS CostModel

Decisions == {"ALLOW", "DENY", "DEGRADED_MODE", "HEAVY_REQUIRED"}

\* RUNTIME.epk: heavy_threshold, degrade_threshold, fast_ceiling
HEAVY_THRESHOLD   == 10000000
DEGRADE_THRESHOLD == 6000000
FAST_CEILING      == 1000000

MutEvaluate(cost, amount, complexity) ==
  CASE amount = 0 -> "DENY"
    [] complexity = "CRITICAL" \/ cost > HEAVY_THRESHOLD -> "HEAVY_REQUIRED"
    [] cost > DEGRADE_THRESHOLD -> "DEGRADED_MODE"
    [] OTHER -> "ALLOW"

MutEvaluateName(cost, amount, complexity) ==
  CASE amount = 0 \/ cost > amount -> "DENY"
    [] complexity = "CRITICAL" \/ cost > HEAVY_THRESHOLD -> "HEAVY_REQUIRED"
    [] cost > DEGRADE_THRESHOLD -> "DEGRADE"
    [] OTHER -> "ALLOW"

evaluate(cost, amount, complexity) ==
  IF amount = 0 \/ cost > amount THEN "DENY"
  ELSE IF complexity = "CRITICAL" \/ cost > HEAVY_THRESHOLD THEN "HEAVY_REQUIRED"
  ELSE IF cost > DEGRADE_THRESHOLD THEN "DEGRADED_MODE"
  ELSE "ALLOW"

\* _GENERAL_CEILING is the EPK's degrade threshold.
MutSelectTier(cost) ==
  IF cost < FAST_CEILING THEN "FAST" ELSE IF cost < 3000000 THEN "GENERAL" ELSE "HEAVY"
select_tier(cost) ==
  IF cost < FAST_CEILING THEN "FAST"
  ELSE IF cost < DEGRADE_THRESHOLD THEN "GENERAL"
  ELSE "HEAVY"

\* DEGRADED_MODE and HEAVY_REQUIRED carry their tier with them.
MutTierFor(d, cost) == IF d = "ALLOW" THEN select_tier(cost) ELSE d
TierFor(d, cost) ==
  IF d = "ALLOW" THEN select_tier(cost)
  ELSE IF d = "DEGRADED_MODE" THEN "FAST" ELSE "HEAVY"
-----------------------------------------------------------------------------
\* _fast_token_threshold
MutEstimateTierSwapped(r) == IF r.input < 300 THEN "GENERAL" ELSE "FAST"
EstimateTier(r) == IF r.complexity = "LOW" /\ r.input < 300 THEN "FAST" ELSE "GENERAL"

EstimatedOutput(r) == estimate_output_tokens(r.input, r.complexity, EstimateTier(r))

\* _LC_TOKEN_THRESHOLD
LcTokens(r) == IF r.complexity = "CRITICAL" /\ r.input > 32000 THEN r.input ELSE 0

EstimateOf(r) == estimate_cost(r.input, EstimatedOutput(r), r.embedding, r.rerank,
                               EstimateTier(r), LcTokens(r))
=============================================================================
