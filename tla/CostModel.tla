----------------------------- MODULE CostModel ------------------------------
(***************************************************************************)
(* core/kernel/cost_model.py in exact arithmetic.  Every rate there is a   *)
(* whole number of nano-dollars per token, so amounts are natural numbers  *)
(* of nano-dollars (USD 0.001 = 1000000).  Floating-point rounding is left *)
(* out: it is smaller than one nano-dollar at these amounts.               *)
(***************************************************************************)
EXTENDS Naturals

Tiers        == {"FAST", "GENERAL", "HEAVY"}
Complexities == {"LOW", "MEDIUM", "HIGH", "CRITICAL"}

MODEL_RATES ==
  [FAST    |-> [input |-> 75,  output |-> 300],
   GENERAL |-> [input |-> 600, output |-> 3000],
   HEAVY   |-> [input |-> 150, output |-> 600]]

EmbeddingRate == 100   \* bge-large, the only embedding_type run() uses
RERANK_RATE   == 100

\* 300 tokens for each of the three safety models and 2 tokens of output.
estimate_safety_cost == 300 * 30 + 2 * 30 + 300 * 40 + 2 * 40 + 300 * 75 + 2 * 300

\* In tenths.
COMPLEXITY_MULTIPLIER == [LOW |-> 12, MEDIUM |-> 18, HIGH |-> 25, CRITICAL |-> 30]

MAX_OUTPUT_CAP == [FAST |-> 512, GENERAL |-> 800, HEAVY |-> 4096]

estimate_output_tokens(input, complexity, tier) ==
  LET raw == (input * COMPLEXITY_MULTIPLIER[complexity]) \div 10
      cap == MAX_OUTPUT_CAP[tier]
  IN IF raw <= cap THEN raw ELSE cap

\* The part of a call's price that its tier decides, and the rest.
TierCost(tier, input, output) ==
  input * MODEL_RATES[tier].input + output * MODEL_RATES[tier].output
RetrievalCost(embedding, rerank) == embedding * EmbeddingRate + rerank * RERANK_RATE

\* lc_overhead: the long-context transformer, estimated at 800 tokens out.
LcOverhead(tokens) == IF tokens > 0 THEN TierCost("GENERAL", tokens, 800) ELSE 0

estimate_cost(input, output, embedding, rerank, tier, lcTokens) ==
  TierCost(tier, input, output) + RetrievalCost(embedding, rerank)
    + estimate_safety_cost + LcOverhead(lcTokens)

\* actual_cost; what the safety gate really used is added by the caller.
actual_cost(input, output, embedding, rerank, tier) ==
  TierCost(tier, input, output) + RetrievalCost(embedding, rerank)
=============================================================================
