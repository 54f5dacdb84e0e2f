--------------------------- MODULE AdmissionProofs --------------------------
(***************************************************************************)
(* What holds of the economic gate for every token count and balance.      *)
(***************************************************************************)
EXTENDS Admission, TLAPS

\* estimate_output_tokens returns a natural number.
LEMMA OutputIsNat ==
  ASSUME NEW n \in Nat, NEW c \in Complexities, NEW t \in Tiers
  PROVE  estimate_output_tokens(n, c, t) \in Nat
  BY DEF Complexities, Tiers, estimate_output_tokens, COMPLEXITY_MULTIPLIER, MAX_OUTPUT_CAP

\* For a message short enough for the FAST estimate it is below 359 tokens.
LEMMA FastOutputBound ==
  ASSUME NEW n \in Nat, n < 300
  PROVE  estimate_output_tokens(n, "LOW", "FAST") <= 358
  BY DEF estimate_output_tokens, COMPLEXITY_MULTIPLIER, MAX_OUTPUT_CAP

\* The estimate as a sum of products: its tier's price, retrieval, the safety
\* gate and, for a long critical request, the long-context transformer.
LEMMA EstimateExpanded ==
  ASSUME NEW r \in Inputs
  PROVE  LET n == r.input
             o == EstimatedOutput(r)
             x == r.embedding * 100 + r.rerank * 100 + 44240
         IN /\ n \in Nat /\ o \in Nat
            /\ r.embedding \in Nat /\ r.rerank \in Nat
            /\ EstimateTier(r) \in {"FAST", "GENERAL"}
            /\ EstimateTier(r) = "FAST" =>
                 /\ n < 300 /\ o <= 358
                 /\ EstimateOf(r) = n * 75 + o * 300 + x
            /\ EstimateTier(r) = "GENERAL" =>
                 \/ EstimateOf(r) = n * 600 + o * 3000 + x
                 \/ EstimateOf(r) = n * 600 + o * 3000 + x + n * 600 + 2400000
  <1> DEFINE n == r.input
  <1> DEFINE o == EstimatedOutput(r)
  <1>1. /\ n \in Nat /\ r.embedding \in Nat /\ r.rerank \in Nat
        /\ r.complexity \in Complexities
    BY ConstantsAssumption DEF Inputs
  <1>2. EstimateTier(r) \in {"FAST", "GENERAL"}
    BY DEF EstimateTier
  <1>3. o \in Nat
    BY <1>1, <1>2, OutputIsNat DEF EstimatedOutput, Tiers
  <1>4. EstimateTier(r) = "FAST" => n < 300 /\ o <= 358
    BY <1>1, FastOutputBound DEF EstimateTier, EstimatedOutput
  <1>5. ASSUME EstimateTier(r) = "FAST"
        PROVE  EstimateOf(r) = n * 75 + o * 300 + (r.embedding * 100 + r.rerank * 100 + 44240)
    <2>1. LcTokens(r) = 0
      BY <1>5 DEF LcTokens, EstimateTier
    <2> QED
      BY <1>1, <1>3, <1>5, <2>1
      DEF EstimateOf, estimate_cost, TierCost, RetrievalCost, LcOverhead,
          estimate_safety_cost, MODEL_RATES, EmbeddingRate, RERANK_RATE
  <1>6. ASSUME EstimateTier(r) = "GENERAL"
        PROVE  LET x == r.embedding * 100 + r.rerank * 100 + 44240
               IN  \/ EstimateOf(r) = n * 600 + o * 3000 + x
                   \/ EstimateOf(r) = n * 600 + o * 3000 + x + n * 600 + 2400000
    <2>1. LcTokens(r) \in {0, n}
      BY DEF LcTokens
    <2> QED
      BY <1>1, <1>3, <1>6, <2>1
      DEF EstimateOf, estimate_cost, TierCost, RetrievalCost, LcOverhead,
          estimate_safety_cost, MODEL_RATES, EmbeddingRate, RERANK_RATE
  <1> QED
    BY <1>1, <1>2, <1>3, <1>4, <1>5, <1>6

(***************************************************************************)
(* No estimate is exactly the EPK's degrade threshold: all rates are       *)
(* multiples of 25 nano-dollars but the safety gate's fixed estimate,      *)
(* 44240, is not.                                                          *)
(***************************************************************************)
LEMMA EstimateIsNotTheThreshold ==
  ASSUME NEW r \in Inputs
  PROVE  EstimateOf(r) # DEGRADE_THRESHOLD
  <1> DEFINE n == r.input
  <1> DEFINE o == EstimatedOutput(r)
  <1> DEFINE e == r.embedding
  <1> DEFINE k == r.rerank
  <1>1. n \in Nat /\ o \in Nat /\ e \in Nat /\ k \in Nat
    BY EstimateExpanded
  <1>2. \E m \in Nat : EstimateOf(r) = 25 * m + 44240
    <2>1. ASSUME EstimateTier(r) = "FAST"
          PROVE  EstimateOf(r) = 25 * (n * 3 + o * 12 + e * 4 + k * 4) + 44240
      <3>1. EstimateOf(r) = n * 75 + o * 300 + (e * 100 + k * 100 + 44240)
        BY <2>1, EstimateExpanded
      <3> QED
        BY <1>1, <3>1
    <2>2. EstimateTier(r) = "GENERAL" =>
            \/ EstimateOf(r) = 25 * (n * 24 + o * 120 + e * 4 + k * 4) + 44240
            \/ EstimateOf(r) = 25 * (n * 48 + o * 120 + e * 4 + k * 4 + 96000) + 44240
      BY <1>1, EstimateExpanded
    <2>3. /\ n * 3 + o * 12 + e * 4 + k * 4 \in Nat
          /\ n * 24 + o * 120 + e * 4 + k * 4 \in Nat
          /\ n * 48 + o * 120 + e * 4 + k * 4 + 96000 \in Nat
      BY <1>1
    <2> HIDE DEF n, o, e, k
    <2> QED
      BY <2>1, <2>2, <2>3, EstimateExpanded
  <1>3. \A m \in Nat : 25 * m + 44240 # 6000000
    OBVIOUS
  <1> QED
    BY <1>2, <1>3 DEF DEGRADE_THRESHOLD

\* The price of a call on a tier (cost_model.py) is a natural number.
LEMMA TierCostIsNat ==
  ASSUME NEW t \in Tiers, NEW i \in Nat, NEW o \in Nat
  PROVE  TierCost(t, i, o) \in Nat
  <1>1. MODEL_RATES[t].input \in Nat /\ MODEL_RATES[t].output \in Nat
    BY DEF MODEL_RATES, Tiers
  <1> QED
    BY <1>1 DEF TierCost

\* The long-context transformer costs a natural number, zero where it is not called.
LEMMA LcOverheadIsNat ==
  ASSUME NEW r \in Inputs
  PROVE  LcOverhead(LcTokens(r)) \in Nat
  <1>1. LcTokens(r) \in Nat
    BY EstimateExpanded DEF LcTokens
  <1>2. "GENERAL" \in Tiers /\ 800 \in Nat
    BY DEF Tiers
  <1>3. TierCost("GENERAL", LcTokens(r), 800) \in Nat
    BY <1>1, <1>2, TierCostIsNat
  <1> QED
    BY <1>3 DEF LcOverhead

\* What a request is billed is a natural number.
LEMMA DueIsNat ==
  ASSUME NEW r \in Inputs, NEW t \in Tiers
  PROVE  DueOf(r, t) \in Nat
  <1>1. /\ r.input \in Nat /\ r.embedding \in Nat /\ r.rerank \in Nat
        /\ EstimatedOutput(r) \in Nat
    BY EstimateExpanded
  <1>2. TierCost(t, r.input, EstimatedOutput(r)) \in Nat
    BY <1>1, TierCostIsNat
  <1>3. RetrievalCost(r.embedding, r.rerank) \in Nat /\ estimate_safety_cost \in Nat
    BY <1>1 DEF RetrievalCost, EmbeddingRate, RERANK_RATE, estimate_safety_cost
  <1> QED
    BY <1>2, <1>3, LcOverheadIsNat DEF DueOf, actual_cost

\* What is billed on each tier, and that it exceeds the estimate only when
\* a FAST estimate is executed on the GENERAL tier.
LEMMA DueWithinEstimate ==
  ASSUME NEW r \in Inputs, NEW t \in Tiers,
         ~(EstimateTier(r) = "FAST" /\ t # "FAST")
  PROVE  DueOf(r, t) <= EstimateOf(r)
  <1> DEFINE n == r.input
  <1> DEFINE o == EstimatedOutput(r)
  <1> DEFINE x == r.embedding * 100 + r.rerank * 100 + 44240
  <1>1. n \in Nat /\ o \in Nat /\ x \in Nat /\ r.embedding \in Nat /\ r.rerank \in Nat
    BY EstimateExpanded
  <1>2. EstimateTier(r) \in {"FAST", "GENERAL"} /\ EstimateTier(r) \in Tiers
    BY DEF EstimateTier, Tiers
  <1>3. /\ LcOverhead(LcTokens(r)) \in Nat
        /\ TierCost(t, n, o) \in Nat
        /\ TierCost(EstimateTier(r), n, o) \in Nat
    <2>1. LcOverhead(LcTokens(r)) \in Nat
      BY LcOverheadIsNat
    <2>2. r.input \in Nat /\ EstimatedOutput(r) \in Nat
      BY EstimateExpanded
    <2>3. TierCost(t, r.input, EstimatedOutput(r)) \in Nat
      BY <2>2, TierCostIsNat
    <2>4. TierCost(EstimateTier(r), r.input, EstimatedOutput(r)) \in Nat
      BY <1>2, <2>2, TierCostIsNat
    <2> QED
      BY <2>1, <2>3, <2>4
  <1>4. actual_cost(n, o, r.embedding, r.rerank, t) + estimate_safety_cost
          = TierCost(t, n, o) + x
    BY <1>1, <1>3
    DEF actual_cost, RetrievalCost, EmbeddingRate, RERANK_RATE, estimate_safety_cost
  <1>5. EstimateOf(r) = TierCost(EstimateTier(r), n, o) + x + LcOverhead(LcTokens(r))
    BY <1>1, <1>3
    DEF EstimateOf, estimate_cost, RetrievalCost, EmbeddingRate, RERANK_RATE,
        estimate_safety_cost
  <1>6. TierCost(t, n, o) <= TierCost(EstimateTier(r), n, o)
    <2>1. TierCost("FAST", n, o) = n * 75 + o * 300
      BY DEF TierCost, MODEL_RATES
    <2>2. TierCost("GENERAL", n, o) = n * 600 + o * 3000
      BY DEF TierCost, MODEL_RATES
    <2>3. TierCost("HEAVY", n, o) = n * 150 + o * 600
      BY DEF TierCost, MODEL_RATES
    <2> QED
      BY <1>1, <1>2, <2>1, <2>2, <2>3 DEF Tiers
  <1>7. DueOf(r, t) = TierCost(t, n, o) + x
                      + (IF t = "HEAVY" THEN LcOverhead(LcTokens(r)) ELSE 0)
    BY <1>4 DEF DueOf
  <1> HIDE DEF n, o, x
  <1> QED
    BY <1>1, <1>5, <1>6, <1>3, <1>7

-----------------------------------------------------------------------------
\* What each stage knows.  The gate's steps only add to it.
Inv ==
  /\ TypeOK
  /\ stage # "received" => estimated = EstimateOf(request)
  /\ stage \notin {"received", "estimated"} =>
       decision = evaluate(estimated, balance, request.complexity)
  /\ stage \in {"decided", "selected", "executed"} => decision # "DENY"
  /\ stage \in {"selected", "executed"} => tier = TierFor(decision, estimated)
  /\ stage = "executed" => due = DueOf(request, tier)

\* The kernel answers with one of its four decisions.
LEMMA EvaluateType ==
  ASSUME NEW c \in Nat, NEW b \in Nat, NEW x \in Complexities
  PROVE  evaluate(c, b, x) \in Decisions
  BY DEF evaluate, Decisions

\* Every request starts with nothing decided and nothing due.
LEMMA InitInv == Init => Inv
  BY ConstantsAssumption DEF Init, Inv, TypeOK, Stages, Decisions, Tiers

\* Every step of the pipeline preserves the invariant.
LEMMA NextInv == Inv /\ [Next]_vars => Inv'
  <1> SUFFICES ASSUME Inv, [Next]_vars PROVE Inv'
    OBVIOUS
  <1> USE DEF Inv, TypeOK
  <1>1. CASE Estimate
    <2>1. EstimateOf(request) \in Nat
      BY EstimateExpanded
    <2> QED
      BY <1>1, <2>1 DEF Estimate, Stages
  <1>2. CASE Evaluate
    <2>1. evaluate(estimated, balance, request.complexity) \in Decisions
      BY EvaluateType, ConstantsAssumption DEF Inputs
    <2> QED
      BY <1>2, <2>1 DEF Evaluate, Stages
  <1>3. CASE SelectTier
    <2>1. tier' \in Tiers
      BY <1>3 DEF SelectTier, TierFor, select_tier, Tiers
    <2> QED
      BY <1>3, <2>1 DEF SelectTier, Stages
  <1>4. CASE Execute
    <2>1. due' \in Nat
      BY <1>4, DueIsNat DEF Execute
    <2> QED
      BY <1>4, <2>1 DEF Execute, Stages
  <1>5. CASE UNCHANGED vars
    BY <1>5 DEF vars
  <1> QED
    BY <1>1, <1>2, <1>3, <1>4, <1>5 DEF Next

\* The invariant holds in every reachable state.
THEOREM InvAlways == Spec => []Inv
  BY InitInv, NextInv, PTL DEF Spec

(***************************************************************************)
(* For every set of token counts and balances the gate's state is typed:   *)
(* the EPK answers one of its decisions and the bill is never negative.    *)
(***************************************************************************)
THEOREM TypeCorrect == Spec => []TypeOK
  <1>1. Inv => TypeOK
    BY DEF Inv
  <1> QED
    BY <1>1, InvAlways, PTL

(***************************************************************************)
(* For every token count, a request that the EPK allows is never executed  *)
(* on the HEAVY tier: the EPK allows up to the degrade threshold, the      *)
(* matrix refuses from it on, and no estimate is exactly it.               *)
(***************************************************************************)
THEOREM AllowNeverHeavyAlways == Spec => []AllowNeverHeavy
  <1>1. Inv => AllowNeverHeavy
    <2> SUFFICES ASSUME Inv, stage \in {"selected", "executed"}, decision = "ALLOW"
                 PROVE  tier # "HEAVY"
      BY DEF AllowNeverHeavy
    <2>1. /\ estimated = EstimateOf(request) /\ request \in Inputs
          /\ estimated \in Nat
          /\ decision = evaluate(estimated, balance, request.complexity)
          /\ tier = TierFor(decision, estimated)
      BY DEF Inv, TypeOK
    <2>2. ~(estimated > DEGRADE_THRESHOLD)
      BY <2>1 DEF evaluate
    <2>3. estimated # DEGRADE_THRESHOLD
      BY <2>1, EstimateIsNotTheThreshold
    <2>4. estimated < DEGRADE_THRESHOLD
      BY <2>1, <2>2, <2>3 DEF DEGRADE_THRESHOLD
    <2> QED
      BY <2>1, <2>4 DEF TierFor, select_tier
  <1> QED
    BY <1>1, InvAlways, PTL

\* A short message's FAST estimate reaches the GENERAL band only through
\* retrieval, and it is never admitted to the HEAVY tier otherwise.
LEMMA FastEstimateStaysFast ==
  ASSUME NEW r \in Inputs, EstimateTier(r) = "FAST", ~HeavyRetrieval(r)
  PROVE  EstimateOf(r) < FAST_CEILING
  <1> DEFINE n == r.input
  <1> DEFINE o == EstimatedOutput(r)
  <1> DEFINE y == r.embedding * 100 + r.rerank * 100
  <1>1. /\ n \in Nat /\ o \in Nat /\ y \in Nat /\ n < 300 /\ o <= 358
        /\ EstimateOf(r) = n * 75 + o * 300 + (y + 44240)
    BY EstimateExpanded
  <1>2. y < 800000
    BY EstimateExpanded DEF HeavyRetrieval, RetrievalCost, EmbeddingRate, RERANK_RATE
  <1> HIDE DEF n, o, y
  <1> QED
    BY <1>1, <1>2 DEF FAST_CEILING

(***************************************************************************)
(* For every token count and balance, an admitted request that uses the    *)
(* tokens it was estimated at costs no more than the balance it was        *)
(* admitted on, but for a short message with an expensive retrieval.       *)
(***************************************************************************)
THEOREM AdmittedCanPayAlways == Spec => []AdmittedCanPay
  <1>1. Inv => AdmittedCanPay
    <2> SUFFICES ASSUME Inv, stage = "executed",
                        ~(EstimateTier(request) = "FAST" /\ HeavyRetrieval(request))
                 PROVE  due <= balance
      BY DEF AdmittedCanPay
    <2>1. /\ estimated = EstimateOf(request) /\ request \in Inputs
          /\ estimated \in Nat /\ tier \in Tiers /\ balance \in Nat
          /\ decision = evaluate(estimated, balance, request.complexity)
          /\ decision # "DENY"
          /\ tier = TierFor(decision, estimated)
          /\ due = DueOf(request, tier)
      BY ConstantsAssumption DEF Inv, TypeOK
    <2>2. estimated <= balance
      BY <2>1 DEF evaluate
    <2>3. ~(EstimateTier(request) = "FAST" /\ tier # "FAST")
      <3> SUFFICES ASSUME EstimateTier(request) = "FAST" PROVE tier = "FAST"
        OBVIOUS
      <3>1. estimated < FAST_CEILING
        BY <2>1, FastEstimateStaysFast
      <3>2. request.complexity = "LOW"
        BY DEF EstimateTier
      <3>3. decision = "ALLOW"
        BY <2>1, <3>1, <3>2
        DEF evaluate, FAST_CEILING, HEAVY_THRESHOLD, DEGRADE_THRESHOLD
      <3> QED
        BY <2>1, <3>1, <3>3 DEF TierFor, select_tier
    <2>4. due <= estimated /\ due \in Nat
      BY <2>1, <2>3, DueWithinEstimate, DueIsNat
    <2> QED
      BY <2>1, <2>2, <2>4
  <1> QED
    BY <1>1, InvAlways, PTL
-----------------------------------------------------------------------------
\* The estimated output never shrinks with the message, and is no smaller on
\* the GENERAL tier, whose cap is higher, than on the FAST one.
LEMMA OutputMonotone ==
  ASSUME NEW m \in Nat, NEW n \in Nat, m <= n, NEW c \in Complexities,
         NEW s \in {"FAST", "GENERAL"}, NEW t \in {s, "GENERAL"}
  PROVE  estimate_output_tokens(m, c, s) <= estimate_output_tokens(n, c, t)
  <1> DEFINE k == COMPLEXITY_MULTIPLIER[c]
  <1>1. k \in {12, 18, 25, 30}
    BY DEF COMPLEXITY_MULTIPLIER, Complexities
  <1>2. (m * k) \div 10 <= (n * k) \div 10 /\ (m * k) \div 10 \in Nat /\ (n * k) \div 10 \in Nat
    BY <1>1
  <1>3. /\ MAX_OUTPUT_CAP[s] \in Nat /\ MAX_OUTPUT_CAP[t] \in Nat
        /\ MAX_OUTPUT_CAP[s] <= MAX_OUTPUT_CAP[t]
    BY DEF MAX_OUTPUT_CAP
  <1> QED
    BY <1>2, <1>3 DEF estimate_output_tokens

\* The estimate at GENERAL rates.
LEMMA GeneralEstimate ==
  ASSUME NEW r \in Inputs, EstimateTier(r) = "GENERAL"
  PROVE  EstimateOf(r) = r.input * 600 + EstimatedOutput(r) * 3000
                         + (r.embedding * 100 + r.rerank * 100 + 44240) + LcOverhead(LcTokens(r))
  <1>1. /\ r.input \in Nat /\ EstimatedOutput(r) \in Nat
        /\ r.embedding \in Nat /\ r.rerank \in Nat
        /\ LcOverhead(LcTokens(r)) \in Nat
    BY EstimateExpanded, LcOverheadIsNat
  <1> QED
    BY <1>1 DEF EstimateOf, estimate_cost, TierCost, RetrievalCost, estimate_safety_cost,
                MODEL_RATES, EmbeddingRate, RERANK_RATE

\* A record with another input differs in that field only.
LEMMA OtherInput ==
  ASSUME NEW r \in Inputs, NEW n \in InputTokens
  PROVE  LET q == [r EXCEPT !.input = n]
         IN  /\ q \in Inputs /\ q.input = n /\ q.complexity = r.complexity
             /\ q.embedding = r.embedding /\ q.rerank = r.rerank
  BY DEF Inputs

\* The estimate of a longer message of the same complexity and retrieval is at
\* least as high, across the change of tier and the caps on the output.
LEMMA EstimateGrows ==
  ASSUME NEW r \in Inputs, NEW q \in Inputs, r.input <= q.input, q.complexity = r.complexity,
         q.embedding = r.embedding, q.rerank = r.rerank
  PROVE  EstimateOf(r) <= EstimateOf(q)
  <1> DEFINE n == q.input
  <1> DEFINE m == r.input
  <1> DEFINE o == EstimatedOutput(r)
  <1> DEFINE p == EstimatedOutput(q)
  <1> DEFINE x == r.embedding * 100 + r.rerank * 100 + 44240
  <1>1. /\ m \in Nat /\ n \in Nat /\ m <= n /\ r.complexity \in Complexities
    BY ConstantsAssumption DEF Inputs
  <1>2. o \in Nat /\ p \in Nat /\ x \in Nat
    BY <1>1, EstimateExpanded
  <1>3. /\ EstimateTier(r) \in {"FAST", "GENERAL"}
        /\ EstimateTier(q) \in {EstimateTier(r), "GENERAL"}
    BY <1>1 DEF EstimateTier
  <1>4. o <= p
    BY <1>1, <1>3, OutputMonotone DEF EstimatedOutput
  <1>5. LcTokens(r) \in {0, m} /\ (LcTokens(r) # 0 => LcTokens(q) = n /\ n > 0)
    BY <1>1 DEF LcTokens
  <1>6. CASE EstimateTier(r) = "FAST"
    <2>1. EstimateOf(r) = m * 75 + o * 300 + x
      BY <1>6, EstimateExpanded
    <2>2. \/ EstimateOf(q) = n * 75 + p * 300 + x
          \/ EstimateOf(q) = n * 600 + p * 3000 + x
          \/ EstimateOf(q) = n * 600 + p * 3000 + x + n * 600 + 2400000
      BY <1>1, <1>3, EstimateExpanded
    <2> HIDE DEF n, m, o, p, x
    <2> QED
      BY <1>1, <1>2, <1>4, <2>1, <2>2
  <1>7. CASE EstimateTier(r) = "GENERAL"
    <2>1. EstimateTier(q) = "GENERAL"
      BY <1>3, <1>7
    <2>2. /\ EstimateOf(r) = m * 600 + o * 3000 + x + LcOverhead(LcTokens(r))
          /\ EstimateOf(q) = n * 600 + p * 3000 + x + LcOverhead(LcTokens(q))
      BY <1>7, <2>1, GeneralEstimate
    <2>3. LcOverhead(LcTokens(r)) <= LcOverhead(LcTokens(q))
      BY <1>1, <1>5, LcOverheadIsNat DEF LcOverhead, TierCost, MODEL_RATES
    <2>4. LcOverhead(LcTokens(r)) \in Nat /\ LcOverhead(LcTokens(q)) \in Nat
      BY <1>1, LcOverheadIsNat
    <2> HIDE DEF n, m, o, p, x
    <2> QED
      BY <1>1, <1>2, <1>4, <2>2, <2>3, <2>4
  <1> QED
    BY <1>3, <1>6, <1>7

(***************************************************************************)
(* For every set of token counts, a longer message is never estimated      *)
(* cheaper than a shorter one of the same complexity and retrieval.        *)
(***************************************************************************)
THEOREM EstimateMonotoneAlways == Spec => []EstimateMonotone
  <1>1. Inv => EstimateMonotone
    <2> SUFFICES ASSUME Inv, stage = "estimated", NEW n \in InputTokens, n >= request.input
                 PROVE  EstimateOf([request EXCEPT !.input = n]) >= estimated
      BY DEF EstimateMonotone
    <2>1. request \in Inputs /\ estimated = EstimateOf(request) /\ estimated \in Nat
      BY DEF Inv, TypeOK
    <2> DEFINE q == [request EXCEPT !.input = n]
    <2>2. /\ q \in Inputs /\ q.input = n /\ q.complexity = request.complexity
          /\ q.embedding = request.embedding /\ q.rerank = request.rerank
      BY <2>1, OtherInput
    <2> HIDE DEF q
    <2>3. request.input \in Nat /\ n \in Nat
      BY <2>1, ConstantsAssumption DEF Inputs
    <2>4. EstimateOf(request) <= EstimateOf(q) /\ EstimateOf(q) \in Nat
      BY <2>1, <2>2, <2>3, EstimateGrows, EstimateExpanded
    <2> QED
      BY <2>1, <2>4 DEF q
  <1> QED
    BY <1>1, InvAlways, PTL
=============================================================================
