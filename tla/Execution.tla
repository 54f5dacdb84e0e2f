------------------------------ MODULE Execution ------------------------------
(***************************************************************************)
(* The execution paths after the coordinator (_run_allow, _run_degraded,   *)
(* _run_heavy), the vision fast path, the synthesizer and the end of       *)
(* run(): what the result says, which calls its sums hold, and what the    *)
(* conversation remembers.                                                 *)
(***************************************************************************)
EXTENDS Agents

\* What a blocked coordination becomes: for two intents a question to the
\* user that is not a denial and costs nothing, otherwise a denial.
Clarifies == intent \in {"RECALL", "RECOMMENDATION"}

_clarify_result ==
  /\ result' = Replied("notice", NoSlots)
  /\ Goto("save")

Blocked ==
  /\ pc = "coordinated" /\ answer.blocked # "no"
  /\ \/ Clarifies /\ _clarify_result
     \/ ~Clarifies /\ PipelineDenies(answer.blocked)
  /\ NoCall
  /\ UNCHANGED <<given, work, answer, back>>

\* The degraded path has its text read once more, by the lite judge.
Unblocked ==
  /\ pc = "coordinated" /\ answer.blocked = "no"
  /\ Goto(IF profile.decision = "DEGRADED_MODE" THEN "lite" ELSE "synthesize")
  /\ NoCall
  /\ UNCHANGED <<given, work, answer, result, back>>

\* It may block, but asks for no revision; unreachable, it lets the text pass.
_llm_judge_lite(verdict) ==
  IF verdict = "UNAVAILABLE" THEN Unanswered ELSE Answered("lite")

check_async_lite ==
  /\ pc = "lite"
  /\ \E v \in {"ALLOW", "BLOCK", "UNAVAILABLE"} :
       /\ _llm_judge_lite(v)
       /\ answer' = [answer EXCEPT !.verdict = v]
       /\ IF IsBlock(v) THEN PipelineDenies("safety_block")
                        ELSE Goto("synthesize") /\ UNCHANGED result
  /\ UNCHANGED <<given, work, back>>
-----------------------------------------------------------------------------
(* usage.llm_cost_usd: the calls that the cost of each path holds.          *)

\* Retrieval reports the tokens of a rerank whether or not its model answered.
RetrievalMetrics == IF profile.documents THEN {"embedding", "rerank"} ELSE {}

MutAllowCost == PrimaryMetrics \cup RetrievalMetrics
_run_allow == PrimaryMetrics \cup RetrievalMetrics \cup SafetyMetrics

\* The tokens of the lite judge take the place of the judge's.
_run_degraded == PrimaryMetrics \cup RetrievalMetrics \cup ({"lite"} \cap made)

MutHeavyCost ==
  PrimaryMetrics \cup RetrievalMetrics \cup SafetyMetrics
    \cup (IF profile.compressed THEN {"lc"} ELSE {})
    \cup (IF profile.shaped # "no" THEN {"shaper"} ELSE {})
_run_heavy ==
  PrimaryMetrics \cup RetrievalMetrics \cup SafetyMetrics
    \cup (IF profile.compressed THEN {"lc"} ELSE {})
    \cup (IF profile.shaped = "llm" THEN {"shaper"} ELSE {})

Cost ==
  CASE profile.decision = "ALLOW" -> _run_allow
    [] profile.decision = "DEGRADED_MODE" -> _run_degraded
    [] profile.decision = "HEAVY_REQUIRED" -> _run_heavy
-----------------------------------------------------------------------------
(* synthesize, at the end of every path: what the text becomes.             *)

\* A loop of reasoning is replaced by a notice, but not when it is the answer.
_strip_cot_artifacts == IF intent \in {"MATH", "EXAM"} THEN {} ELSE {"notice"}

\* So is a program that nobody asked for.
_strip_unwanted_code == IF intent \in {"CODE", "MATH", "EXAM"} THEN {} ELSE {"notice"}

\* A blank text is one too; mere markup may be normalised away.
Sayings ==
  IF answer.blank THEN {"notice"}
  ELSE {"answer", "nothing"} \cup _strip_cot_artifacts \cup _strip_unwanted_code

Synthesize ==
  /\ pc = "synthesize"
  /\ \E says \in Sayings :
       result' = Replied(says, [NoSlots EXCEPT !["cost"] = Cost,
                                               !["revision"] = RevisionMetrics])
  /\ Goto("save")
  /\ NoCall
  /\ UNCHANGED <<given, work, answer, back>>
-----------------------------------------------------------------------------
\* _save_history appends the user's turn, then the assistant's; an append that
\* fails is swallowed and does not stop the other.  A denial is not remembered.
Remembers == history = "open" /\ result.state = "answered"

_save_history ==
  \/ /\ Works
     /\ history' = IF ~Remembers THEN history
                   ELSE IF result.says = "nothing" THEN "user" ELSE "both"
  \/ /\ Remembers /\ Fails
     /\ history' \in IF result.says = "nothing" THEN {"open"} ELSE {"user", "assistant"}

\* The end of run(): the metrics of the gate and of the normalisation, which
\* denials carry too.
SaveAndWire ==
  /\ pc = "save"
  /\ _save_history
  /\ result' = [result EXCEPT
       !.slots["safety"] = {"gate22", "gate86", "safeguard"} \cap InTime,
       !.slots["multilingual"] = {"multilingual"} \cap InTime]
  /\ Goto("returned")
  /\ UNCHANGED <<given, made, late, work, answer, billed, sent>>

\* The vision fast path: what the vision handler could not see is billed at
\* USD 0.001, the price of a call without tokens, and not remembered.
FAST_PATH_COST == 1000000

VisionFastPath ==
  /\ pc = "fastpath"
  /\ IF evaluate(FAST_PATH_COST, update.balance, "MEDIUM") = "DENY"
       THEN ReturnDenied("insufficient_balance", "notice")
       ELSE /\ result' = Replied("notice", [NoSlots EXCEPT !["cost"] = {"vision"}])
            /\ Goto("returned")
  /\ NoCall
  /\ UNCHANGED <<given, work, answer, back>>

ExecutionNext ==
  Blocked \/ Unblocked \/ check_async_lite \/ Synthesize \/ SaveAndWire \/ VisionFastPath
=============================================================================
