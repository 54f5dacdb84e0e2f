-------------------------------- MODULE Agents --------------------------------
(***************************************************************************)
(* The multi-agent coordinator: which agents a request gets, the judge     *)
(* that reads the draft, the revision it may ask for, and the fallback.    *)
(***************************************************************************)
EXTENDS Grounding

\* The strategy matrix: hard questions are exploratory, except those of MATH
\* (on GENERAL; the other tiers are planned before the strategy is looked at).
select_strategy(routing) ==
  IF routing.depth = "HEAVY" /\ routing.domain = "GENERAL" THEN "EXPLORATORY" ELSE "DIRECT"

Agent(primary, fallback, consensus) ==
  [primary |-> primary, fallback |-> fallback, consensus |-> consensus]

plan_agents(routing, tier, strategy) ==
  IF tier = "HEAVY" THEN Agent("DEEP", "FAST", FALSE)
  ELSE IF tier = "FAST" THEN Agent("FAST", "FAST", FALSE)
  ELSE IF strategy = "EXPLORATORY" THEN Agent("DEEP", "FAST", TRUE)
  ELSE IF routing.domain = "GEO" THEN Agent("COMPOUND_DEEP", "DEEP", FALSE)
  ELSE IF routing.depth = "NONE" THEN Agent("FAST", "none", FALSE)
  ELSE Agent("DEEP", "FAST", FALSE)

Plan ==
  LET routing == _resolve_routing(intent)
  IN plan_agents(routing, profile.tier, select_strategy(routing))
-----------------------------------------------------------------------------
(* The call c of an agent is answered with a text by a model that has seen    *)
(* "seen" of the grounding.                                                   *)

\* A model finds the messages too large: it, and every model asked after it,
\* gets the tail of the longest message, without the context before it.
_truncate_messages == {}

\* Whatever model of the tier, or of a lower one, answers in the end.
complete_with_fallback(c, seen) ==
  \/ Answered(c) /\ seen = prompt
  \/ /\ Fails /\ made' = made \cup {c} /\ UNCHANGED late
     /\ seen \in {prompt, _truncate_messages}

\* The compound models have no chain.
_run_compound(c, seen) == Answered(c) /\ seen = prompt

_run_agent(agent, c, seen) ==
  IF agent = "COMPOUND_DEEP" THEN _run_compound(c, seen) ELSE complete_with_fallback(c, seen)

\* The agent fails with all its models, or says nothing.
Wordless(c) == Unanswered \/ Answered(c)

\* What comes of a call that is answered with a text, which no judge has read.
Speaks(c, agent) ==
  \E seen \in {prompt, _truncate_messages} :
    /\ _run_agent(agent, c, seen)
    /\ answer' = [answer EXCEPT !.by = c, !.blank = FALSE, !.saw = seen, !.verdict = "none"]

\* coordinate: the primary agent.
RunPrimary ==
  /\ pc = "primary"
  /\ \/ /\ Speaks("primary", Plan.primary)
        /\ Goto(IF Plan.consensus THEN "validators" ELSE "judge")
     \/ /\ Wordless("primary")
        /\ UNCHANGED answer
        /\ Goto(IF Plan.consensus THEN "validators" ELSE "fallback")
  /\ UNCHANGED <<given, work, result, back>>

\* On the consensus path a validator answers too.  If it alone has a text, the
\* judge reads that one, but the answer stays the primary agent's.  If neither
\* has, the variables of the revision are read unbound: the pipeline crashes.
RunValidators ==
  /\ pc = "validators"
  /\ \/ Answered("validator") /\ Goto("judge") /\ UNCHANGED result
     \/ /\ Wordless("validator")
        /\ IF answer.blank THEN PipelineDenies("internal_error")
                           ELSE Goto("judge") /\ UNCHANGED result
  /\ UNCHANGED <<given, work, answer, back>>

\* safety_agent: a judge that cannot be reached lets the draft pass.
_llm_judge(verdict) ==
  IF verdict = "UNAVAILABLE" THEN Unanswered ELSE Answered("judge")

MutIsBlock(v) == FALSE
IsBlock(v) == v = "BLOCK"

Judge ==
  /\ pc = "judge"
  /\ \E v \in {"ALLOW", "REVISE", "BLOCK", "UNAVAILABLE"} :
       /\ _llm_judge(v)
       /\ answer' = [answer EXCEPT !.verdict = v,
                                   !.blocked = IF IsBlock(v) THEN "safety_block" ELSE "no"]
       /\ Goto(IF v = "REVISE" THEN "revise" ELSE "coordinated")
  /\ UNCHANGED <<given, work, result, back>>

\* One revision by the primary agent; if it fails, the draft that the judge
\* wanted revised goes out.  The revision is not judged again.
Revise ==
  /\ pc = "revise"
  /\ \/ Speaks("revision", Plan.primary)
     \/ Wordless("revision") /\ UNCHANGED answer
  /\ Goto("coordinated")
  /\ UNCHANGED <<given, work, result, back>>

\* The fallback agent, which no judge reads.  When every agent failed, an
\* emotional message is still answered, by rule.
HasFallback == Plan.fallback \notin {"none", Plan.primary}

AllFailed ==
  answer' = IF intent = "EMOTIONAL" THEN [answer EXCEPT !.by = "rule", !.blank = FALSE]
            ELSE [answer EXCEPT !.blocked = "no_response"]

RunFallback ==
  /\ pc = "fallback"
  /\ \/ HasFallback /\ Speaks("fallback", Plan.fallback)
     \/ HasFallback /\ Wordless("fallback") /\ AllFailed
     \/ ~HasFallback /\ NoCall /\ AllFailed
  /\ Goto("coordinated")
  /\ UNCHANGED <<given, work, result, back>>

\* coordination_metrics.primary, .safety and .revision: the calls whose tokens
\* they hold.  An accepted revision takes the place of the draft in "primary";
\* a fallback adds the tokens of the agent that failed; a rule has none.
PrimaryMetrics ==
  CASE answer.by = "revision" -> {"revision"}
    [] answer.by = "fallback" -> {"primary", "fallback"} \cap made
    [] answer.by = "rule" -> {}
    [] answer.by \in {"primary", "none"} -> {"primary"} \cap made

SafetyMetrics == {"judge"} \cap made
RevisionMetrics == {"revision"} \cap made

\* coordinate
AgentsNext ==
  RunPrimary \/ RunValidators \/ Judge \/ Revise \/ RunFallback
=============================================================================
