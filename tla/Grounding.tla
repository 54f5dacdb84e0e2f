------------------------------ MODULE Grounding ------------------------------
(***************************************************************************)
(* run() and _run_pipeline up to the admission of a request: the safety    *)
(* gate, the normalisation, history and memory, the intent, the tools and  *)
(* the gates that deny.                                                    *)
(***************************************************************************)
EXTENDS Media

IsVision == update.kind \in {"photo", "album"}

(* The safety gate and the normalisation: none of them stops a request. *)

_classify_with_model(c) == Answered(c) \/ Unanswered

\* _run_safety_gate_pass1 waits 8 seconds.
check_pass1 ==
  /\ pc = "gate1"
  /\ _classify_with_model("gate22") \/ AnsweredLate("gate22")
  /\ Goto("multilingual")
  /\ UNCHANGED <<given, work, answer, result, back>>

\* A text in Latin script passes through; the tokens of another count even if
\* what the model made of it is rejected.
preprocess ==
  /\ pc = "multilingual"
  /\ NoCall \/ Answered("multilingual") \/ Unanswered \/ AnsweredLate("multilingual")
  /\ Goto("gate2")
  /\ UNCHANGED <<given, work, answer, result, back>>

\* Two models one after the other, with 12 seconds for both: when the time is
\* up before both are through, the tokens of both are lost.
PromptGuard ==
  /\ pc = "gate2"
  /\ \/ _classify_with_model("gate86") /\ Goto("safeguard")
     \/ AnsweredLate("gate86") /\ Goto("history")
  /\ UNCHANGED <<given, work, answer, result, back>>

Safeguard ==
  /\ pc = "safeguard"
  /\ \/ _classify_with_model("safeguard")
     \/ /\ Fails
        /\ made' = made \cup {"safeguard"}
        /\ late' = late \cup ({"gate86", "safeguard"} \cap made')
  /\ Goto("history")
  /\ UNCHANGED <<given, work, answer, result, back>>

check_pass2 == PromptGuard \/ Safeguard

\* An album has no history.  A load that fails gives no turns, but the answer
\* is still remembered.
_load_history ==
  /\ pc = "history"
  /\ Works \/ (Fails /\ update.kind # "album")
  /\ history' = IF update.kind = "album" THEN "closed" ELSE "open"
  /\ Goto("embed")
  /\ UNCHANGED <<given, made, late, work, answer, result, billed, sent>>
-----------------------------------------------------------------------------
(* Memory. *)

embed ==
  /\ pc = "embed"
  /\ \/ Unanswered /\ Goto("intent")
     \/ Answered("embedding") /\ Goto("search")
  /\ UNCHANGED <<given, work, answer, result, back>>

\* Memories are searched by vector and by words; each search may fail alone.
\* Without a hit not even the tokens of the embedding are reported.
SearchMemories ==
  /\ pc = "search"
  /\ Works
  /\ \E hits \in BOOLEAN :
       /\ profile' = [profile EXCEPT !.documents = hits]
       /\ Goto(IF hits THEN "rerank" ELSE "intent")
  /\ UNCHANGED <<given, made, late, text, intent, prompt, answer, result, back>>

\* By a model or, failing that, by geography and words.  The hits with a score
\* of 0.75 make the context.
rerank ==
  /\ pc = "rerank"
  /\ Answered("rerank") \/ Unanswered
  /\ prompt' \in {prompt, prompt \cup {"memory"}}
  /\ Goto("intent")
  /\ UNCHANGED <<given, text, intent, profile, answer, result, back>>

retrieve == embed \/ SearchMemories \/ rerank
-----------------------------------------------------------------------------
\* Whatever a photo's caption or description was taken for, the guard makes it
\* a conversation.
ClassifyIntent ==
  /\ pc = "intent"
  /\ IF IsVision THEN intent' = "CONVERSATION" ELSE intent' \in classify
  /\ NoCall
  /\ Goto("grounding")
  /\ UNCHANGED <<given, text, profile, prompt, answer, result, back>>
-----------------------------------------------------------------------------
\* What the tools may return: data; a text that says that nothing was found or
\* that asks for more, which passes for data; or nothing.  A place that the
\* extractor takes for navigation is searched for instead.
_weather    == {{"tool"}, {}}
_search     == {{"tool"}, {}}
_maps       == {{"tool"}, {"notfound"}}
_maps_route == {{"tool"}, {"notfound"}}
_maps_poi   == _maps \cup _search

\* An intent without a tool of its own is looked up by search.
run_tool(i) ==
  CASE i = "WEATHER"    -> _weather
    [] i = "MAPS"       -> _maps
    [] i = "MAPS_POI"   -> _maps_poi
    [] i = "MAPS_ROUTE" -> _maps_route
    [] OTHER            -> _search

\* _fetch_external_grounding: memory keeps the tools from being asked at all.
NeedsTool ==
  /\ "memory" \notin prompt
  /\ update.balance > 0
  /\ _resolve_routing(intent).retrieval

_fetch_external_grounding ==
  /\ pc = "grounding"
  /\ \/ ~NeedsTool /\ Works /\ UNCHANGED prompt
     \/ NeedsTool /\ Works /\ prompt' \in {prompt \cup found : found \in run_tool(intent)}
     \/ NeedsTool /\ Fails /\ UNCHANGED prompt
  /\ Goto("gates")
  /\ UNCHANGED <<given, made, late, text, intent, profile, answer, result, back>>

\* The answerability gate: a memory that was not found is asked for, and so
\* is the place a recommendation is to be for, if the message lacks it.
_needs_clarification ==
  CASE intent = "RECALL" -> {prompt = {}}
    [] intent = "RECOMMENDATION" -> BOOLEAN
    [] OTHER -> {FALSE}

\* Then the truth gate.  What both have looked at, the retrieved context, is
\* what the messages are built of.
Gates ==
  /\ pc = "gates"
  /\ \E clarify \in _needs_clarification :
       IF clarify THEN PipelineDenies("need_detail")
       ELSE IF _resolve_routing(intent).strict /\ prompt = {}
              THEN PipelineDenies("no_grounding")
       ELSE Goto("epk") /\ UNCHANGED result
  /\ profile' = [profile EXCEPT !.context = prompt]
  /\ NoCall
  /\ UNCHANGED <<given, text, intent, prompt, answer, back>>
-----------------------------------------------------------------------------
\* What the estimate is made of; the tokens retrieval reports stand for all
\* that do not move a request to another tier.
Estimated(n, c) ==
  EstimateOf([input |-> n, complexity |-> c,
              embedding |-> IF profile.documents THEN 50 ELSE 0,
              rerank |-> IF profile.documents THEN 1000 ELSE 0])

\* The tokens of the messages are estimated; then the EPK and the tier.
\* HEAVY_REQUIRED prepares the input first.  The guard for photos has made
\* their complexity LOW.
Admit ==
  /\ pc = "epk"
  /\ \E size \in SizesUsed :
     LET c == IF IsVision THEN "LOW" ELSE size[1]
         cost == Estimated(size[2], c)
         d == evaluate(cost, update.balance, c)
     IN /\ profile' = [profile EXCEPT !.input = size[2], !.complexity = c, !.decision = d,
                                      !.tier = TierFor(d, cost)]
        /\ IF d = "DENY" THEN PipelineDenies("insufficient_balance")
           ELSE /\ Goto(IF d = "HEAVY_REQUIRED" THEN "compress" ELSE "primary")
                /\ UNCHANGED result
  /\ NoCall
  /\ UNCHANGED <<given, text, intent, prompt, answer, back>>

\* The messages are built again around the shorter text, with the memory but
\* not with what a tool found.
MutRebuild == prompt' = {}
Rebuild == prompt' = prompt \cap {"memory"}

\* The long-context transformer; without its text the original goes on.
transform ==
  /\ pc = "compress"
  /\ IF LcTokens(profile) = 0 THEN NoCall /\ UNCHANGED <<profile, prompt>>
     ELSE \/ (Unanswered \/ Answered("lc")) /\ UNCHANGED <<profile, prompt>>
          \/ /\ Answered("lc")
             /\ profile' = [profile EXCEPT !.compressed = TRUE]
             /\ Rebuild
  /\ Goto("shape")
  /\ UNCHANGED <<given, text, intent, answer, result, back>>

TOKEN_THRESHOLD == 2048
SUMMARY_THRESHOLD == 4096

_needs_shaping == profile.input > TOKEN_THRESHOLD

\* A text of moderate length is compressed or cut into chunks locally.
_select_operation == IF profile.input > SUMMARY_THRESHOLD THEN "summarize" ELSE "local"

Shaped(how) == profile' = [profile EXCEPT !.shaped = how]

\* By a model, or locally when the model fails or says nothing.
_semantic_summarize ==
  \/ (Unanswered \/ Answered("shaper")) /\ Shaped("local")
  \/ Answered("shaper") /\ Shaped("llm")

shape ==
  /\ pc = "shape"
  /\ \/ ~_needs_shaping /\ NoCall /\ UNCHANGED <<profile, prompt>>
     \/ _needs_shaping /\ _select_operation = "local" /\ NoCall /\ Shaped("local") /\ Rebuild
     \/ _needs_shaping /\ _select_operation = "summarize" /\ _semantic_summarize /\ Rebuild
  /\ Goto("primary")
  /\ UNCHANGED <<given, text, intent, answer, result, back>>

\* What run() does before the pipeline, the pipeline up to the admission, and
\* what _run_heavy does before the coordinator.
GroundingNext ==
  \/ check_pass1 \/ preprocess \/ check_pass2 \/ _load_history \/ retrieve
  \/ ClassifyIntent \/ _fetch_external_grounding \/ Gates \/ Admit
  \/ transform \/ shape
=============================================================================
