---------------------------- MODULE RequestProofs ----------------------------
(***************************************************************************)
(* What Request promises, for every update, balance, intent, message size  *)
(* and number of failing calls.  The inductive invariant RInv says, stage  *)
(* by stage, what a request can hold when it gets there: what was heard    *)
(* (Heard, Counting), what the profile says was done (Profiled, Degraded), *)
(* what the answer rests on (Grounded), whose text it is and what a judge  *)
(* said of it (Judged), what became of it (Settled), and what its sums and *)
(* its bill hold (Slotted, Summed, Billed).                                *)
(***************************************************************************)
EXTENDS Request, FiniteSetTheorems, TLAPS
-----------------------------------------------------------------------------
\* The stages of a request, in the order in which it can pass them.
MediaStages   == AllKinds \cup {"file", "listen", "sign", "transcribe", "unheard", "look",
                                "classifycaption", "seen", "group", "batches", "lost", "fastpath"}
GateStages    == {"gate1", "multilingual", "gate2", "safeguard"}
ContextStages == {"history", "embed", "search", "rerank", "intent", "grounding", "gates", "epk"}
InputStages   == {"compress", "shape"}
AgentStages   == {"primary", "validators", "judge", "revise", "fallback"}
PathStages    == {"coordinated", "lite", "synthesize"}
TailStages    == {"returned", "tts", "wire", "bill", "reply", "albumreply"}

BeforeAgents == MediaStages \cup GateStages \cup ContextStages \cup InputStages \cup {"primary"}
BeforePaths  == BeforeAgents \cup AgentStages
BeforeSave   == BeforePaths \cup PathStages

TailNext == Returned \/ _synthesize_chunk \/ synthesize \/ WireSpeech \/ Bill \/ Reply \/ AlbumReply

\* The intermediate results of a request are of the shapes the stages expect.
TypeCore ==
  /\ update \in Updates
  /\ faults \in 0 .. MaxFaults
  /\ text \subseteq Parts
  /\ intent \in Intents \cup {"none"}
  /\ prompt \subseteq {"memory", "tool", "notfound"}
  /\ late \subseteq made /\ made \subseteq Calls

\* What the stages of media leave alone, and where they lead.
LEMMA MediaFrame ==
  ASSUME MediaNext
  PROVE  /\ UNCHANGED <<update, intent, profile, prompt, answer, billed, history>>
         /\ pc \in MediaStages /\ pc' \in MediaStages \cup {"gate1", "returned", "done"}
  <1> USE DEF given, calls, work, back, AllKinds, MediaStages, Goto, ReturnDenied, StartPipeline,
              Unseen, Raised, NoCall
  <1>1. CASE TextMessage \/ handle_vision_attachment \/ AttachmentBytes \/ AttachmentUrl
    BY <1>1 DEF TextMessage, handle_vision_attachment, AttachmentBytes, AttachmentUrl
  <1>2. CASE _get_file_url \/ _download_image
    BY <1>2 DEF _get_file_url, _download_image, NotDownloaded, download_telegram_voice,
                _download_image_via_worker
  <1>3. CASE _handle_vision_core \/ ClassifyCaption \/ Seen
    BY <1>3 DEF _handle_vision_core, ClassifyCaption, Seen, IsUpdate
  <1>4. CASE handle_vision_group \/ LoadGroup \/ DescribeGroup
    BY <1>4 DEF handle_vision_group, LoadGroup, DescribeGroup
  <1>5. CASE is_silent \/ transcribe \/ Unheard
    BY <1>5 DEF is_silent, transcribe, Unheard
  <1> QED
    BY <1>1, <1>2, <1>3, <1>4, <1>5 DEF MediaNext

\* What the stages from the safety gate to the shaper leave alone.
LEMMA GroundingFrame ==
  ASSUME GroundingNext
  PROVE  /\ UNCHANGED <<update, tries, text, answer, billed, sent>>
         /\ pc \in GateStages \cup ContextStages \cup InputStages
         /\ pc' \in GateStages \cup ContextStages \cup InputStages \cup {"primary", "save"}
  <1> USE DEF given, calls, work, back, GateStages, ContextStages, InputStages, Goto,
              PipelineDenies, NoCall
  <1>1. CASE check_pass1 \/ preprocess \/ check_pass2 \/ _load_history
    BY <1>1 DEF check_pass1, preprocess, check_pass2, PromptGuard, Safeguard, _load_history
  <1>2. CASE retrieve \/ ClassifyIntent \/ _fetch_external_grounding
    BY <1>2 DEF retrieve, embed, SearchMemories, rerank, ClassifyIntent, _fetch_external_grounding
  <1>3. CASE Gates \/ Admit
    BY <1>3 DEF Gates, Admit
  <1>4. CASE transform \/ shape
    BY <1>4 DEF transform, shape
  <1> QED
    BY <1>1, <1>2, <1>3, <1>4 DEF GroundingNext

\* What the coordinator leaves alone.
LEMMA AgentsFrame ==
  ASSUME AgentsNext
  PROVE  /\ UNCHANGED <<update, tries, text, intent, profile, prompt, late, billed, history, sent>>
         /\ pc \in AgentStages /\ pc' \in AgentStages \cup {"coordinated", "save"}
  <1> USE DEF given, calls, work, back, AgentStages, Goto, PipelineDenies, NoCall,
              Answered, Unanswered, Wordless, Speaks, _run_agent, _run_compound,
              complete_with_fallback
  <1>1. CASE RunPrimary \/ RunValidators
    BY <1>1 DEF RunPrimary, RunValidators
  <1>2. CASE Judge \/ Revise
    BY <1>2 DEF Judge, Revise, _llm_judge
  <1>3. CASE RunFallback
    BY <1>3 DEF RunFallback
  <1> QED
    BY <1>1, <1>2, <1>3 DEF AgentsNext

\* What the execution paths leave alone.
LEMMA ExecutionFrame ==
  ASSUME ExecutionNext
  PROVE  /\ UNCHANGED <<update, tries, text, intent, profile, prompt, late, billed, sent>>
         /\ answer' = answer \/ check_async_lite
         /\ pc \in PathStages \cup {"save", "fastpath"}
         /\ pc' \in {"lite", "synthesize", "save", "returned"}
         /\ pc \in PathStages \cup {"fastpath"} => history' = history
  <1> USE DEF given, calls, work, back, PathStages, Goto, PipelineDenies, ReturnDenied, NoCall,
              Answered, Unanswered
  <1>1. CASE Blocked \/ Unblocked \/ check_async_lite
    BY <1>1 DEF Blocked, Unblocked, check_async_lite, _llm_judge_lite, _clarify_result
  <1>2. CASE Synthesize \/ SaveAndWire \/ VisionFastPath
    BY <1>2 DEF Synthesize, SaveAndWire, VisionFastPath
  <1> QED
    BY <1>1, <1>2 DEF ExecutionNext

\* What the end of handle_message and process_update leave alone.
LEMMA TailFrame ==
  ASSUME TailNext
  PROVE  /\ UNCHANGED <<update, text, intent, profile, prompt, answer, late, history>>
         /\ pc \in TailStages /\ pc' \in TailStages \cup {"done"}
         /\ made' = made \/ (pc = "tts" /\ made' = made \cup {"tts"})
         /\ pc # "bill" => billed' = billed
         /\ pc \notin {"reply", "albumreply"} => sent' = sent
         /\ pc \notin {"tts", "wire"} => result' = result
  <1> USE DEF given, calls, work, back, TailStages, Goto, NoCall, Answered, Unanswered
  <1>1. CASE Returned
    BY <1>1 DEF Returned
  <1>2. CASE _synthesize_chunk \/ synthesize \/ WireSpeech
    BY <1>2 DEF _synthesize_chunk, synthesize, WireSpeech
  <1>3. CASE Bill \/ Reply \/ AlbumReply
    BY <1>3 DEF Bill, Reply, AlbumReply
  <1> QED
    BY <1>1, <1>2, <1>3 DEF TailNext
-----------------------------------------------------------------------------
\* Every value is of its type, the billed amounts aside.
Shape ==
  /\ pc \in Stages
  /\ TypeCore
  /\ tries \in 0 .. RETRIES
  /\ profile \in [complexity : Complexities, input : Nat, documents : BOOLEAN,
                  context : SUBSET {"memory", "tool", "notfound"},
                  compressed : BOOLEAN, shaped : {"no", "local", "llm"},
                  decision : Decisions, tier : Tiers]
  /\ answer \in [by : {"none", "primary", "revision", "fallback", "rule"},
                 verdict : {"none", "ALLOW", "REVISE", "BLOCK", "UNAVAILABLE"},
                 blank : BOOLEAN, saw : SUBSET {"memory", "tool", "notfound"},
                 blocked : {"no", "safety_block", "no_response"}]
  /\ result \in Results
  /\ history \in {"closed", "open", "user", "assistant", "both"}
  /\ sent \subseteq {"answer", "notice", "voice", "topup"}

\* Where a request came from: the kind of update its stage belongs to, and
\* how the text of a voice message relates to the call that wrote it down.
Spoken == update.kind = "voice" /\ "transcript" \in text
Heard ==
  /\ pc \in {"group", "batches", "lost"} => update.photos > 1
  /\ pc \in {"voice", "listen", "sign", "transcribe", "unheard"} => update.kind = "voice"
  /\ pc = "albumreply" => update.kind = "album"
  /\ pc \in {"tts", "wire"} => Spoken
  /\ "transcript" \in text => "asr" \in made
  /\ "asr" \in made => Spoken \/ result.state = "denied"
  /\ pc = "fastpath" => text = {"error"}
  /\ pc \in MediaStages => "asr" \notin made /\ "transcript" \notin text

\* The chunks of speech are counted from zero.
Counting ==
  /\ pc \notin {"voice", "photo", "file", "tts"} => tries = 0
  /\ update.attached /\ pc # "tts" => tries = 0
  /\ pc = "tts" /\ tries > 0 => "tts" \in made
  /\ pc = "file" => ~update.attached

\* What the profile says was done was charged, by a call in time.
Profiled ==
  /\ late \subseteq {"gate22", "multilingual", "gate86", "safeguard", "vision"}
  /\ pc = "search" \/ profile.documents => "embedding" \in made
  /\ "rerank" \in made \/ pc = "rerank" => profile.documents
  /\ pc \in MediaStages \cup GateStages \cup {"history", "embed", "search"} => "rerank" \notin made
  /\ profile.compressed => "lc" \in made
  /\ profile.shaped = "llm" => "shaper" \in made
  /\ profile.compressed \/ profile.shaped # "no" \/ pc \in InputStages
       => profile.decision = "HEAVY_REQUIRED"
  /\ pc \in MediaStages \cup GateStages \cup ContextStages
       => ~profile.compressed /\ profile.shaped = "no"
  /\ pc \in AgentStages \cup PathStages => profile.decision # "DENY"

\* The lite judge is asked on the degraded path only.
Degraded ==
  /\ pc \in BeforePaths \cup {"coordinated"} => "lite" \notin made
  /\ pc = "lite" \/ "lite" \in made => profile.decision = "DEGRADED_MODE"

\* The gates have let the request through; what the agents are given of the
\* context they looked at, and what the one whose text is held has seen.
HasContext == Strict(intent) \/ intent = "RECALL" => profile.context # {}
Gated == \/ pc \in {"epk"} \cup InputStages \cup AgentStages \cup PathStages
         \/ result.says = "answer"
SawPrompt == \/ answer.saw = prompt
             \/ answer.saw = {} /\ faults > 0 /\ HasChain
Grounded ==
  /\ Gated => prompt = Carried /\ HasContext
  /\ answer.by \in {"primary", "revision", "fallback"} => SawPrompt

\* Which agent's text the coordinator holds, and what a judge said of it.
Judged ==
  /\ pc \in BeforeAgents => answer = NoAnswer
  /\ pc \in {"primary", "validators", "judge", "fallback"} => answer.verdict = "none"
  /\ pc \in {"validators", "judge", "revise"} => answer.by \in {"none", "primary"}
  /\ pc = "fallback" => answer.by = "none"
  /\ pc = "revise" => answer.verdict = "REVISE"
  /\ answer.by = "revision" => "revision" \in made
  /\ answer.by = "primary" /\ answer.verdict = "none" => pc \in {"validators", "judge"}
  /\ answer.blank <=> answer.by = "none"
  /\ answer.verdict = "BLOCK" => answer.blocked = "safety_block" \/ pc \notin BeforeSave
  /\ answer.verdict = "REVISE" => /\ answer.by \in {"none", "primary"}
                                  /\ pc = "revise" \/ faults > 0 \/ "revision" \in made
  /\ pc \in {"lite", "synthesize"} => answer.blocked = "no"
  /\ pc = "synthesize" /\ profile.decision = "DEGRADED_MODE" => answer.verdict # "none"
  /\ pc \in BeforePaths => "fallback" \notin made
  /\ "fallback" \in made => answer.by \in {"fallback", "rule"} \/ answer.blocked # "no"

\* The result: there is none before the tail of run, and what an answer was
\* found to be holds of the coordination it came from.
Unsettled == pc \in BeforeSave => result = NoResult
Settled ==
  /\ Unsettled
  /\ pc \in {"save"} \cup TailStages => result.state # "none"
  /\ result.state = "none" => result = NoResult
  /\ pc # "done" => sent = {}
  /\ pc = "done" /\ sent = {} => result.says = "nothing" /\ result.state # "none"
  /\ result.state = "answered" => result.reason = "none"
  /\ result.says = "answer" =>
       /\ result.state = "answered" /\ answer.blocked = "no" /\ profile.decision # "DENY"
       /\ ~answer.blank /\ answer.verdict # "BLOCK"
       /\ answer.verdict = "none" => profile.decision # "DEGRADED_MODE"
  /\ result.says = "nothing" =>
       \/ result.state \in {"none", "answered"}
       \/ result.reason = "empty_message" /\ update.kind = "voice"

\* What the sums of the result hold.
Used(c) == \/ c \in InTime
           \/ c = "rerank" /\ profile.documents
           \/ c = "vision" /\ text = {"error"}
Slotted ==
  /\ \A c \in result.slots["cost"] :
       Used(c) /\ c \notin {"gate22", "gate86", "safeguard", "multilingual", "asr", "tts"}
  /\ "revision" \in result.slots["cost"] => answer.by = "revision"
  /\ result.slots["safety"] \subseteq {"gate22", "gate86", "safeguard"} \cap InTime
  /\ result.slots["multilingual"] \subseteq {"multilingual"} \cap InTime
  /\ result.slots["asr"] \subseteq {"asr"} \cap InTime
  /\ result.slots["tts"] \subseteq {"tts"} \cap InTime
  /\ result.slots["revision"] \subseteq {"revision"} \cap InTime

\* The sums of an answer hold all that was used for it.
Summed ==
  /\ result.says = "answer" =>
       /\ result.slots["cost"] = Cost
       /\ result.slots["revision"] = RevisionMetrics
       /\ pc # "save" =>
            /\ result.slots["safety"] = {"gate22", "gate86", "safeguard"} \cap InTime
            /\ result.slots["multilingual"] = {"multilingual"} \cap InTime
  /\ pc \in {"bill", "reply", "done"} /\ Spoken /\ ~update.attached
       => result.slots["asr"] = {"asr"}

NothingBilled == [c \in Calls |-> 0]
Billed ==
  /\ pc \notin {"reply", "done"} => billed = NothingBilled
  /\ billed \in {NothingBilled, Charged}
  /\ "voice" \in sent => result.slots["tts"] # {}

\* The results that the stages build are results.
LEMMA ResultTypes ==
  /\ NoResult \in Results
  /\ \A reason \in {"vision_error", "vad_silence", "asr_failed", "empty_message", "no_grounding",
                    "need_detail", "insufficient_balance", "internal_error", "safety_block",
                    "no_response"}, says \in {"notice", "nothing"} :
       Denied(reason, says) \in Results
  /\ \A says \in {"answer", "notice", "nothing"}, slots \in [Slots -> SUBSET Calls] :
       Replied(says, slots) \in Results
  <1>1. NoSlots \in [Slots -> SUBSET Calls]
    BY DEF NoSlots
  <1> QED
    BY <1>1 DEF NoResult, Denied, Replied, Results

\* A result stays one when a sum is written.
LEMMA SlotWritten ==
  ASSUME NEW r \in Results, NEW s \in Slots, NEW cs \in SUBSET Calls
  PROVE  /\ [r EXCEPT !.slots[s] = cs] \in Results
         /\ [r EXCEPT !.slots[s] = cs].slots[s] = cs
         /\ \A t \in Slots \ {s} : [r EXCEPT !.slots[s] = cs].slots[t] = r.slots[t]
         /\ [r EXCEPT !.slots[s] = cs].state = r.state
         /\ [r EXCEPT !.slots[s] = cs].says = r.says
         /\ [r EXCEPT !.slots[s] = cs].reason = r.reason
  BY DEF Results

WithSlot(r, s, cs) == [r EXCEPT !.slots[s] = cs]

\* The same, with the changed result under a name.
LEMMA SlotChanged ==
  ASSUME NEW r \in Results, NEW s \in Slots, NEW cs \in SUBSET Calls
  PROVE  /\ WithSlot(r, s, cs) \in Results
         /\ WithSlot(r, s, cs).slots[s] = cs
         /\ \A t \in Slots \ {s} : WithSlot(r, s, cs).slots[t] = r.slots[t]
         /\ WithSlot(r, s, cs).state = r.state
         /\ WithSlot(r, s, cs).says = r.says
         /\ WithSlot(r, s, cs).reason = r.reason
  BY SlotWritten DEF WithSlot

\* The first step of a request: there is an update, and nothing else yet.
LEMMA InitShape == Init => Shape
  <1> SUFFICES ASSUME Init PROVE Shape
    OBVIOUS
  <1>1. pc \in Stages
    BY ConstantsAssumption DEF Init, Stages, IsUpdate
  <1>2. profile \in [complexity : Complexities, input : Nat, documents : BOOLEAN,
                     context : SUBSET {"memory", "tool", "notfound"},
                     compressed : BOOLEAN, shaped : {"no", "local", "llm"},
                     decision : Decisions, tier : Tiers]
    BY Zenon DEF Init, NoProfile, Complexities, Decisions, Tiers
  <1>3. answer \in [by : {"none", "primary", "revision", "fallback", "rule"},
                    verdict : {"none", "ALLOW", "REVISE", "BLOCK", "UNAVAILABLE"},
                    blank : BOOLEAN, saw : SUBSET {"memory", "tool", "notfound"},
                    blocked : {"no", "safety_block", "no_response"}]
    BY Zenon DEF Init, NoAnswer
  <1>4. faults \in 0 .. MaxFaults /\ tries \in 0 .. RETRIES
    BY ConstantsAssumption DEF Init, RETRIES
  <1> QED
    BY <1>1, <1>2, <1>3, <1>4, ResultTypes DEF Init, Shape, TypeCore

CallsTyped == faults \in 0 .. MaxFaults /\ late \subseteq made /\ made \subseteq Calls

\* However a call ends, the calls stay of their types.
LEMMA CallsKept ==
  ASSUME CallsTyped
  PROVE  /\ \A c \in Calls : Answered(c) \/ AnsweredLate(c) => CallsTyped'
         /\ Unanswered => CallsTyped'
         /\ NoCall => CallsTyped'
         /\ (Works \/ Fails) /\ UNCHANGED <<made, late>> => CallsTyped'
         /\ \A c \in Calls : Fails /\ made' = made \cup {c} /\ late' = late => CallsTyped'
  BY ConstantsAssumption DEF CallsTyped, Answered, AnsweredLate, Unanswered, NoCall, calls, Fails,
                             Works

\* Every stage of the media leaves the values of their types.
LEMMA MediaShape ==
  ASSUME Shape, MediaNext
  PROVE  Shape'
  <1> USE MediaFrame DEF given, calls, work, back
  <1>1. pc' \in Stages
    BY DEF MediaStages, Stages
  <1>2. CallsTyped' /\ tries' \in 0 .. RETRIES /\ text' \subseteq Parts
    <2>0. CallsTyped /\ tries \in 0 .. RETRIES /\ text \subseteq Parts
      BY DEF Shape, TypeCore, CallsTyped
    <2>00. "vision" \in Calls /\ "asr" \in Calls
      BY DEF Calls
    <2> USE <2>0, <2>00, CallsKept DEF RETRIES, Parts, StartPipeline, Unseen, Raised, ReturnDenied
    <2>1. CASE TextMessage \/ handle_vision_attachment \/ AttachmentBytes \/ AttachmentUrl
      BY <2>1 DEF TextMessage, handle_vision_attachment, AttachmentBytes, AttachmentUrl
    <2>2. CASE _get_file_url \/ _download_image
      <3>1. CallsTyped'
        BY <2>2 DEF _get_file_url, _download_image, NotDownloaded, download_telegram_voice,
                    _download_image_via_worker
      <3>2. tries' \in {tries, 0, tries + 1} /\ (tries' = tries + 1 => tries < RETRIES)
            /\ (text' = text \/ text' = {"error"})
        BY <2>2 DEF _get_file_url, _download_image, NotDownloaded, download_telegram_voice,
                    _download_image_via_worker
      <3>3. tries' \in 0 .. RETRIES
        BY ONLY <3>2, tries \in 0 .. RETRIES DEF RETRIES
      <3> QED
        BY <3>1, <3>2, <3>3
    <2>3. CASE _handle_vision_core
      <3>1. CallsTyped'
        BY <2>3 DEF _handle_vision_core
      <3>2. tries' \in 0 .. RETRIES /\ text' \subseteq Parts
        BY <2>3 DEF _handle_vision_core
      <3> QED
        BY <3>1, <3>2
    <2>4. CASE ClassifyCaption \/ Seen
      BY <2>4 DEF ClassifyCaption, Seen
    <2>5. CASE handle_vision_group \/ LoadGroup
      BY <2>5 DEF handle_vision_group, LoadGroup
    <2>6. CASE DescribeGroup
      BY <2>6 DEF DescribeGroup, _call_groq_vision
    <2>7. CASE is_silent \/ Unheard
      BY <2>7 DEF is_silent, Unheard
    <2>8. CASE transcribe
      <3>1. CallsTyped'
        BY <2>8 DEF transcribe
      <3>2. tries' \in 0 .. RETRIES /\ text' \subseteq Parts
        BY <2>8 DEF transcribe
      <3> QED
        BY <3>1, <3>2
    <2> QED
      BY <2>1, <2>2, <2>3, <2>4, <2>5, <2>6, <2>7, <2>8 DEF MediaNext
  <1>3. result' \in Results /\ sent' \subseteq {"answer", "notice", "voice", "topup"}
    <2> USE ResultTypes DEF Shape, StartPipeline, Unseen, Raised, ReturnDenied
    <2>1. CASE TextMessage \/ handle_vision_attachment \/ AttachmentBytes \/ AttachmentUrl
      BY <2>1 DEF TextMessage, handle_vision_attachment, AttachmentBytes, AttachmentUrl
    <2>2. CASE _get_file_url \/ _download_image
      BY <2>2 DEF _get_file_url, _download_image
    <2>3. CASE _handle_vision_core \/ ClassifyCaption \/ Seen
      BY <2>3 DEF _handle_vision_core, ClassifyCaption, Seen
    <2>4. CASE handle_vision_group \/ LoadGroup \/ DescribeGroup
      BY <2>4 DEF handle_vision_group, LoadGroup, DescribeGroup
    <2>5. CASE is_silent \/ transcribe \/ Unheard
      BY <2>5 DEF is_silent, transcribe, Unheard
    <2> QED
      BY <2>1, <2>2, <2>3, <2>4, <2>5 DEF MediaNext
  <1> QED
    BY <1>1, <1>2, <1>3 DEF Shape, TypeCore, CallsTyped

Profiles == [complexity : Complexities, input : Nat, documents : BOOLEAN,
             context : SUBSET {"memory", "tool", "notfound"},
             compressed : BOOLEAN, shaped : {"no", "local", "llm"},
             decision : Decisions, tier : Tiers]

\* A profile stays one under the changes that the stages make.
LEMMA ProfileChanges ==
  ASSUME NEW p \in Profiles
  PROVE  /\ \A b \in BOOLEAN : [p EXCEPT !.documents = b] \in Profiles
         /\ \A g \in SUBSET {"memory", "tool", "notfound"} : [p EXCEPT !.context = g] \in Profiles
         /\ [p EXCEPT !.compressed = TRUE] \in Profiles
         /\ \A how \in {"local", "llm"} : [p EXCEPT !.shaped = how] \in Profiles
         /\ \A n \in Nat, c \in Complexities, d \in Decisions, t \in Tiers :
              [p EXCEPT !.input = n, !.complexity = c, !.decision = d, !.tier = t] \in Profiles
  BY Zenon DEF Profiles

\* Admission chooses one of the four decisions, and a tier.
LEMMA AdmitTypes ==
  ASSUME NEW cost, NEW amount, NEW c
  PROVE  /\ evaluate(cost, amount, c) \in Decisions
         /\ \A d : TierFor(d, cost) \in Tiers
  BY DEF evaluate, Decisions, TierFor, select_tier, Tiers

\* The intents that a classification may say are intents.
LEMMA ClassifyType == classify \subseteq Intents
  BY ConstantsAssumption DEF classify, ByProfile, ByLabel, Undecided, Intents

\* A tool returns grounding or nothing.
LEMMA ToolType == \A i : \A found \in run_tool(i) : found \subseteq {"tool", "notfound"}
  <1> SUFFICES ASSUME NEW i PROVE \A found \in run_tool(i) : found \subseteq {"tool", "notfound"}
    OBVIOUS
  <1>1. run_tool(i) \in {_weather, _maps, _maps_poi, _maps_route, _search}
    BY Zenon DEF run_tool
  <1> QED
    BY <1>1 DEF _weather, _maps, _maps_poi, _maps_route, _search

\* So does every stage from the safety gate to the shaper.
LEMMA GroundingShape ==
  ASSUME Shape, GroundingNext
  PROVE  Shape'
  <1> USE GroundingFrame DEF given, calls, work, back
  <1>1. pc' \in Stages
    BY DEF GateStages, ContextStages, InputStages, Stages
  <1>2. CallsTyped'
    <2>0. CallsTyped
      BY DEF Shape, TypeCore, CallsTyped
    <2>00. {"gate22", "multilingual", "gate86", "safeguard", "embedding", "rerank", "lc", "shaper"}
             \subseteq Calls
      BY DEF Calls
    <2> USE <2>0, <2>00, CallsKept
    <2>1. CASE check_pass1
      BY <2>1 DEF check_pass1, _classify_with_model
    <2>2. CASE preprocess
      BY <2>2 DEF preprocess
    <2>3. CASE PromptGuard
      BY <2>3 DEF PromptGuard, _classify_with_model
    <2>4. CASE Safeguard
      <3>1. CASE _classify_with_model("safeguard")
        BY <3>1 DEF _classify_with_model
      <3>2. CASE Fails /\ made' = made \cup {"safeguard"}
                 /\ late' = late \cup ({"gate86", "safeguard"} \cap made')
        BY <3>2, ConstantsAssumption DEF CallsTyped, Fails
      <3> QED
        BY <2>4, <3>1, <3>2 DEF Safeguard
    <2>5. CASE _load_history
      BY <2>5 DEF _load_history
    <2>6. CASE embed \/ SearchMemories \/ rerank
      BY <2>6 DEF embed, SearchMemories, rerank
    <2>7. CASE ClassifyIntent \/ Gates \/ Admit
      BY <2>7 DEF ClassifyIntent, Gates, Admit
    <2>8. CASE _fetch_external_grounding
      BY <2>8 DEF _fetch_external_grounding
    <2>9. CASE transform \/ shape
      BY <2>9 DEF transform, shape, _semantic_summarize
    <2> QED
      BY <2>1, <2>2, <2>3, <2>4, <2>5, <2>6, <2>7, <2>8, <2>9 DEF GroundingNext, check_pass2,
                                                            retrieve
  <1>6. result' \in Results
    <2> USE ResultTypes DEF Shape, PipelineDenies
    <2>1. CASE check_pass1 \/ preprocess \/ PromptGuard \/ Safeguard \/ _load_history \/ retrieve
      BY <2>1 DEF check_pass1, preprocess, PromptGuard, Safeguard, _load_history, retrieve, embed,
                  SearchMemories, rerank
    <2>2. CASE ClassifyIntent \/ _fetch_external_grounding \/ transform \/ shape
      BY <2>2 DEF ClassifyIntent, _fetch_external_grounding, transform, shape
    <2>3. CASE Gates \/ Admit
      BY <2>3 DEF Gates, Admit
    <2> QED
      BY <2>1, <2>2, <2>3 DEF GroundingNext, check_pass2
  <1>3. history' \in {"closed", "open", "user", "assistant", "both"} /\ intent' \in Intents \cup {"none"}
    <2> USE ClassifyType DEF Shape, TypeCore
    <2>1. CASE check_pass1 \/ preprocess \/ PromptGuard \/ Safeguard \/ _load_history \/ retrieve
      BY <2>1 DEF check_pass1, preprocess, PromptGuard, Safeguard, _load_history, retrieve, embed,
                  SearchMemories, rerank
    <2>2. CASE ClassifyIntent
      BY <2>2 DEF ClassifyIntent, Intents
    <2>3. CASE _fetch_external_grounding \/ Gates \/ Admit \/ transform \/ shape
      BY <2>3 DEF _fetch_external_grounding, Gates, Admit, transform, shape
    <2> QED
      BY <2>1, <2>2, <2>3 DEF GroundingNext, check_pass2
  <1>4. prompt' \subseteq {"memory", "tool", "notfound"}
    <2> USE DEF Shape, TypeCore, Rebuild
    <2>1. CASE check_pass1 \/ preprocess \/ PromptGuard \/ Safeguard \/ _load_history \/ retrieve
      BY <2>1 DEF check_pass1, preprocess, PromptGuard, Safeguard, _load_history, retrieve, embed,
                  SearchMemories, rerank
    <2>2. CASE _fetch_external_grounding
      <3>1. prompt' = prompt \/ \E found \in run_tool(intent) : prompt' = prompt \cup found
        BY <2>2 DEF _fetch_external_grounding
      <3>2. CASE \E found \in run_tool(intent) : prompt' = prompt \cup found
        <4>1. PICK found \in run_tool(intent) : prompt' = prompt \cup found
          BY <3>2
        <4> QED
          BY <4>1, ToolType
      <3> QED
        BY <3>1, <3>2
    <2>3. CASE ClassifyIntent \/ Gates \/ Admit \/ transform \/ shape
      BY <2>3 DEF ClassifyIntent, Gates, Admit, transform, shape
    <2> QED
      BY <2>1, <2>2, <2>3 DEF GroundingNext, check_pass2
  <1>5. profile' \in Profiles
    <2>0. profile \in Profiles
      BY DEF Shape, Profiles
    <2>1. CASE check_pass1 \/ preprocess \/ PromptGuard \/ Safeguard \/ _load_history \/ embed \/ rerank
      BY <2>0, <2>1 DEF check_pass1, preprocess, PromptGuard, Safeguard, _load_history, embed,
                        rerank
    <2>2. CASE SearchMemories
      BY <2>0, <2>2, ProfileChanges DEF SearchMemories
    <2>3. CASE ClassifyIntent \/ _fetch_external_grounding
      BY <2>0, <2>3 DEF ClassifyIntent, _fetch_external_grounding
    <2>6. CASE Gates
      <3>1. profile' = [profile EXCEPT !.context = prompt]
            /\ prompt \in SUBSET {"memory", "tool", "notfound"}
        BY <2>6 DEF Gates, Shape, TypeCore
      <3> QED
        BY <2>0, <3>1, ProfileChanges
    <2>4. CASE Admit
      <3> DEFINE C(size) == IF IsVision THEN "LOW" ELSE size[1]
                 D(size) == evaluate(Estimated(size[2], C(size)), update.balance, C(size))
                 T(size) == TierFor(D(size), Estimated(size[2], C(size)))
      <3>1. PICK size \in SizesUsed :
              profile' = [profile EXCEPT !.input = size[2], !.complexity = C(size),
                                         !.decision = D(size), !.tier = T(size)]
        BY <2>4 DEF Admit
      <3>2. size[2] \in Nat /\ C(size) \in Complexities
        BY ConstantsAssumption DEF Complexities
      <3>3. D(size) \in Decisions /\ T(size) \in Tiers
        BY AdmitTypes
      <3> HIDE DEF C, D, T
      <3> QED
        BY <2>0, <3>1, <3>2, <3>3, ProfileChanges
    <2>5. CASE transform \/ shape
      BY <2>0, <2>5, ProfileChanges DEF transform, shape, _semantic_summarize, Shaped
    <2> QED
      BY <2>1, <2>2, <2>3, <2>4, <2>5, <2>6 DEF GroundingNext, check_pass2, retrieve
  <1> QED
    BY <1>1, <1>2, <1>3, <1>4, <1>5, <1>6 DEF Shape, TypeCore, Profiles, CallsTyped

Answers == [by : {"none", "primary", "revision", "fallback", "rule"},
            verdict : {"none", "ALLOW", "REVISE", "BLOCK", "UNAVAILABLE"},
            blank : BOOLEAN, saw : SUBSET {"memory", "tool", "notfound"},
            blocked : {"no", "safety_block", "no_response"}]

\* The agents and the judge leave an answer one.
LEMMA AnswerChanges ==
  ASSUME NEW a \in Answers
  PROVE  /\ \A c \in {"primary", "revision", "fallback"} :
              \A seen \in SUBSET {"memory", "tool", "notfound"} :
                [a EXCEPT !.by = c, !.blank = FALSE, !.saw = seen, !.verdict = "none"] \in Answers
         /\ \A v \in {"ALLOW", "REVISE", "BLOCK", "UNAVAILABLE"} :
              \A b \in {"safety_block", "no"} :
                [a EXCEPT !.verdict = v, !.blocked = b] \in Answers
         /\ \A v \in {"ALLOW", "BLOCK", "UNAVAILABLE"} : [a EXCEPT !.verdict = v] \in Answers
         /\ [a EXCEPT !.by = "rule", !.blank = FALSE] \in Answers
         /\ [a EXCEPT !.blocked = "no_response"] \in Answers
  BY Zenon DEF Answers

\* An agent that is called is charged, or fails uncharged.
LEMMA SpeaksCalls ==
  ASSUME CallsTyped, NEW c \in Calls, NEW agent, NEW seen, _run_agent(agent, c, seen)
  PROVE  CallsTyped'
  BY CallsKept DEF _run_agent, _run_compound, complete_with_fallback

\* So do the agents.
LEMMA AgentsShape ==
  ASSUME Shape, AgentsNext
  PROVE  Shape'
  <1> USE AgentsFrame DEF given, calls, work, back
  <1>1. pc' \in Stages
    BY DEF AgentStages, Stages
  <1>2. CallsTyped'
    <2>0. CallsTyped
      BY DEF Shape, TypeCore, CallsTyped
    <2>00. {"primary", "validator", "judge", "revision", "fallback"} \subseteq Calls
      BY DEF Calls
    <2> USE <2>0, <2>00, CallsKept, SpeaksCalls
    <2>1. CASE RunPrimary
      BY <2>1 DEF RunPrimary, Speaks, Wordless
    <2>2. CASE RunValidators
      BY <2>2 DEF RunValidators, Wordless
    <2>3. CASE Judge
      BY <2>3 DEF Judge, _llm_judge
    <2>4. CASE Revise
      BY <2>4 DEF Revise, Speaks, Wordless
    <2>5. CASE RunFallback
      BY <2>5 DEF RunFallback, Speaks, Wordless
    <2> QED
      BY <2>1, <2>2, <2>3, <2>4, <2>5 DEF AgentsNext
  <1>3. result' \in Results
    BY ResultTypes DEF Shape, PipelineDenies, AgentsNext, RunPrimary, RunValidators, Judge, Revise,
                       RunFallback
  <1>4. answer' \in Answers
    <2>0. answer \in Answers /\ prompt \in SUBSET {"memory", "tool", "notfound"}
      BY DEF Shape, TypeCore, Answers
    <2>1. ASSUME NEW c \in {"primary", "revision", "fallback"}, NEW agent, Speaks(c, agent)
          PROVE  answer' \in Answers
      <3>1. PICK seen \in {prompt, _truncate_messages} :
              answer' = [answer EXCEPT !.by = c, !.blank = FALSE, !.saw = seen,
                                       !.verdict = "none"]
        BY <2>1 DEF Speaks
      <3>2. seen \in SUBSET {"memory", "tool", "notfound"}
        BY <2>0 DEF _truncate_messages
      <3> QED
        BY <2>0, <3>1, <3>2, AnswerChanges
    <2>2. CASE RunPrimary
      BY <2>0, <2>1, <2>2 DEF RunPrimary
    <2>3. CASE RunValidators
      BY <2>0, <2>3 DEF RunValidators
    <2>4. CASE Judge
      BY <2>0, <2>4, AnswerChanges DEF Judge, IsBlock
    <2>5. CASE Revise
      BY <2>0, <2>1, <2>5 DEF Revise
    <2>6. CASE RunFallback
      BY <2>0, <2>1, <2>6, AnswerChanges DEF RunFallback, AllFailed
    <2> QED
      BY <2>2, <2>3, <2>4, <2>5, <2>6 DEF AgentsNext
  <1> QED
    BY <1>1, <1>2, <1>3, <1>4 DEF Shape, TypeCore, CallsTyped, Answers

\* The sums that the execution paths hand on hold calls.
LEMMA CostCalls ==
  ASSUME Shape, profile.decision # "DENY"
  PROVE  Cost \subseteq Calls /\ RevisionMetrics \subseteq Calls
  <1>1. RevisionMetrics \subseteq Calls
    BY DEF RevisionMetrics, Calls
  <1>2. Cost \subseteq Calls
    <2>1. PrimaryMetrics \subseteq {"revision", "primary", "fallback"}
      <3>1. answer.by \in {"none", "primary", "revision", "fallback", "rule"}
        BY DEF Shape
      <3>2. CASE answer.by = "revision"
        BY <3>2, Zenon DEF PrimaryMetrics
      <3>3. CASE answer.by = "fallback"
        BY <3>3, Zenon DEF PrimaryMetrics
      <3>4. CASE answer.by = "rule"
        BY <3>4, Zenon DEF PrimaryMetrics
      <3>5. CASE answer.by \in {"primary", "none"}
        BY <3>5, Zenon DEF PrimaryMetrics
      <3> QED
        BY <3>1, <3>2, <3>3, <3>4, <3>5
    <2>2. _run_allow \subseteq Calls
      BY <2>1 DEF _run_allow, RetrievalMetrics, SafetyMetrics, Calls
    <2>3. _run_degraded \subseteq Calls
      BY <2>1 DEF _run_degraded, RetrievalMetrics, Calls
    <2>4. _run_heavy \subseteq Calls
      BY <2>1 DEF _run_heavy, RetrievalMetrics, SafetyMetrics, Calls
    <2>5. profile.decision \in {"ALLOW", "DEGRADED_MODE", "HEAVY_REQUIRED"}
      BY DEF Shape, Decisions
    <2> QED
      BY <2>2, <2>3, <2>4, <2>5, Zenon DEF Cost
  <1> QED
    BY <1>1, <1>2

\* So do the execution paths, for a request that was admitted.
LEMMA ExecutionShape ==
  ASSUME Shape, pc \in PathStages => profile.decision # "DENY", ExecutionNext
  PROVE  Shape'
  <1> USE ExecutionFrame DEF given, calls, work, back
  <1>1. pc' \in Stages
    BY DEF Stages
  <1>2. CallsTyped'
    <2>0. CallsTyped
      BY DEF Shape, TypeCore, CallsTyped
    <2>00. "lite" \in Calls
      BY DEF Calls
    <2> USE <2>0, <2>00, CallsKept
    <2>1. CASE Blocked \/ Unblocked \/ Synthesize \/ VisionFastPath
      BY <2>1 DEF Blocked, Unblocked, Synthesize, VisionFastPath
    <2>2. CASE check_async_lite
      BY <2>2 DEF check_async_lite, _llm_judge_lite
    <2>3. CASE SaveAndWire
      BY <2>3 DEF SaveAndWire, _save_history
    <2> QED
      BY <2>1, <2>2, <2>3 DEF ExecutionNext
  <1>3. history' \in {"closed", "open", "user", "assistant", "both"}
    BY DEF Shape, ExecutionNext, Blocked, Unblocked, Synthesize, VisionFastPath, check_async_lite,
           SaveAndWire, _save_history
  <1>4. result' \in Results
    <2>0. result \in Results /\ NoSlots \in [Slots -> SUBSET Calls]
      BY DEF Shape, NoSlots
    <2>1. CASE Blocked \/ Unblocked \/ check_async_lite
      BY <2>0, <2>1, ResultTypes DEF Shape, Blocked, Unblocked, check_async_lite, PipelineDenies,
                                     _clarify_result
    <2>2. CASE Synthesize
      <3>1. Cost \subseteq Calls /\ RevisionMetrics \subseteq Calls
        BY <2>2, CostCalls DEF Synthesize, PathStages
      <3>2. [NoSlots EXCEPT !["cost"] = Cost, !["revision"] = RevisionMetrics] \in [Slots -> SUBSET Calls]
        BY <2>0, <3>1
      <3>3. Sayings \subseteq {"answer", "notice", "nothing"}
        BY DEF Sayings, _strip_cot_artifacts, _strip_unwanted_code
      <3> QED
        BY <2>2, <3>2, <3>3, ResultTypes DEF Synthesize
    <2>3. CASE SaveAndWire
      <3>1. {"gate22", "gate86", "safeguard"} \cap InTime \in SUBSET Calls
            /\ {"multilingual"} \cap InTime \in SUBSET Calls
            /\ "safety" \in Slots /\ "multilingual" \in Slots
        BY DEF Calls, Slots
      <3>2. result' = [[result EXCEPT !.slots["safety"] = {"gate22", "gate86", "safeguard"} \cap InTime]
                         EXCEPT !.slots["multilingual"] = {"multilingual"} \cap InTime]
        BY <2>0, <2>3, Zenon DEF SaveAndWire
      <3> QED
        BY <2>0, <3>1, <3>2, SlotWritten
    <2>4. CASE VisionFastPath
      <3>1. [NoSlots EXCEPT !["cost"] = {"vision"}] \in [Slots -> SUBSET Calls]
        BY <2>0 DEF Calls
      <3> QED
        BY <2>4, <3>1, ResultTypes DEF VisionFastPath, ReturnDenied
    <2> QED
      BY <2>1, <2>2, <2>3, <2>4 DEF ExecutionNext
  <1>5. answer' \in Answers
    <2>0. answer \in Answers
      BY DEF Shape, Answers
    <2>1. CASE check_async_lite
      BY <2>0, <2>1, AnswerChanges DEF check_async_lite
    <2> QED
      BY <2>0, <2>1
  <1> QED
    BY <1>1, <1>2, <1>3, <1>4, <1>5 DEF Shape, TypeCore, CallsTyped, Answers

\* So does the end of handle_message and process_update.
LEMMA TailShape ==
  ASSUME Shape, TailNext
  PROVE  Shape'
  <1> USE TailFrame DEF given, calls, work, back
  <1>1. pc' \in Stages
    BY DEF TailStages, Stages
  <1>2. CallsTyped' /\ tries' \in 0 .. RETRIES
    <2>0. CallsTyped /\ tries \in 0 .. RETRIES
      BY DEF Shape, TypeCore, CallsTyped
    <2>00. "tts" \in Calls
      BY DEF Calls
    <2> USE <2>0, <2>00, CallsKept
    <2>1. CASE Returned \/ WireSpeech \/ AlbumReply
      BY <2>1 DEF Returned, WireSpeech, AlbumReply
    <2>2. CASE _synthesize_chunk
      <3>1. CallsTyped'
        BY <2>2 DEF _synthesize_chunk
      <3>2. tries' = 0 \/ (tries < MAX_CHUNKS /\ tries' = tries + 1)
        BY <2>2 DEF _synthesize_chunk
      <3>3. tries' \in 0 .. RETRIES
        BY ONLY <3>2, tries \in 0 .. RETRIES DEF RETRIES, MAX_CHUNKS
      <3> QED
        BY <3>1, <3>3
    <2>3. CASE synthesize
      BY <2>3 DEF synthesize, RETRIES
    <2>4. CASE Bill \/ Reply
      BY <2>4 DEF Bill, Reply
    <2> QED
      BY <2>1, <2>2, <2>3, <2>4 DEF TailNext
  <1>3. result' \in Results
    <2>0. result \in Results
      BY DEF Shape
    <2>1. CASE synthesize
      <3>1. {"tts"} \in SUBSET Calls /\ "tts" \in Slots
        BY DEF Calls, Slots
      <3>2. result' = result \/ result' = [result EXCEPT !.slots["tts"] = {"tts"}]
        BY <2>1, Zenon DEF synthesize
      <3>3. [result EXCEPT !.slots["tts"] = {"tts"}] \in Results
        BY <2>0, <3>1, SlotWritten, Zenon
      <3> QED
        BY <2>0, <3>2, <3>3, Zenon
    <2>2. CASE WireSpeech
      <3>1. SecondsKnown \subseteq SUBSET Calls /\ "asr" \in Slots
        BY DEF SecondsKnown, Calls, Slots
      <3>2. PICK seconds \in SecondsKnown : result' = [result EXCEPT !.slots["asr"] = seconds]
        BY <2>2, Zenon DEF WireSpeech
      <3>3. [result EXCEPT !.slots["asr"] = seconds] \in Results
        BY <2>0, <3>1, SlotWritten
      <3> QED
        BY <3>2, <3>3, Zenon
    <2>3. CASE Returned \/ _synthesize_chunk \/ Bill \/ Reply \/ AlbumReply
      BY <2>0, <2>3 DEF Returned, _synthesize_chunk, Bill, Reply, AlbumReply
    <2> QED
      BY <2>1, <2>2, <2>3 DEF TailNext
  <1>4. sent' \subseteq {"answer", "notice", "voice", "topup"}
    <2>0. /\ result.says \in {"answer", "notice", "nothing"}
          /\ sent \subseteq {"answer", "notice", "voice", "topup"}
      BY DEF Shape, Results
    <2>1. CASE Reply
      BY <2>0, <2>1 DEF Reply, TextReply
    <2>2. CASE AlbumReply
      BY <2>0, <2>2 DEF AlbumReply
    <2>3. CASE Returned \/ _synthesize_chunk \/ synthesize \/ WireSpeech \/ Bill
      BY <2>0, <2>3 DEF Returned, _synthesize_chunk, synthesize, WireSpeech, Bill
    <2> QED
      BY <2>1, <2>2, <2>3 DEF TailNext
  <1> QED
    BY <1>1, <1>2, <1>3, <1>4 DEF Shape, TypeCore, CallsTyped

\* Between the request and the reply every step leaves the values of their types.
LEMMA NextShape ==
  ASSUME Shape, pc \in PathStages => profile.decision # "DENY", [Next]_vars
  PROVE  Shape'
  <1>1. CASE MediaNext \/ GroundingNext \/ AgentsNext \/ ExecutionNext \/ TailNext
    BY <1>1, MediaShape, GroundingShape, AgentsShape, ExecutionShape, TailShape
  <1>2. CASE UNCHANGED vars
    BY <1>2 DEF Shape, TypeCore, vars, given, calls, work, back
  <1> QED
    BY <1>1, <1>2 DEF Next, TailNext, Ended
-----------------------------------------------------------------------------
\* The calls that each part of a request may make.
MediaCalls     == {"vision", "asr"}
GroundingCalls == {"gate22", "multilingual", "gate86", "safeguard", "embedding", "rerank", "lc", "shaper"}
AgentCalls     == {"primary", "validator", "judge", "revision", "fallback"}

Charges(cs) == made \subseteq made' /\ made' \subseteq made \cup cs

\* Each part makes its own calls only.
LEMMA MadeFrame ==
  /\ MediaNext => Charges(MediaCalls)
  /\ GroundingNext => Charges(GroundingCalls)
  /\ AgentsNext => Charges(AgentCalls)
  /\ ExecutionNext => Charges({"lite"})
  /\ TailNext => Charges({"tts"})
  <1> USE DEF Charges, calls, Answered, Unanswered, AnsweredLate, NoCall
  <1>1. ASSUME MediaNext PROVE Charges(MediaCalls)
    <2> USE DEF MediaCalls
    <2>1. CASE TextMessage \/ handle_vision_attachment \/ AttachmentBytes \/ AttachmentUrl
               \/ _get_file_url \/ _download_image \/ ClassifyCaption \/ Seen
      BY <2>1 DEF TextMessage, handle_vision_attachment, AttachmentBytes, AttachmentUrl,
                  _get_file_url, _download_image, ClassifyCaption, Seen
    <2>2. CASE _handle_vision_core \/ DescribeGroup
      BY <2>2 DEF _handle_vision_core, DescribeGroup, _call_groq_vision
    <2>3. CASE handle_vision_group \/ LoadGroup \/ is_silent \/ transcribe \/ Unheard
      BY <2>3 DEF handle_vision_group, LoadGroup, is_silent, transcribe, Unheard
    <2> QED
      BY <1>1, <2>1, <2>2, <2>3 DEF MediaNext
  <1>2. ASSUME GroundingNext PROVE Charges(GroundingCalls)
    <2> USE DEF GroundingCalls
    <2>1. CASE check_pass1 \/ preprocess \/ PromptGuard \/ Safeguard
      BY <2>1 DEF check_pass1, preprocess, PromptGuard, Safeguard, _classify_with_model
    <2>2. CASE _load_history \/ embed \/ SearchMemories \/ rerank
      BY <2>2 DEF _load_history, embed, SearchMemories, rerank
    <2>3. CASE ClassifyIntent \/ _fetch_external_grounding \/ Gates \/ Admit
      BY <2>3 DEF ClassifyIntent, _fetch_external_grounding, Gates, Admit
    <2>4. CASE transform \/ shape
      BY <2>4 DEF transform, shape, _semantic_summarize
    <2> QED
      BY <1>2, <2>1, <2>2, <2>3, <2>4 DEF GroundingNext, check_pass2, retrieve
  <1>3. ASSUME AgentsNext PROVE Charges(AgentCalls)
    <2> USE DEF AgentCalls, Speaks, _run_agent, _run_compound, complete_with_fallback, Wordless
    <2>1. CASE RunPrimary \/ RunValidators
      BY <2>1 DEF RunPrimary, RunValidators
    <2>2. CASE Judge \/ Revise
      BY <2>2 DEF Judge, Revise, _llm_judge
    <2>3. CASE RunFallback
      BY <2>3 DEF RunFallback
    <2> QED
      BY <1>3, <2>1, <2>2, <2>3 DEF AgentsNext
  <1>4. ASSUME ExecutionNext PROVE Charges({"lite"})
    BY <1>4 DEF ExecutionNext, Blocked, Unblocked, check_async_lite, _llm_judge_lite, Synthesize,
                SaveAndWire, VisionFastPath
  <1>5. ASSUME TailNext PROVE Charges({"tts"})
    BY <1>5 DEF TailNext, Returned, _synthesize_chunk, synthesize, WireSpeech, Bill, Reply,
                AlbumReply
  <1> QED
    BY <1>1, <1>2, <1>3, <1>4, <1>5

\* Only the safety gate, the normalisation and the descriptions of an album
\* come too late.
LEMMA LateFrame ==
  /\ MediaNext => late' \subseteq late \cup {"vision"}
  /\ GroundingNext => late' \subseteq late \cup {"gate22", "multilingual", "gate86", "safeguard"}
  <1> USE DEF calls, Answered, Unanswered, AnsweredLate, NoCall
  <1>1. ASSUME MediaNext PROVE late' \subseteq late \cup {"vision"}
    <2>1. CASE TextMessage \/ handle_vision_attachment \/ AttachmentBytes \/ AttachmentUrl
               \/ _get_file_url \/ _download_image \/ ClassifyCaption \/ Seen
      BY <2>1 DEF TextMessage, handle_vision_attachment, AttachmentBytes, AttachmentUrl,
                  _get_file_url, _download_image, ClassifyCaption, Seen
    <2>2. CASE _handle_vision_core \/ DescribeGroup
      BY <2>2 DEF _handle_vision_core, DescribeGroup, _call_groq_vision
    <2>3. CASE handle_vision_group \/ LoadGroup \/ is_silent \/ transcribe \/ Unheard
      BY <2>3 DEF handle_vision_group, LoadGroup, is_silent, transcribe, Unheard
    <2> QED
      BY <1>1, <2>1, <2>2, <2>3 DEF MediaNext
  <1>2. ASSUME GroundingNext
        PROVE  late' \subseteq late \cup {"gate22", "multilingual", "gate86", "safeguard"}
    <2>1. CASE check_pass1 \/ preprocess \/ PromptGuard \/ Safeguard
      BY <2>1 DEF check_pass1, preprocess, PromptGuard, Safeguard, _classify_with_model
    <2>2. CASE _load_history \/ embed \/ SearchMemories \/ rerank
      BY <2>2 DEF _load_history, embed, SearchMemories, rerank
    <2>3. CASE ClassifyIntent \/ _fetch_external_grounding \/ Gates \/ Admit
      BY <2>3 DEF ClassifyIntent, _fetch_external_grounding, Gates, Admit
    <2>4. CASE transform \/ shape
      BY <2>4 DEF transform, shape, _semantic_summarize
    <2> QED
      BY <1>2, <2>1, <2>2, <2>3, <2>4 DEF GroundingNext, check_pass2, retrieve
  <1> QED
    BY <1>1, <1>2

\* Before the execution paths there is no result but a denial.
LEMMA ResultFrame ==
  /\ MediaNext => \/ result' = result /\ pc' # "returned"
                  \/ /\ pc' = "returned" /\ pc \in MediaStages
                     /\ \/ result' = Denied("empty_message", "nothing") /\ pc = "unheard"
                        \/ \E reason \in {"vision_error", "vad_silence", "asr_failed"} :
                             result' = Denied(reason, "notice")
  /\ GroundingNext \/ AgentsNext =>
       \/ result' = result /\ pc' # "save"
       \/ /\ pc' = "save"
          /\ \E reason \in {"need_detail", "no_grounding", "insufficient_balance", "internal_error"} :
               result' = Denied(reason, "notice")
  <1> USE DEF back, Goto, ReturnDenied, PipelineDenies, Unseen, Raised
  <1>1. ASSUME MediaNext
        PROVE  \/ result' = result /\ pc' # "returned"
               \/ /\ pc' = "returned" /\ pc \in MediaStages
                  /\ \/ result' = Denied("empty_message", "nothing") /\ pc = "unheard"
                     \/ \E reason \in {"vision_error", "vad_silence", "asr_failed"} :
                          result' = Denied(reason, "notice")
    <2> USE DEF MediaStages, StartPipeline
    <2>1. CASE TextMessage \/ handle_vision_attachment \/ AttachmentBytes \/ AttachmentUrl
               \/ _get_file_url \/ _download_image \/ ClassifyCaption \/ Seen
      BY <2>1, MediaFrame, <1>1 DEF TextMessage, handle_vision_attachment, AttachmentBytes,
                                    AttachmentUrl,
                  _get_file_url, _download_image, ClassifyCaption, Seen, NotDownloaded,
                  download_telegram_voice, _download_image_via_worker
    <2>2. CASE _handle_vision_core \/ DescribeGroup \/ handle_vision_group \/ LoadGroup
      BY <2>2 DEF _handle_vision_core, DescribeGroup, handle_vision_group, LoadGroup
    <2>3. CASE is_silent \/ transcribe \/ Unheard
      BY <2>3 DEF is_silent, transcribe, Unheard
    <2> QED
      BY <1>1, <2>1, <2>2, <2>3 DEF MediaNext
  <1>2. ASSUME GroundingNext \/ AgentsNext
        PROVE  \/ result' = result /\ pc' # "save"
               \/ /\ pc' = "save"
                  /\ \E reason \in {"need_detail", "no_grounding", "insufficient_balance", "internal_error"} :
                       result' = Denied(reason, "notice")
    <2>1. CASE check_pass1 \/ preprocess \/ PromptGuard \/ Safeguard
      BY <2>1 DEF check_pass1, preprocess, PromptGuard, Safeguard
    <2>2. CASE _load_history \/ embed \/ SearchMemories \/ rerank
      BY <2>2 DEF _load_history, embed, SearchMemories, rerank
    <2>3. CASE ClassifyIntent \/ _fetch_external_grounding \/ Gates \/ Admit
      BY <2>3 DEF ClassifyIntent, _fetch_external_grounding, Gates, Admit
    <2>4. CASE transform \/ shape
      BY <2>4 DEF transform, shape
    <2>5. CASE RunPrimary \/ RunValidators \/ Judge \/ Revise \/ RunFallback
      BY <2>5 DEF RunPrimary, RunValidators, Judge, Revise, RunFallback
    <2> QED
      BY <1>2, <2>1, <2>2, <2>3, <2>4, <2>5 DEF GroundingNext, AgentsNext, check_pass2, retrieve
  <1> QED
    BY <1>1, <1>2

\* What a stage of the grounding does to the profile.
LEMMA ProfileFields ==
  ASSUME NEW p \in Profiles
  PROVE  /\ \A b : LET q == [p EXCEPT !.documents = b]
                   IN /\ q.documents = b /\ q.compressed = p.compressed
                      /\ q.shaped = p.shaped /\ q.decision = p.decision
         /\ \A g : LET q == [p EXCEPT !.context = g]
                   IN /\ q.context = g /\ q.documents = p.documents
                      /\ q.compressed = p.compressed
                      /\ q.shaped = p.shaped /\ q.decision = p.decision
         /\ LET q == [p EXCEPT !.compressed = TRUE]
            IN /\ q.documents = p.documents /\ q.compressed /\ q.context = p.context
               /\ q.shaped = p.shaped /\ q.decision = p.decision
         /\ \A how : LET q == [p EXCEPT !.shaped = how]
                     IN /\ q.documents = p.documents /\ q.compressed = p.compressed
                        /\ q.shaped = how /\ q.decision = p.decision /\ q.context = p.context
         /\ \A n, c, d, t :
              LET q == [p EXCEPT !.input = n, !.complexity = c, !.decision = d, !.tier = t]
              IN /\ q.documents = p.documents /\ q.compressed = p.compressed
                 /\ q.shaped = p.shaped /\ q.decision = d /\ q.context = p.context
  BY DEF Profiles

\* What admission comes to.
LEMMA AdmitStep ==
  ASSUME Shape, Admit
  PROVE  /\ pc = "epk" /\ UNCHANGED <<made, late>>
         /\ profile'.documents = profile.documents
         /\ profile'.compressed = profile.compressed
         /\ profile'.shaped = profile.shaped
         /\ profile'.context = profile.context
         /\ \/ pc' = "save"
            \/ pc' = "compress" /\ profile'.decision = "HEAVY_REQUIRED"
            \/ pc' = "primary" /\ profile'.decision \notin {"DENY", "HEAVY_REQUIRED"}
  <1> DEFINE C(size) == IF IsVision THEN "LOW" ELSE size[1]
             D(size) == evaluate(Estimated(size[2], C(size)), update.balance, C(size))
             T(size) == TierFor(D(size), Estimated(size[2], C(size)))
  <1>1. PICK size \in SizesUsed :
          /\ profile' = [profile EXCEPT !.input = size[2], !.complexity = C(size),
                                        !.decision = D(size), !.tier = T(size)]
          /\ IF D(size) = "DENY" THEN PipelineDenies("insufficient_balance")
             ELSE Goto(IF D(size) = "HEAVY_REQUIRED" THEN "compress" ELSE "primary")
    BY DEF Admit
  <1>2. profile \in Profiles
    BY DEF Shape, Profiles
  <1> HIDE DEF C, D, T
  <1>3. /\ profile'.documents = profile.documents
        /\ profile'.compressed = profile.compressed
        /\ profile'.shaped = profile.shaped
        /\ profile'.context = profile.context
        /\ profile'.decision = D(size)
    BY <1>1, <1>2, ProfileFields
  <1> QED
    BY <1>1, <1>3 DEF Admit, PipelineDenies, Goto, NoCall, calls

\* Whatever the profile says was done was charged.
LEMMA ProfiledStep ==
  ASSUME Shape, Profiled, [Next]_vars
  PROVE  Profiled'
  <1>0. profile \in Profiles
    BY DEF Shape, Profiles
  <1>1. CASE MediaNext
    <2>1. /\ made \subseteq made' /\ made' \subseteq made \cup {"vision", "asr"}
          /\ late' \subseteq late \cup {"vision"}
      BY <1>1, MadeFrame, LateFrame DEF Charges, MediaCalls
    <2> QED
      BY <1>1, <2>1, MediaFrame DEF Profiled, MediaStages, GateStages, ContextStages, InputStages,
                                    AgentStages, PathStages, AllKinds
  <1>2. CASE check_pass1 \/ preprocess \/ PromptGuard \/ Safeguard \/ _load_history
    <2>1. GroundingNext
      BY <1>2 DEF GroundingNext, check_pass2
    <2>2. /\ profile' = profile /\ made \subseteq made'
          /\ made' \subseteq made \cup {"gate22", "multilingual", "gate86", "safeguard"}
      BY <1>2 DEF check_pass1, preprocess, PromptGuard, Safeguard, _classify_with_model, work,
                  _load_history,
                  Answered, Unanswered, AnsweredLate, NoCall, calls
    <2>3. pc \in GateStages \cup {"history"} /\ pc' \in GateStages \cup {"history", "embed"}
      BY <1>2 DEF check_pass1, preprocess, PromptGuard, Safeguard, _load_history, GateStages, Goto
    <2> QED
      BY <2>1, <2>2, <2>3, LateFrame DEF Profiled, GateStages, MediaStages, ContextStages,
                                         InputStages,
                                         AgentStages, PathStages, AllKinds
  <1>3. CASE retrieve
    <2> USE DEF calls, NoCall, Answered, Unanswered, Goto, Profiled, GateStages, MediaStages,
                ContextStages, InputStages, AgentStages, PathStages, AllKinds
    <2>1. CASE embed
      BY <2>1 DEF embed, work
    <2>2. CASE SearchMemories
      <3>1. \E hits \in BOOLEAN : /\ profile' = [profile EXCEPT !.documents = hits]
                                  /\ pc' = IF hits THEN "rerank" ELSE "intent"
        BY <2>2 DEF SearchMemories
      <3>2. /\ profile'.compressed = profile.compressed /\ profile'.shaped = profile.shaped
            /\ profile'.decision = profile.decision /\ (pc' = "rerank" => profile'.documents)
            /\ pc' \in {"rerank", "intent"}
        BY <1>0, <3>1, ProfileFields
      <3>3. pc = "search" /\ UNCHANGED <<made, late>>
        BY <2>2 DEF SearchMemories
      <3> QED
        BY <3>2, <3>3
    <2>3. CASE rerank
      BY <2>3 DEF rerank
    <2> QED
      BY <1>3, <2>1, <2>2, <2>3 DEF retrieve
  <1>4. CASE ClassifyIntent \/ _fetch_external_grounding \/ Gates
    <2>1. UNCHANGED <<made, late>> /\ pc \in {"intent", "grounding", "gates"}
          /\ pc' \in {"grounding", "gates", "epk", "save"}
          /\ \/ profile' = profile
             \/ profile' = [profile EXCEPT !.context = prompt]
      BY <1>4 DEF ClassifyIntent, _fetch_external_grounding, Gates, NoCall, calls, work, Goto,
                  PipelineDenies
    <2>2. /\ profile'.documents = profile.documents /\ profile'.compressed = profile.compressed
          /\ profile'.shaped = profile.shaped /\ profile'.decision = profile.decision
      <3>1. CASE profile' = profile
        BY <3>1
      <3>2. CASE profile' = [profile EXCEPT !.context = prompt]
        BY <1>0, <3>2, ProfileFields
      <3> QED
        BY <2>1, <3>1, <3>2
    <2> QED
      BY <2>1, <2>2 DEF Profiled, GateStages, MediaStages, ContextStages, InputStages, AgentStages,
                  PathStages,
                  AllKinds
  <1>5. CASE Admit
    BY <1>5, AdmitStep DEF Profiled, GateStages, MediaStages, ContextStages, InputStages,
                           AgentStages,
                           PathStages, AllKinds
  <1>6. CASE transform \/ shape
    <2>1. /\ pc \in InputStages /\ pc' \in {"shape", "primary"} /\ late' = late
          /\ made \subseteq made' /\ made' \subseteq made \cup {"lc", "shaper"}
          /\ profile'.documents = profile.documents /\ profile'.decision = profile.decision
          /\ profile'.compressed => profile.compressed \/ "lc" \in made'
          /\ profile'.shaped = "llm" => profile.shaped = "llm" \/ "shaper" \in made'
      <3>1. CASE transform
        <4>1. /\ pc = "compress" /\ pc' = "shape" /\ late' = late
              /\ \/ profile' = profile /\ made' \in {made, made \cup {"lc"}}
                 \/ profile' = [profile EXCEPT !.compressed = TRUE] /\ made' = made \cup {"lc"}
          BY <3>1 DEF transform, Goto, NoCall, calls, Answered, Unanswered
        <4> QED
          BY <1>0, <4>1, ProfileFields DEF InputStages
      <3>2. CASE shape
        <4>1. /\ pc = "shape" /\ pc' = "primary" /\ late' = late
              /\ \/ profile' = profile /\ made' = made
                 \/ profile' = [profile EXCEPT !.shaped = "local"] /\ made' \in {made, made \cup {"shaper"}}
                 \/ profile' = [profile EXCEPT !.shaped = "llm"] /\ made' = made \cup {"shaper"}
          BY <3>2 DEF shape, _semantic_summarize, Shaped, Goto, NoCall, calls, Answered, Unanswered
        <4>2. /\ profile'.documents = profile.documents /\ profile'.decision = profile.decision
              /\ profile'.compressed = profile.compressed
              /\ profile'.shaped = "llm" => profile.shaped = "llm" \/ "shaper" \in made'
          <5>1. CASE profile' = profile
            BY <5>1
          <5>2. CASE profile' = [profile EXCEPT !.shaped = "local"]
            BY <1>0, <5>2, ProfileFields
          <5>3. CASE profile' = [profile EXCEPT !.shaped = "llm"] /\ made' = made \cup {"shaper"}
            BY <1>0, <5>3, ProfileFields
          <5> QED
            BY <4>1, <5>1, <5>2, <5>3
        <4> QED
          BY <4>1, <4>2 DEF InputStages
      <3> QED
        BY <1>6, <3>1, <3>2
    <2> QED
      BY <2>1 DEF Profiled, GateStages, MediaStages, ContextStages, InputStages, AgentStages,
                  PathStages,
                  AllKinds
  <1>7. CASE AgentsNext
    <2>1. made \subseteq made' /\ made' \subseteq made \cup AgentCalls
      BY <1>7, MadeFrame DEF Charges
    <2> QED
      BY <1>7, <2>1, AgentsFrame DEF AgentCalls, Profiled, GateStages, MediaStages, ContextStages,
                                     InputStages,
                                     AgentStages, PathStages, AllKinds
  <1>8. CASE ExecutionNext
    <2>1. made \subseteq made' /\ made' \subseteq made \cup {"lite"}
      BY <1>8, MadeFrame DEF Charges
    <2>2. pc' \in PathStages => pc \in PathStages
      BY <1>8 DEF ExecutionNext, Blocked, Unblocked, check_async_lite, Synthesize, SaveAndWire,
                  VisionFastPath,
                  PathStages, Goto, PipelineDenies, _clarify_result, ReturnDenied
    <2> QED
      BY <1>8, <2>1, <2>2, ExecutionFrame DEF Profiled, GateStages, MediaStages, ContextStages,
                                              InputStages,
                                     AgentStages, PathStages, AllKinds
  <1>9. CASE TailNext
    <2>1. made \subseteq made' /\ made' \subseteq made \cup {"tts"}
      BY <1>9, MadeFrame DEF Charges
    <2> QED
      BY <1>9, <2>1, TailFrame DEF Profiled, GateStages, MediaStages, ContextStages, InputStages,
                                   AgentStages, PathStages, TailStages, AllKinds
  <1>10. CASE UNCHANGED vars
    BY <1>10 DEF Profiled, vars, calls, work
  <1> QED
    BY <1>1, <1>2, <1>3, <1>4, <1>5, <1>6, <1>7, <1>8, <1>9, <1>10
       DEF Next, GroundingNext, TailNext, Ended, check_pass2

\* The lite judge reads the texts of the degraded path only.
LEMMA DegradedStep ==
  ASSUME Shape, Profiled, Degraded, [Next]_vars
  PROVE  Degraded'
  <1> USE DEF Degraded, BeforePaths, BeforeAgents
  <1>1. CASE MediaNext
    <2>1. made \subseteq made' /\ made' \subseteq made \cup {"vision", "asr"}
      BY <1>1, MadeFrame DEF Charges, MediaCalls
    <2>2. "lite" \notin made' /\ pc' # "lite"
      BY <1>1, <2>1, MediaFrame DEF MediaStages, AllKinds
    <2> QED
      BY <2>2
  <1>2. CASE GroundingNext
    <2>1. made \subseteq made' /\ made' \subseteq made \cup GroundingCalls
      BY <1>2, MadeFrame DEF Charges
    <2> QED
      BY <1>2, <2>1, GroundingFrame DEF GateStages, ContextStages, InputStages, GroundingCalls
  <1>3. CASE AgentsNext
    <2>1. made \subseteq made' /\ made' \subseteq made \cup AgentCalls
      BY <1>3, MadeFrame DEF Charges
    <2> QED
      BY <1>3, <2>1, AgentsFrame DEF AgentStages, AgentCalls
  <1>4. CASE ExecutionNext
    <2>1. CASE check_async_lite
      BY <2>1, ExecutionFrame, <1>4, MadeFrame DEF check_async_lite, Charges, MediaStages,
                                                   GateStages,
         ContextStages, InputStages, AgentStages, AllKinds
    <2>2. CASE Unblocked
      BY <2>2, ExecutionFrame, <1>4 DEF Unblocked, Goto, NoCall, calls, MediaStages, GateStages,
         ContextStages, InputStages, AgentStages, AllKinds
    <2>3. CASE Blocked \/ Synthesize \/ SaveAndWire \/ VisionFastPath
      <3>1. UNCHANGED <<made, profile>> /\ pc' \in {"save", "returned"}
        BY <2>3 DEF Blocked, Synthesize, SaveAndWire, VisionFastPath, Goto, NoCall, calls, work,
                    PipelineDenies, _clarify_result, ReturnDenied
      <3> QED
        BY <3>1 DEF MediaStages, GateStages, ContextStages, InputStages, AgentStages, AllKinds
    <2> QED
      BY <1>4, <2>1, <2>2, <2>3 DEF ExecutionNext
  <1>5. CASE TailNext
    <2>1. made \subseteq made' /\ made' \subseteq made \cup {"tts"}
      BY <1>5, MadeFrame DEF Charges
    <2> QED
      BY <1>5, <2>1, TailFrame DEF TailStages, MediaStages, GateStages, ContextStages, InputStages,
                                   AgentStages, AllKinds
  <1>6. CASE UNCHANGED vars
    BY <1>6 DEF vars, calls, work
  <1> QED
    BY <1>1, <1>2, <1>3, <1>4, <1>5, <1>6 DEF Next, TailNext, Ended

\* What the agents and the judges do to the answer.
LEMMA AnswerFields ==
  ASSUME NEW a \in Answers
  PROVE  /\ \A c, seen :
              LET b == [a EXCEPT !.by = c, !.blank = FALSE, !.saw = seen, !.verdict = "none"]
              IN /\ b.by = c /\ b.blank = FALSE /\ b.saw = seen
                 /\ b.verdict = "none" /\ b.blocked = a.blocked
         /\ \A v, w : LET b == [a EXCEPT !.verdict = v, !.blocked = w]
                      IN /\ b.by = a.by /\ b.blank = a.blank /\ b.saw = a.saw
                         /\ b.verdict = v /\ b.blocked = w
         /\ \A v : LET b == [a EXCEPT !.verdict = v]
                   IN /\ b.by = a.by /\ b.blank = a.blank /\ b.saw = a.saw
                      /\ b.verdict = v /\ b.blocked = a.blocked
         /\ LET b == [a EXCEPT !.by = "rule", !.blank = FALSE]
            IN /\ b.by = "rule" /\ b.blank = FALSE /\ b.saw = a.saw
               /\ b.verdict = a.verdict /\ b.blocked = a.blocked
         /\ LET b == [a EXCEPT !.blocked = "no_response"]
            IN /\ b.by = a.by /\ b.blank = a.blank /\ b.saw = a.saw
               /\ b.verdict = a.verdict /\ b.blocked = "no_response"
  BY DEF Answers

\* An agent that speaks has its call charged and its text taken, which no judge
\* has read; it saw the prompt, unless its chain dropped it.
LEMMA SpeaksStep ==
  ASSUME Shape, NEW c, NEW agent, Speaks(c, agent)
  PROVE  /\ made' = made \cup {c}
         /\ answer'.by = c /\ ~answer'.blank
         /\ answer'.verdict = "none" /\ answer'.blocked = answer.blocked
         /\ \/ answer'.saw = prompt
            \/ answer'.saw = {} /\ faults' > 0 /\ agent # "COMPOUND_DEEP"
  <1>1. PICK seen \in {prompt, _truncate_messages} :
          /\ _run_agent(agent, c, seen)
          /\ answer' = [answer EXCEPT !.by = c, !.blank = FALSE, !.saw = seen, !.verdict = "none"]
    BY DEF Speaks
  <1>2. answer \in Answers /\ faults \in Nat
    BY ConstantsAssumption DEF Shape, TypeCore, Answers
  <1>3. made' = made \cup {c}
    BY <1>1 DEF _run_agent, _run_compound, complete_with_fallback, Answered
  <1>4. /\ answer'.by = c /\ answer'.blank = FALSE /\ answer'.saw = seen
        /\ answer'.verdict = "none" /\ answer'.blocked = answer.blocked
    BY <1>1, <1>2, AnswerFields
  <1>5. seen = prompt \/ (seen = {} /\ faults' > 0 /\ agent # "COMPOUND_DEEP")
    BY <1>1, <1>2 DEF _run_agent, _run_compound, complete_with_fallback, Fails, _truncate_messages
  <1> QED
    BY <1>3, <1>4, <1>5

\* Failures are only counted up.
LEMMA FaultsGrow ==
  ASSUME Shape, [Next]_vars
  PROVE  faults \in Nat /\ faults' \in Nat /\ faults' >= faults
  <1>0. faults \in Nat
    BY ConstantsAssumption DEF Shape, TypeCore
  <1> SUFFICES faults' = faults \/ faults' = faults + 1
    BY <1>0
  <1> USE DEF calls, NoCall, Answered, Unanswered, AnsweredLate, Works, Fails
  <1>1. CASE MediaNext
    <2>1. CASE TextMessage \/ handle_vision_attachment \/ AttachmentBytes \/ AttachmentUrl
               \/ _get_file_url \/ _download_image \/ ClassifyCaption \/ Seen
      BY <2>1 DEF TextMessage, handle_vision_attachment, AttachmentBytes, AttachmentUrl,
                  _get_file_url, _download_image, ClassifyCaption, Seen, NotDownloaded,
                  _download_image_via_worker, download_telegram_voice
    <2>2. CASE _handle_vision_core \/ DescribeGroup
      BY <2>2 DEF _handle_vision_core, DescribeGroup, _call_groq_vision
    <2>3. CASE handle_vision_group \/ LoadGroup \/ is_silent \/ transcribe \/ Unheard
      BY <2>3 DEF handle_vision_group, LoadGroup, is_silent, transcribe, Unheard
    <2> QED
      BY <1>1, <2>1, <2>2, <2>3 DEF MediaNext
  <1>2. CASE GroundingNext
    <2>1. CASE check_pass1 \/ preprocess \/ PromptGuard \/ Safeguard
      BY <2>1 DEF check_pass1, preprocess, PromptGuard, Safeguard, _classify_with_model
    <2>2. CASE _load_history \/ embed \/ SearchMemories \/ rerank
      BY <2>2 DEF _load_history, embed, SearchMemories, rerank
    <2>3. CASE ClassifyIntent \/ _fetch_external_grounding \/ Gates \/ Admit
      BY <2>3 DEF ClassifyIntent, _fetch_external_grounding, Gates, Admit
    <2>4. CASE transform \/ shape
      BY <2>4 DEF transform, shape, _semantic_summarize
    <2> QED
      BY <1>2, <2>1, <2>2, <2>3, <2>4 DEF GroundingNext, check_pass2, retrieve
  <1>3. CASE AgentsNext
    <2> USE DEF Speaks, _run_agent, _run_compound, complete_with_fallback, Wordless
    <2>1. CASE RunPrimary \/ RunValidators
      BY <2>1 DEF RunPrimary, RunValidators
    <2>2. CASE Judge \/ Revise
      BY <2>2 DEF Judge, Revise, _llm_judge
    <2>3. CASE RunFallback
      BY <2>3 DEF RunFallback
    <2> QED
      BY <1>3, <2>1, <2>2, <2>3 DEF AgentsNext
  <1>4. CASE ExecutionNext
    BY <1>4 DEF ExecutionNext, Blocked, Unblocked, check_async_lite, _llm_judge_lite, Synthesize,
                SaveAndWire, _save_history, VisionFastPath
  <1>5. CASE TailNext
    BY <1>5 DEF TailNext, Returned, _synthesize_chunk, synthesize, WireSpeech, Bill, Reply,
                AlbumReply
  <1>6. CASE UNCHANGED vars
    BY <1>6 DEF vars
  <1> QED
    BY <1>1, <1>2, <1>3, <1>4, <1>5, <1>6 DEF Next, TailNext, Ended

\* What the coordinator holds follows from the agents it asked.
LEMMA JudgedStep ==
  ASSUME Shape, Judged, [Next]_vars
  PROVE  Judged'
  <1>0. answer \in Answers /\ faults \in Nat /\ faults' \in Nat /\ faults' >= faults
    BY FaultsGrow DEF Shape, Answers
  <1>1. CASE MediaNext \/ GroundingNext
    <2>1. made \subseteq made' /\ made' \subseteq made \cup MediaCalls \cup GroundingCalls /\ answer' = answer
      BY <1>1, MadeFrame, MediaFrame, GroundingFrame DEF Charges
    <2>2. pc \in BeforeAgents /\ pc \in BeforePaths
      BY <1>1, MediaFrame, GroundingFrame DEF BeforeAgents, BeforePaths
    <2>3. "fallback" \notin made'
      BY <2>1, <2>2 DEF Judged, MediaCalls, GroundingCalls
    <2>4. answer' = NoAnswer
      BY <2>1, <2>2 DEF Judged
    <2>5. pc' \notin {"validators", "judge", "revise", "fallback", "lite", "synthesize"}
      BY <1>1, MediaFrame, GroundingFrame DEF MediaStages, GateStages, ContextStages, InputStages,
                                              AllKinds
    <2> QED
      BY <2>3, <2>4, <2>5 DEF Judged, NoAnswer
  <1>2. CASE RunPrimary
    <2>1. pc = "primary" /\ answer = NoAnswer /\ "fallback" \notin made
      BY <1>2 DEF RunPrimary, Judged, BeforeAgents, BeforePaths
    <2>2. pc' \in {"validators", "judge", "fallback"}
      BY <1>2 DEF RunPrimary, Goto
    <2>3. "fallback" \notin made' /\ answer'.verdict = "none"
          /\ \/ answer' = answer /\ pc' # "judge"
             \/ answer'.by = "primary" /\ ~answer'.blank /\ pc' # "fallback"
      <3>1. CASE Speaks("primary", Plan.primary) /\ Goto(IF Plan.consensus THEN "validators" ELSE "judge")
        BY <2>1, <3>1, SpeaksStep DEF NoAnswer, Goto
      <3>2. CASE /\ Wordless("primary") /\ UNCHANGED answer
                 /\ Goto(IF Plan.consensus THEN "validators" ELSE "fallback")
        BY <2>1, <3>2 DEF NoAnswer, Wordless, Answered, Unanswered, Goto
      <3> QED
        BY <1>2, <3>1, <3>2 DEF RunPrimary
    <2> QED
      BY <2>1, <2>2, <2>3 DEF Judged, NoAnswer, BeforeAgents, BeforePaths, MediaStages, GateStages,
                              ContextStages, InputStages, AllKinds
  <1>3. CASE RunValidators
    <2>1. /\ pc = "validators" /\ answer' = answer
          /\ pc' = "judge" \/ (pc' = "save" /\ answer.blank)
          /\ made \subseteq made' /\ made' \subseteq made \cup {"validator"}
      BY <1>3 DEF RunValidators, Wordless, Answered, Unanswered, Goto, PipelineDenies
    <2> QED
      BY <1>0, <2>1 DEF Judged, BeforeAgents, BeforePaths, AgentStages, MediaStages, GateStages,
                  ContextStages, InputStages, AllKinds
  <1>4. CASE Judge
    <2>1. PICK v \in {"ALLOW", "REVISE", "BLOCK", "UNAVAILABLE"} :
            /\ _llm_judge(v)
            /\ answer' = [answer EXCEPT !.verdict = v,
                                        !.blocked = IF v = "BLOCK" THEN "safety_block" ELSE "no"]
            /\ Goto(IF v = "REVISE" THEN "revise" ELSE "coordinated")
      BY <1>4 DEF Judge, IsBlock
    <2>2. /\ answer'.by = answer.by /\ answer'.blank = answer.blank /\ answer'.verdict = v
          /\ answer'.blocked = (IF v = "BLOCK" THEN "safety_block" ELSE "no")
      BY <1>0, <2>1, AnswerFields
    <2>3. pc = "judge" /\ made \subseteq made' /\ made' \subseteq made \cup {"judge"}
      BY <1>4, <2>1 DEF Judge, _llm_judge, Answered, Unanswered
    <2>4. "fallback" \notin made' /\ answer.by \in {"none", "primary"}
      BY <2>3 DEF Judged, BeforePaths, AgentStages
    <2> QED
      BY <2>1, <2>2, <2>3, <2>4 DEF Goto, Judged, BeforeAgents, BeforePaths, AgentStages,
                                    MediaStages, GateStages,
                  ContextStages, InputStages, AllKinds
  <1>5. CASE Revise
    <2>1. /\ pc = "revise" /\ pc' = "coordinated" /\ "fallback" \notin made
          /\ answer.verdict = "REVISE" /\ answer.by \in {"none", "primary"}
      BY <1>5 DEF Revise, Goto, Judged, BeforePaths, AgentStages
    <2>2. "fallback" \notin made' /\ made \subseteq made'
          /\ \/ answer' = answer /\ (faults' > 0 \/ "revision" \in made')
             \/ /\ answer'.by = "revision" /\ ~answer'.blank /\ "revision" \in made'
                /\ answer'.verdict = "none"
      <3>1. CASE Speaks("revision", Plan.primary)
        BY <2>1, <3>1, SpeaksStep
      <3>2. CASE Wordless("revision") /\ UNCHANGED answer
        BY <1>0, <2>1, <3>2 DEF Wordless, Answered, Unanswered, Fails
      <3> QED
        BY <1>5, <3>1, <3>2 DEF Revise
    <2> QED
      BY <2>1, <2>2 DEF Judged, BeforeAgents, BeforePaths, AgentStages, MediaStages, GateStages,
                  ContextStages, InputStages, AllKinds
  <1>6. CASE RunFallback
    <2>1. /\ pc = "fallback" /\ pc' = "coordinated" /\ answer.verdict = "none"
          /\ answer.by = "none" /\ answer.blank
      BY <1>6 DEF RunFallback, Goto, Judged
    <2>2. /\ answer'.verdict = "none"
          /\ \/ answer'.by = "fallback" /\ ~answer'.blank
             \/ answer'.by = "rule" /\ ~answer'.blank
             \/ answer'.by = "none" /\ answer'.blank /\ answer'.blocked = "no_response"
      <3>1. CASE Speaks("fallback", Plan.fallback)
        BY <2>1, <3>1, SpeaksStep
      <3>2. CASE AllFailed
        BY <1>0, <2>1, <3>2, AnswerFields DEF AllFailed
      <3> QED
        BY <1>6, <3>1, <3>2 DEF RunFallback
    <2> QED
      BY <2>1, <2>2 DEF Judged, BeforeAgents, BeforePaths, AgentStages, MediaStages, GateStages,
                  ContextStages, InputStages, AllKinds
  <1>7. CASE ExecutionNext
    <2>1. made \subseteq made' /\ made' \subseteq made \cup {"lite"} /\ UNCHANGED profile
      BY <1>7, MadeFrame, ExecutionFrame DEF Charges
    <2>2. /\ pc' \in {"lite", "synthesize", "save", "returned"}
          /\ pc' \notin BeforeAgents /\ pc' \notin BeforePaths
          /\ pc' \notin {"primary", "validators", "judge", "fallback", "revise"}
      BY <1>7, ExecutionFrame DEF BeforeAgents, BeforePaths, AgentStages, MediaStages, GateStages,
                  ContextStages, InputStages, AllKinds
    <2>3. CASE check_async_lite
      <3>1. PICK v \in {"ALLOW", "BLOCK", "UNAVAILABLE"} :
              /\ answer' = [answer EXCEPT !.verdict = v]
              /\ IF v = "BLOCK" THEN pc' = "save" ELSE pc' = "synthesize"
        BY <2>3 DEF check_async_lite, IsBlock, Goto, PipelineDenies
      <3>2. /\ answer'.by = answer.by /\ answer'.blank = answer.blank
            /\ answer'.verdict = v /\ answer'.blocked = answer.blocked
        BY <1>0, <3>1, AnswerFields
      <3>3. pc = "lite" /\ pc \notin {"validators", "judge"} /\ answer.blocked = "no"
        BY <2>3 DEF check_async_lite, Judged
      <3>4. pc' = "save" => pc' \notin BeforeSave
        BY <2>2 DEF BeforeSave, PathStages
      <3> QED
        BY <2>1, <2>2, <3>1, <3>2, <3>3, <3>4 DEF Judged
    <2>4. CASE answer' = answer
      <3>1. /\ pc \notin {"validators", "judge", "revise"}
            /\ pc \notin BeforeSave => pc' \notin BeforeSave
        BY <1>7, <2>2, ExecutionFrame DEF BeforeSave, PathStages, ExecutionNext, SaveAndWire, Goto,
                  Blocked, Unblocked, check_async_lite, Synthesize, VisionFastPath,
                  BeforePaths, BeforeAgents, MediaStages
      <3>2. CASE Unblocked
        BY <1>0, <2>1, <2>2, <2>4, <3>1, <3>2 DEF Unblocked, Goto, Judged
      <3>3. CASE Blocked \/ Synthesize \/ SaveAndWire \/ VisionFastPath
        <4>1. pc' \in {"save", "returned"}
          BY <3>3 DEF Blocked, Synthesize, SaveAndWire, VisionFastPath, Goto, PipelineDenies,
                      _clarify_result, ReturnDenied
        <4> QED
          BY <1>0, <2>1, <2>2, <2>4, <3>1, <4>1 DEF Judged
      <3> QED
        BY <1>7, <2>3, <3>2, <3>3 DEF ExecutionNext
    <2> QED
      BY <1>7, <2>3, <2>4, ExecutionFrame
  <1>8. CASE TailNext
    <2>1. made \subseteq made' /\ made' \subseteq made \cup {"tts"} /\ UNCHANGED <<answer, profile>>
          /\ pc \in TailStages /\ pc' \in TailStages \cup {"done"}
      BY <1>8, MadeFrame, TailFrame DEF Charges
    <2>2. pc' \notin BeforeSave
      BY <2>1 DEF BeforeSave, BeforeAgents, BeforePaths, AgentStages, PathStages, MediaStages,
                  GateStages, ContextStages, InputStages, AllKinds, TailStages
    <2> QED
      BY <1>0, <2>1, <2>2 DEF Judged, BeforeSave, BeforeAgents, BeforePaths, AgentStages,
                  PathStages, TailStages
  <1>9. CASE UNCHANGED vars
    BY <1>9 DEF vars, calls, work, Judged
  <1> QED
    BY <1>1, <1>2, <1>3, <1>4, <1>5, <1>6, <1>7, <1>8, <1>9 DEF Next, AgentsNext, TailNext, Ended

\* What is sent before the reply is sent at the end of an album.
LEMMA MediaSent ==
  ASSUME MediaNext
  PROVE  (pc' = "done" /\ sent' = sent \cup {"notice"}) \/ (pc' # "done" /\ sent' = sent)
  <1> USE DEF back, Goto, ReturnDenied, StartPipeline, Unseen, Raised
  <1>1. CASE TextMessage \/ handle_vision_attachment \/ AttachmentBytes \/ AttachmentUrl
             \/ _get_file_url \/ _download_image \/ ClassifyCaption \/ Seen
    BY <1>1 DEF TextMessage, handle_vision_attachment, AttachmentBytes, AttachmentUrl,
                _get_file_url, _download_image, ClassifyCaption, Seen, NotDownloaded,
                download_telegram_voice, _download_image_via_worker
  <1>2. CASE _handle_vision_core \/ DescribeGroup \/ handle_vision_group \/ LoadGroup
    BY <1>2 DEF _handle_vision_core, DescribeGroup, handle_vision_group, LoadGroup
  <1>3. CASE is_silent \/ transcribe \/ Unheard
    BY <1>3 DEF is_silent, transcribe, Unheard
  <1> QED
    BY <1>1, <1>2, <1>3 DEF MediaNext

\* The end of handle_message and process_update changes two sums of the result.
LEMMA TailResult ==
  ASSUME Shape, TailNext
  PROVE  /\ result'.state = result.state /\ result'.says = result.says /\ result'.reason = result.reason
         /\ \A s \in Slots \ {"tts", "asr"} : result'.slots[s] = result.slots[s]
         /\ \/ result'.slots["tts"] = result.slots["tts"]
            \/ pc = "tts" /\ IsSpoken /\ tries > 0 /\ result'.slots["tts"] = {"tts"}
         /\ \/ result'.slots["asr"] = result.slots["asr"]
            \/ pc = "wire" /\ result'.slots["asr"] \in SecondsKnown
         /\ pc = "wire" => result'.slots["asr"] \in SecondsKnown
  <1>0. result \in Results /\ "tts" \in Slots /\ "asr" \in Slots
    BY DEF Shape, Slots
  <1>1. CASE synthesize
    <2>1. pc = "tts" /\ (\/ result' = result
                         \/ IsSpoken /\ tries > 0 /\ result' = [result EXCEPT !.slots["tts"] = {"tts"}])
      BY <1>1, Zenon DEF synthesize
    <2>2. {"tts"} \in SUBSET Calls
      BY DEF Calls
    <2>3. CASE result' = result
      BY <2>1, <2>3
    <2>4. CASE IsSpoken /\ tries > 0 /\ result' = [result EXCEPT !.slots["tts"] = {"tts"}]
      <3>1. /\ result'.slots["tts"] = {"tts"}
            /\ \A t \in Slots \ {"tts"} : result'.slots[t] = result.slots[t]
            /\ result'.state = result.state /\ result'.says = result.says
            /\ result'.reason = result.reason
        <4>1. result' = WithSlot(result, "tts", {"tts"})
          BY <2>4, Zenon DEF WithSlot
        <4> QED
          BY <1>0, <2>2, <4>1, SlotChanged
      <3> QED
        BY <1>0, <2>1, <2>4, <3>1
    <2> QED
      BY <2>1, <2>3, <2>4
  <1>2. CASE WireSpeech
    <2>1. PICK seconds \in SecondsKnown : result' = [result EXCEPT !.slots["asr"] = seconds]
      BY <1>2, Zenon DEF WireSpeech
    <2>2. seconds \in SUBSET Calls
      BY DEF SecondsKnown, Calls
    <2>3. /\ result'.slots["asr"] = seconds
          /\ \A t \in Slots \ {"asr"} : result'.slots[t] = result.slots[t]
          /\ result'.state = result.state /\ result'.says = result.says
          /\ result'.reason = result.reason
      <3>1. result' = WithSlot(result, "asr", seconds)
        BY <2>1, Zenon DEF WithSlot
      <3> QED
        BY <1>0, <2>2, <3>1, SlotChanged
    <2>4. pc = "wire"
      BY <1>2 DEF WireSpeech
    <2> QED
      BY <1>0, <2>3, <2>4
  <1>3. CASE Returned \/ _synthesize_chunk \/ Bill \/ Reply \/ AlbumReply
    BY <1>3 DEF Returned, _synthesize_chunk, Bill, Reply, AlbumReply
  <1> QED
    BY <1>1, <1>2, <1>3 DEF TailNext

\* The end of run writes two sums of the result.
LEMMA SaveResult ==
  ASSUME Shape, SaveAndWire
  PROVE  /\ result'.state = result.state /\ result'.says = result.says /\ result'.reason = result.reason
         /\ \A s \in Slots \ {"safety", "multilingual"} : result'.slots[s] = result.slots[s]
         /\ result'.slots["safety"] = {"gate22", "gate86", "safeguard"} \cap InTime
         /\ result'.slots["multilingual"] = {"multilingual"} \cap InTime
  <1>0. result \in Results
    BY DEF Shape
  <1> DEFINE gate == {"gate22", "gate86", "safeguard"} \cap InTime
             normal == {"multilingual"} \cap InTime
             r == WithSlot(result, "safety", gate)
  <1>1. gate \in SUBSET Calls /\ normal \in SUBSET Calls /\ "safety" \in Slots /\ "multilingual" \in Slots
    BY DEF Calls, Slots
  <1>2. result' = WithSlot(r, "multilingual", normal)
    BY Zenon DEF SaveAndWire, WithSlot
  <1> HIDE DEF gate, normal
  <1>3. /\ r \in Results /\ r.slots["safety"] = gate
        /\ \A t \in Slots \ {"safety"} : r.slots[t] = result.slots[t]
        /\ r.state = result.state /\ r.says = result.says /\ r.reason = result.reason
    BY <1>0, <1>1, SlotChanged
  <1> HIDE DEF r
  <1>4. /\ result'.slots["multilingual"] = normal
        /\ \A t \in Slots \ {"multilingual"} : result'.slots[t] = r.slots[t]
        /\ result'.state = r.state /\ result'.says = r.says /\ result'.reason = r.reason
    BY <1>1, <1>2, <1>3, SlotChanged
  <1> QED
    BY <1>1, <1>3, <1>4 DEF gate, normal

\* Where the end of handle_message turns to.
LEMMA ReturnedStep ==
  ASSUME Returned
  PROVE  \/ pc' = "albumreply" /\ update.kind = "album"
         \/ pc' = "tts" /\ Spoken
         \/ pc' = "bill" /\ ~Spoken
  BY Zenon DEF Returned, Goto, Spoken

\* What a denial says and holds.
LEMMA DeniedFields ==
  ASSUME NEW reason, NEW says
  PROVE  /\ Denied(reason, says).state = "denied" /\ Denied(reason, says).says = says
         /\ Denied(reason, says).reason = reason /\ Denied(reason, says).slots = NoSlots
  BY DEF Denied

\* What an answer, or a question to the user, says and holds.
LEMMA RepliedFields ==
  ASSUME NEW says, NEW slots
  PROVE  /\ Replied(says, slots).state = "answered" /\ Replied(says, slots).says = says
         /\ Replied(says, slots).reason = "none" /\ Replied(says, slots).slots = slots
  BY DEF Replied

\* The stages up to the agents belong to a request that has no result.
LEMMA Stagewise ==
  /\ MediaNext \/ GroundingNext \/ AgentsNext => pc \in BeforePaths /\ pc \in BeforeSave
  /\ ExecutionNext /\ pc # "save" => pc \in BeforeSave
  /\ pc \in TailStages \cup {"save", "done"} => pc \notin BeforeSave
  <1>1. MediaNext \/ GroundingNext \/ AgentsNext => pc \in BeforePaths /\ pc \in BeforeSave
    BY MediaFrame, GroundingFrame, AgentsFrame DEF BeforePaths, BeforeSave, BeforeAgents
  <1>2. ExecutionNext /\ pc # "save" => pc \in BeforeSave
    BY ExecutionFrame DEF BeforeSave, BeforePaths, BeforeAgents, MediaStages
  <1>3. pc \in TailStages \cup {"save", "done"} => pc \notin BeforeSave
    BY DEF BeforeSave, BeforePaths, BeforeAgents, MediaStages, GateStages, ContextStages,
           InputStages,
           AgentStages, PathStages, AllKinds, TailStages
  <1> QED
    BY <1>1, <1>2, <1>3

\* A result that an execution path makes is that of the coordination.
LEMMA SettledByPaths ==
  ASSUME Shape, Profiled, Judged, Heard, Settled, ExecutionNext
  PROVE  Settled'
  <1>0. /\ UNCHANGED <<update, tries, text, intent, profile, prompt, sent>>
        /\ pc \in PathStages \cup {"save", "fastpath"}
        /\ pc' \in {"lite", "synthesize", "save", "returned"}
    BY ExecutionFrame
  <1>1. sent = {} /\ sent' = {} /\ pc' # "done"
    BY <1>0 DEF Settled, PathStages
  <1>2. pc' \in {"lite", "synthesize"} <=> pc' \in BeforeSave
    BY <1>0 DEF BeforeSave, BeforePaths, BeforeAgents, MediaStages, GateStages, ContextStages,
                InputStages,
           AgentStages, PathStages, AllKinds
  <1>3. CASE pc # "save"
    <2>1. result = NoResult
      BY <1>0, <1>3, Stagewise DEF Settled, Unsettled, NoResult
    <2>2. CASE result' = result /\ pc' \in {"lite", "synthesize"}
      BY <1>0, <1>1, <2>1, <2>2 DEF Settled, Unsettled, NoResult, TailStages
    <2>3. CASE pc' \in {"save", "returned"}
               /\ \E reason : result' = Denied(reason, "notice")
      BY <1>0, <1>1, <1>2, <2>1, <2>3, DeniedFields DEF Settled, Unsettled
    <2>4. CASE /\ pc' \in {"save", "returned"}
               /\ \E slots : result' = Replied("notice", slots)
      BY <1>0, <1>1, <1>2, <2>1, <2>4, RepliedFields DEF Settled, Unsettled
    <2>5. CASE Blocked
      <3>1. pc = "coordinated" /\ pc' = "save"
            /\ \/ result' = Replied("notice", NoSlots)
               \/ result' = Denied(answer.blocked, "notice")
        BY <2>5 DEF Blocked, _clarify_result, PipelineDenies, Goto
      <3> QED
        BY <2>3, <2>4, <3>1
    <2>6. CASE Unblocked
      BY <2>2, <2>6 DEF Unblocked, Goto
    <2>7. CASE check_async_lite
      BY <2>2, <2>3, <2>7 DEF check_async_lite, PipelineDenies, Goto
    <2>8. CASE Synthesize
      <3>1. /\ pc = "synthesize" /\ pc' = "save" /\ UNCHANGED answer
        BY <2>8 DEF Synthesize, Goto
      <3>2. PICK says \in Sayings : \E slots : result' = Replied(says, slots)
        BY <2>8 DEF Synthesize
      <3>3. /\ says \in {"answer", "notice", "nothing"}
            /\ says = "answer" => ~answer.blank
        BY DEF Sayings, _strip_cot_artifacts, _strip_unwanted_code
      <3>4. /\ answer.blocked = "no" /\ answer.verdict # "BLOCK" /\ profile.decision # "DENY"
            /\ profile.decision = "DEGRADED_MODE" => answer.verdict # "none"
        BY <3>1 DEF Judged, Profiled, PathStages, BeforeSave
      <3> QED
        BY <1>0, <1>1, <1>2, <2>1, <3>1, <3>2, <3>3, <3>4, RepliedFields DEF Settled, Unsettled
    <2>9. CASE VisionFastPath
      <3>1. pc' = "returned" /\ \/ \E reason : result' = Denied(reason, "notice")
                                \/ \E slots : result' = Replied("notice", slots)
        BY <2>9 DEF VisionFastPath, ReturnDenied, Goto
      <3> QED
        BY <2>3, <2>4, <3>1
    <2> QED
      BY <1>3, <2>5, <2>6, <2>7, <2>8, <2>9 DEF ExecutionNext, SaveAndWire
  <1>4. CASE SaveAndWire
    <2>1. pc = "save" /\ pc' = "returned" /\ UNCHANGED answer
      BY <1>4 DEF SaveAndWire, Goto
    <2>2. result'.state = result.state /\ result'.says = result.says /\ result'.reason = result.reason
      BY <1>4, SaveResult
    <2>3. result.state # "none"
      BY <2>1 DEF Settled
    <2> QED
      BY <1>0, <1>1, <1>2, <2>1, <2>2, <2>3 DEF Settled, Unsettled
  <1> QED
    BY <1>3, <1>4 DEF ExecutionNext, Blocked, Unblocked, check_async_lite, Synthesize,
                      VisionFastPath

\* What an answer was found to be holds until the reply.
LEMMA SettledStep ==
  ASSUME Shape, Profiled, Judged, Heard, Settled, [Next]_vars
  PROVE  Settled'
  <1>1. CASE MediaNext
    <2>1. /\ result = NoResult
          /\ sent = {} /\ pc' \in MediaStages \cup {"gate1", "returned", "done"}
      BY <1>1, MediaFrame, Stagewise DEF Settled, Unsettled, NoResult, MediaStages, AllKinds
    <2>2. pc' \notin {"save"} \cup TailStages \/ pc' = "returned"
      BY <2>1 DEF MediaStages, AllKinds, TailStages
    <2>3. CASE result' = result /\ pc' # "returned"
      BY <1>1, <2>1, <2>2, <2>3, MediaSent DEF Settled, Unsettled, NoResult
    <2>4. CASE /\ pc' = "returned"
               /\ \/ result' = Denied("empty_message", "nothing") /\ pc = "unheard"
                  \/ \E reason \in {"vision_error", "vad_silence", "asr_failed"} :
                       result' = Denied(reason, "notice")
      <3>1. pc = "unheard" => update.kind = "voice"
        BY DEF Heard
      <3>2. pc' \notin BeforeSave
        BY <2>4 DEF BeforeSave, BeforePaths, BeforeAgents, MediaStages, GateStages, ContextStages,
           InputStages, AgentStages, PathStages, AllKinds
      <3>3. sent' = {} /\ update' = update
        BY <1>1, <2>1, <2>4, MediaSent, MediaFrame
      <3> QED
        BY <2>1, <2>4, <3>1, <3>2, <3>3, DeniedFields DEF Settled, Unsettled
    <2> QED
      BY <1>1, <2>3, <2>4, ResultFrame
  <1>2. CASE GroundingNext \/ AgentsNext
    <2>1. /\ result = NoResult /\ sent = {} /\ sent' = sent
      BY <1>2, GroundingFrame, AgentsFrame, Stagewise DEF Settled, Unsettled, NoResult,
                                                          GateStages, ContextStages,
         InputStages, AgentStages
    <2>3. pc' \notin TailStages \cup {"done"} /\ (pc' \in BeforeSave => pc' # "save")
      BY <1>2, GroundingFrame, AgentsFrame DEF GateStages, ContextStages, InputStages,
                                               AgentStages, TailStages,
         BeforeSave, BeforePaths, BeforeAgents, MediaStages, PathStages, AllKinds
    <2>2. CASE result' = result /\ pc' # "save"
      BY <2>1, <2>2, <2>3 DEF Settled, Unsettled, NoResult
    <2>4. CASE pc' = "save" /\ \E reason : result' = Denied(reason, "notice")
      BY <2>1, <2>3, <2>4, DeniedFields DEF Settled, Unsettled
    <2> QED
      BY <1>2, <2>2, <2>4, ResultFrame
  <1>3. CASE ExecutionNext
    BY <1>3, SettledByPaths
  <1>4. CASE TailNext
    <2>1. /\ UNCHANGED <<update, intent, profile, answer, history>>
          /\ pc \in TailStages /\ pc' \in TailStages \cup {"done"}
          /\ pc' # "done" => sent' = sent
      <3>1. pc \in {"reply", "albumreply"} => pc' = "done"
        BY <1>4 DEF TailNext, Returned, _synthesize_chunk, synthesize, WireSpeech, Bill, Reply,
                    AlbumReply, Goto
      <3> QED
        BY <1>4, <3>1, TailFrame
    <2>2. result'.state = result.state /\ result'.says = result.says /\ result'.reason = result.reason
      BY <1>4, TailResult
    <2>3. result.state # "none" /\ pc' \notin BeforeSave /\ pc # "done"
      BY <2>1, Stagewise DEF Settled, BeforeSave, BeforePaths, BeforeAgents, MediaStages,
                             GateStages, ContextStages,
         InputStages, AgentStages, PathStages, AllKinds, TailStages
    <2>4. pc' = "done" /\ sent' = {} => result.says = "nothing"
      <3>1. result.says \in {"answer", "notice", "nothing"} /\ sent = {}
        BY <2>3 DEF Shape, Results, Settled
      <3>2. CASE Reply
        BY <3>1, <3>2 DEF Reply, TextReply
      <3>3. CASE AlbumReply
        BY <3>1, <3>3 DEF AlbumReply
      <3>4. CASE Returned \/ _synthesize_chunk \/ synthesize \/ WireSpeech \/ Bill
        <4>1. CASE Returned
          BY <4>1, ReturnedStep
        <4>2. CASE _synthesize_chunk \/ synthesize \/ WireSpeech \/ Bill
          BY <4>2 DEF _synthesize_chunk, synthesize, WireSpeech, Bill, Goto
        <4> QED
          BY <3>4, <4>1, <4>2
      <3> QED
        BY <1>4, <3>2, <3>3, <3>4 DEF TailNext
    <2> QED
      BY <2>1, <2>2, <2>3, <2>4 DEF Settled, Unsettled
  <1>5. CASE UNCHANGED vars
    BY <1>5 DEF vars, given, calls, work, back, Settled, Unsettled
  <1> QED
    BY <1>1, <1>2, <1>3, <1>4, <1>5 DEF Next, TailNext, Ended

\* The steps of the media keep track of the text and of the attempts.
LEMMA MediaSteps ==
  ASSUME Heard, Counting, MediaNext
  PROVE  Heard' /\ Counting'
  <1> USE MediaFrame DEF Heard, Counting, Spoken, MediaStages, AllKinds, Goto, StartPipeline,
                         Unseen, Raised,
              ReturnDenied, given, calls, work, back, NoCall, RETRIES
  <1>1. CASE TextMessage
    BY <1>1 DEF TextMessage
  <1>2. CASE handle_vision_attachment
    BY <1>2 DEF handle_vision_attachment
  <1>3. CASE AttachmentBytes \/ AttachmentUrl
    BY <1>3 DEF AttachmentBytes, AttachmentUrl
  <1>4. CASE _get_file_url
    BY <1>4 DEF _get_file_url, NotDownloaded, download_telegram_voice, _download_image_via_worker
  <1>5. CASE _download_image
    BY <1>5 DEF _download_image, NotDownloaded, download_telegram_voice, _download_image_via_worker
  <1>6. CASE _handle_vision_core
    BY <1>6 DEF _handle_vision_core, Answered, Unanswered
  <1>7. CASE ClassifyCaption \/ Seen
    BY <1>7 DEF ClassifyCaption, Seen
  <1>8. CASE handle_vision_group \/ LoadGroup
    BY <1>8 DEF handle_vision_group, LoadGroup
  <1>9. CASE DescribeGroup
    BY <1>9 DEF DescribeGroup, _call_groq_vision, Answered, Unanswered, AnsweredLate
  <1>10. CASE is_silent \/ Unheard
    BY <1>10 DEF is_silent, Unheard
  <1>11. CASE transcribe
    BY <1>11, DeniedFields DEF transcribe, Answered, Unanswered
  <1> QED
    BY <1>1, <1>2, <1>3, <1>4, <1>5, <1>6, <1>7, <1>8, <1>9, <1>10, <1>11 DEF MediaNext

\* What was heard stays heard, and the attempts are counted from zero.
LEMMA HeardStep ==
  ASSUME Shape, Heard, Counting, Settled, [Next]_vars
  PROVE  Heard' /\ Counting'
  <1>1. CASE MediaNext
    BY <1>1, MediaSteps
  <1>2. CASE GroundingNext \/ AgentsNext \/ ExecutionNext
    <2>1. /\ UNCHANGED <<update, tries, text>>
          /\ "asr" \in made' <=> "asr" \in made
          /\ "tts" \in made' <=> "tts" \in made
      BY <1>2, GroundingFrame, AgentsFrame, ExecutionFrame, MadeFrame DEF Charges, GroundingCalls,
          AgentCalls
    <2>2. pc' \notin MediaStages \cup {"albumreply", "tts", "wire", "file"}
      BY <1>2, GroundingFrame, AgentsFrame, ExecutionFrame DEF MediaStages, AllKinds, GateStages,
                                                            ContextStages,
         InputStages, AgentStages, PathStages
    <2>3. pc \notin {"voice", "photo", "file", "tts"}
      BY <1>2, GroundingFrame, AgentsFrame, ExecutionFrame DEF GateStages, ContextStages,
         InputStages, AgentStages, PathStages
    <2>4. tries = 0
      BY <2>3 DEF Counting
    <2>5. "asr" \in made => Spoken \/ result'.state = "denied"
      <3>1. CASE pc = "save" /\ ExecutionNext
        <4>1. SaveAndWire
          BY <3>1 DEF ExecutionNext, Blocked, Unblocked, check_async_lite, Synthesize,
                      VisionFastPath
        <4> QED
          BY <4>1, SaveResult DEF Heard
      <3>2. CASE ~(pc = "save" /\ ExecutionNext)
        BY <1>2, <3>2, Stagewise DEF Heard, Settled, Unsettled, NoResult
      <3> QED
        BY <3>1, <3>2
    <2> QED
      BY <2>1, <2>2, <2>4, <2>5 DEF Heard, Counting, Spoken, MediaStages, AllKinds
  <1>3. CASE TailNext
    <2>1. /\ UNCHANGED <<update, text>> /\ result'.state = result.state
          /\ "asr" \in made' <=> "asr" \in made
          /\ pc' \in TailStages \cup {"done"}
      BY <1>3, TailFrame, TailResult, MadeFrame DEF Charges
    <2>2. pc' \notin MediaStages
      BY <2>1 DEF MediaStages, AllKinds, TailStages
    <2>3. /\ pc' = "albumreply" => update.kind = "album"
          /\ pc' \in {"tts", "wire"} => Spoken
      <3>1. CASE Returned
        BY <3>1, ReturnedStep
      <3>2. CASE ~Returned
        BY <1>3, <3>2 DEF TailNext, _synthesize_chunk, synthesize, WireSpeech, Bill, Reply,
                          AlbumReply, Goto, Heard
      <3> QED
        BY <3>1, <3>2
    <2>4. /\ pc' # "tts" => tries' = 0
          /\ pc' = "tts" /\ tries' > 0 => "tts" \in made'
      <3>1. CASE Returned \/ WireSpeech \/ Bill \/ Reply \/ AlbumReply
        <4>1. pc \in {"returned", "wire", "bill", "reply", "albumreply"} /\ tries' = tries
          BY <3>1 DEF Returned, WireSpeech, Bill, Reply, AlbumReply, given
        <4> QED
          BY <4>1 DEF Counting
      <3>2. CASE _synthesize_chunk \/ synthesize
        BY <3>2 DEF _synthesize_chunk, synthesize, Goto, Answered
      <3> QED
        BY <1>3, <3>1, <3>2 DEF TailNext
    <2> QED
      BY <2>1, <2>2, <2>3, <2>4 DEF Heard, Counting, Spoken, MediaStages, AllKinds
  <1>4. CASE UNCHANGED vars
    BY <1>4 DEF vars, given, calls, work, Heard, Counting, Spoken
  <1> QED
    BY <1>1, <1>2, <1>3, <1>4 DEF Next, TailNext, Ended

\* What the gates looked at stays what the agents are given, as far as the
\* HEAVY path carries it.
LEMMA CarriedStep ==
  ASSUME Shape, Profiled, Settled, Gated => prompt = Carried /\ HasContext, [Next]_vars
  PROVE  (Gated => prompt = Carried /\ HasContext)'
  <1>0. profile \in Profiles
    BY DEF Shape, Profiles
  <1> USE DEF Carried, Rebuilt, HasContext
  <1>1. CASE MediaNext
    <2>1. result.says = "nothing" /\ result'.says # "answer"
      BY <1>1, Stagewise, ResultFrame, DeniedFields DEF Settled, Unsettled, NoResult
    <2>2. pc' \notin {"epk"} \cup InputStages \cup AgentStages \cup PathStages
      BY <1>1, MediaFrame DEF MediaStages, AllKinds, InputStages, AgentStages, PathStages
    <2> QED
      BY <2>1, <2>2 DEF Gated
  <1>2. CASE GroundingNext
    <2>1. result'.says # "answer"
      BY <1>2, Stagewise, ResultFrame, DeniedFields DEF Settled, Unsettled, NoResult
    <2>2. CASE pc' \notin {"epk"} \cup InputStages \cup AgentStages \cup PathStages
      BY <2>1, <2>2 DEF Gated
    <2>3. CASE Gates
      <3>1. PICK clarify \in _needs_clarification :
              IF clarify THEN PipelineDenies("need_detail")
              ELSE IF _resolve_routing(intent).strict /\ prompt = {}
                     THEN PipelineDenies("no_grounding")
              ELSE Goto("epk") /\ UNCHANGED result
        BY <2>3 DEF Gates
      <3>2. intent = "RECALL" => clarify = (prompt = {})
        BY <3>1, Zenon DEF _needs_clarification
      <3>3. UNCHANGED <<prompt, intent>> /\ profile' = [profile EXCEPT !.context = prompt]
            /\ pc = "gates"
        BY <2>3 DEF Gates
      <3>4. /\ profile'.context = prompt /\ profile'.compressed = profile.compressed
            /\ profile'.shaped = profile.shaped
        BY <1>0, <3>3, ProfileFields
      <3>5. ~profile.compressed /\ profile.shaped = "no"
        BY <3>3 DEF Profiled, ContextStages
      <3>6. pc' = "epk" => (Strict(intent) \/ intent = "RECALL" => prompt # {})
        BY <3>1, <3>2 DEF PipelineDenies, Goto, _resolve_routing
      <3>7. pc' \in {"epk", "save"}
        BY <3>1 DEF PipelineDenies, Goto
      <3> QED
        BY <2>2, <3>3, <3>4, <3>5, <3>6, <3>7 DEF InputStages, AgentStages, PathStages
    <2>4. CASE Admit
      <3>1. /\ profile'.compressed = profile.compressed /\ profile'.shaped = profile.shaped
            /\ profile'.context = profile.context
            /\ UNCHANGED <<intent, prompt>> /\ pc = "epk"
        BY <2>4, AdmitStep DEF Admit
      <3> QED
        BY <3>1 DEF Gated
    <2>5. CASE transform \/ shape
      <3>1. /\ pc \in InputStages /\ intent' = intent
            /\ \/ UNCHANGED <<profile, prompt>>
               \/ profile' = [profile EXCEPT !.compressed = TRUE] /\ Rebuild
               \/ profile' = [profile EXCEPT !.shaped = "local"] /\ Rebuild
               \/ profile' = [profile EXCEPT !.shaped = "llm"] /\ Rebuild
        BY <2>5 DEF transform, shape, _semantic_summarize, Shaped, InputStages
      <3>2. prompt = Carried /\ HasContext
        BY <3>1 DEF Gated
      <3>3. CASE UNCHANGED <<profile, prompt>>
        BY <3>1, <3>2, <3>3
      <3>4. CASE prompt' = prompt \cap {"memory"} /\ profile'.context = profile.context
                 /\ (profile'.compressed \/ profile'.shaped # "no")
        BY <3>1, <3>2, <3>4
      <3>5. CASE profile' = [profile EXCEPT !.compressed = TRUE] /\ Rebuild
        BY <1>0, <3>4, <3>5, ProfileFields DEF Rebuild
      <3>6. CASE profile' = [profile EXCEPT !.shaped = "local"] /\ Rebuild
        <4>1. profile'.shaped = "local" /\ profile'.context = profile.context
          BY <1>0, <3>6, ProfileFields
        <4> QED
          BY <3>4, <3>6, <4>1 DEF Rebuild
      <3>7. CASE profile' = [profile EXCEPT !.shaped = "llm"] /\ Rebuild
        <4>1. profile'.shaped = "llm" /\ profile'.context = profile.context
          BY <1>0, <3>7, ProfileFields
        <4> QED
          BY <3>4, <3>7, <4>1 DEF Rebuild
      <3> QED
        BY <3>1, <3>3, <3>5, <3>6, <3>7
    <2>6. CASE check_pass1 \/ preprocess \/ PromptGuard \/ Safeguard \/ _load_history \/ retrieve
               \/ ClassifyIntent \/ _fetch_external_grounding
      <3>1. pc' \in {"multilingual", "gate2", "safeguard", "history", "embed", "search", "rerank", "intent",
                     "grounding", "gates"}
        BY <2>6 DEF check_pass1, preprocess, PromptGuard, Safeguard, _load_history, retrieve, embed,
                    SearchMemories, rerank, ClassifyIntent, _fetch_external_grounding, Goto
      <3> QED
        BY <2>2, <3>1 DEF InputStages, AgentStages, PathStages
    <2> QED
      BY <1>2, <2>3, <2>4, <2>5, <2>6 DEF GroundingNext, check_pass2
  <1>3. CASE AgentsNext \/ ExecutionNext
    <2>1. UNCHANGED <<intent, profile, prompt>>
      BY <1>3, AgentsFrame, ExecutionFrame
    <2>2. CASE pc \in AgentStages \cup PathStages
      BY <2>1, <2>2 DEF Gated
    <2>3. CASE VisionFastPath
      <3>1. result'.says = "notice" /\ pc' = "returned"
        BY <2>3, DeniedFields, RepliedFields DEF VisionFastPath, ReturnDenied, Goto
      <3> QED
        BY <3>1 DEF Gated, InputStages, AgentStages, PathStages
    <2>4. CASE SaveAndWire
      <3>1. result'.says = result.says /\ pc' = "returned"
        BY <2>4, SaveResult DEF SaveAndWire, Goto
      <3> QED
        BY <2>1, <3>1 DEF Gated, InputStages, AgentStages, PathStages
    <2> QED
      BY <1>3, <2>2, <2>3, <2>4, AgentsFrame DEF ExecutionNext, Blocked, Unblocked,
                                                 check_async_lite, Synthesize,
         PathStages
  <1>4. CASE TailNext
    <2>1. /\ UNCHANGED <<intent, profile, prompt>> /\ result'.says = result.says
          /\ pc' \in TailStages \cup {"done"}
      BY <1>4, TailFrame, TailResult
    <2> QED
      BY <2>1 DEF Gated, InputStages, AgentStages, PathStages, TailStages
  <1>5. CASE UNCHANGED vars
    BY <1>5 DEF vars, work, Gated
  <1> QED
    BY <1>1, <1>2, <1>3, <1>4, <1>5 DEF Next, TailNext, Ended

\* Whoever's text is held saw the prompt, or none of it.
LEMMA SawStep ==
  ASSUME Shape, Judged, answer.by \in {"primary", "revision", "fallback"} => SawPrompt,
         [Next]_vars
  PROVE  (answer.by \in {"primary", "revision", "fallback"} => SawPrompt)'
  <1>0. answer \in Answers /\ faults \in Nat /\ faults' \in Nat /\ faults' >= faults
    BY FaultsGrow DEF Shape, Answers
  <1> USE DEF SawPrompt, HasChain
  <1>1. CASE MediaNext \/ GroundingNext
    <2>1. answer' = answer /\ pc \in BeforeAgents
      BY <1>1, MediaFrame, GroundingFrame DEF BeforeAgents
    <2> QED
      BY <2>1 DEF Judged, NoAnswer
  <1>2. CASE UNCHANGED <<intent, profile, prompt>> /\ answer'.by = answer.by /\ answer'.saw = answer.saw
    <2>1. Plan' = Plan
      BY <1>2 DEF Plan
    <2> QED
      BY <1>0, <1>2, <2>1
  <1>3. CASE AgentsNext
    <2>1. UNCHANGED <<intent, profile, prompt>>
      BY <1>3, AgentsFrame
    <2>2. Plan' = Plan
      BY <2>1 DEF Plan
    <2>3. ASSUME NEW c, NEW agent, Speaks(c, agent),
                 \/ c \in {"primary", "revision"} /\ agent = Plan.primary
                 \/ c = "fallback"
          PROVE  (answer.by \in {"primary", "revision", "fallback"} => SawPrompt)'
      BY <2>1, <2>2, <2>3, SpeaksStep
    <2>4. CASE answer' = answer
      BY <1>2, <2>1, <2>4
    <2>5. CASE Judge
      <3>1. \E v, w : answer' = [answer EXCEPT !.verdict = v, !.blocked = w]
        BY <2>5 DEF Judge
      <3> QED
        BY <1>0, <1>2, <2>1, <3>1, AnswerFields
    <2>6. CASE AllFailed /\ pc = "fallback"
      <3>1. answer'.by \in {"none", "rule"}
        BY <1>0, <2>6, AnswerFields DEF AllFailed, Judged
      <3> QED
        BY <3>1
    <2>7. CASE RunPrimary \/ Revise
      BY <2>3, <2>4, <2>7 DEF RunPrimary, Revise
    <2>8. CASE RunFallback
      BY <2>3, <2>6, <2>8 DEF RunFallback
    <2>9. CASE RunValidators
      BY <2>4, <2>9 DEF RunValidators
    <2> QED
      BY <1>3, <2>5, <2>7, <2>8, <2>9 DEF AgentsNext
  <1>4. CASE ExecutionNext
    <2>1. UNCHANGED <<intent, profile, prompt>>
      BY <1>4, ExecutionFrame
    <2>2. answer'.by = answer.by /\ answer'.saw = answer.saw
      <3>1. CASE check_async_lite
        <4>1. \E v : answer' = [answer EXCEPT !.verdict = v]
          BY <3>1 DEF check_async_lite
        <4> QED
          BY <1>0, <4>1, AnswerFields
      <3> QED
        BY <1>4, <3>1, ExecutionFrame
    <2> QED
      BY <1>2, <2>1, <2>2
  <1>5. CASE TailNext
    BY <1>2, <1>5, TailFrame
  <1>6. CASE UNCHANGED vars
    BY <1>2, <1>6 DEF vars, work
  <1> QED
    BY <1>1, <1>3, <1>4, <1>5, <1>6 DEF Next, TailNext, Ended

\* A request that the gates let through rests on what they looked at.
LEMMA GroundedStep ==
  ASSUME Shape, Profiled, Judged, Settled, Grounded, [Next]_vars
  PROVE  Grounded'
  BY CarriedStep, SawStep DEF Grounded
-----------------------------------------------------------------------------
PrimaryByAgent ==
  /\ answer.by = "revision" => PrimaryMetrics = {"revision"}
  /\ answer.by = "fallback" => PrimaryMetrics = {"primary", "fallback"} \cap made
  /\ answer.by = "rule" => PrimaryMetrics = {}
  /\ answer.by \in {"primary", "none"} => PrimaryMetrics = {"primary"} \cap made

CostByPath ==
  /\ profile.decision = "ALLOW" => Cost = _run_allow
  /\ profile.decision = "DEGRADED_MODE" => Cost = _run_degraded
  /\ profile.decision = "HEAVY_REQUIRED" => Cost = _run_heavy

\* What the primary sum holds, agent by agent.
LEMMA PrimaryIs == PrimaryByAgent
  <1>1. answer.by = "revision" => PrimaryMetrics = {"revision"}
    BY Zenon DEF PrimaryMetrics
  <1>2. answer.by = "fallback" => PrimaryMetrics = {"primary", "fallback"} \cap made
    BY Zenon DEF PrimaryMetrics
  <1>3. answer.by = "rule" => PrimaryMetrics = {}
    BY Zenon DEF PrimaryMetrics
  <1>4. answer.by \in {"primary", "none"} => PrimaryMetrics = {"primary"} \cap made
    BY Zenon DEF PrimaryMetrics
  <1> QED
    BY <1>1, <1>2, <1>3, <1>4 DEF PrimaryByAgent

\* What the cost of each path holds.
LEMMA CostIs == CostByPath
  <1>1. profile.decision = "ALLOW" => Cost = _run_allow
    BY Zenon DEF Cost
  <1>2. profile.decision = "DEGRADED_MODE" => Cost = _run_degraded
    BY Zenon DEF Cost
  <1>3. profile.decision = "HEAVY_REQUIRED" => Cost = _run_heavy
    BY Zenon DEF Cost
  <1> QED
    BY <1>1, <1>2, <1>3 DEF CostByPath

\* The cost of a path holds what was used for it.
LEMMA CostUsed ==
  ASSUME Shape, Profiled, Judged, profile.decision # "DENY"
  PROVE  /\ \A c \in Cost :
              Used(c) /\ c \notin {"gate22", "gate86", "safeguard", "multilingual", "asr", "tts"}
         /\ "revision" \in Cost => answer.by = "revision"
  <1> DEFINE Fit(c) == Used(c) /\ c \notin {"gate22", "gate86", "safeguard", "multilingual", "asr", "tts"}
                       /\ (c = "revision" => answer.by = "revision")
  <1>0. /\ profile.decision \in {"ALLOW", "DEGRADED_MODE", "HEAVY_REQUIRED"}
        /\ answer.by \in {"none", "primary", "revision", "fallback", "rule"}
    BY DEF Shape, Decisions
  <1>1. \A c \in PrimaryMetrics : Fit(c)
    BY <1>0, PrimaryIs DEF PrimaryByAgent, Used, InTime, Profiled, Judged
  <1>2. \A c \in RetrievalMetrics : Fit(c)
    BY DEF RetrievalMetrics, Used, InTime, Profiled
  <1>3. \A c \in SafetyMetrics \cup ({"lite"} \cap made) : Fit(c)
    BY DEF SafetyMetrics, Used, InTime, Profiled
  <1>4. /\ \A c \in (IF profile.compressed THEN {"lc"} ELSE {}) : Fit(c)
        /\ \A c \in (IF profile.shaped = "llm" THEN {"shaper"} ELSE {}) : Fit(c)
    BY DEF Used, InTime, Profiled
  <1> HIDE DEF Fit
  <1>5. \A c \in Cost : Fit(c)
    <2>1. CASE profile.decision = "ALLOW"
      BY <2>1, <1>1, <1>2, <1>3, CostIs DEF CostByPath, _run_allow
    <2>2. CASE profile.decision = "DEGRADED_MODE"
      BY <2>2, <1>1, <1>2, <1>3, CostIs DEF CostByPath, _run_degraded
    <2>3. CASE profile.decision = "HEAVY_REQUIRED"
      BY <2>3, <1>1, <1>2, <1>3, <1>4, CostIs DEF CostByPath, _run_heavy
    <2> QED
      BY <1>0, <2>1, <2>2, <2>3
  <1> QED
    BY <1>5 DEF Fit

\* A result without sums holds nothing that was not used.
LEMMA NothingSlotted == \A r : r.slots = NoSlots => \A s \in Slots : r.slots[s] = {}
  BY DEF NoSlots

\* The sums hold nothing but what was used, each its own calls.
LEMMA SlottedStep ==
  ASSUME Shape, Heard, Counting, Profiled, Judged, Settled, Slotted, Profiled', [Next]_vars
  PROVE  Slotted'
  <1> USE DEF Slots
  <1>0. ASSUME result'.slots = NoSlots PROVE Slotted'
    BY <1>0, NothingSlotted DEF Slotted
  <1>1. CASE MediaNext \/ GroundingNext \/ AgentsNext
    <2>1. result = NoResult
      BY <1>1, Stagewise DEF Settled, Unsettled
    <2> QED
      BY <1>0, <1>1, <2>1, ResultFrame, DeniedFields DEF NoResult
  <1>2. CASE Blocked \/ Unblocked \/ check_async_lite
    <2>1. result = NoResult
      BY <1>2, Stagewise DEF Settled, Unsettled, ExecutionNext, Blocked, Unblocked, check_async_lite
    <2> QED
      BY <1>0, <1>2, <2>1, DeniedFields, RepliedFields DEF NoResult, Blocked, Unblocked,
                                                           check_async_lite, _clarify_result,
         PipelineDenies
  <1>3. CASE Synthesize
    <2>1. UNCHANGED <<made, late, profile, text, answer>> /\ profile.decision # "DENY"
      BY <1>3 DEF Synthesize, NoCall, calls, work, Profiled, PathStages
    <2> DEFINE sums == [NoSlots EXCEPT !["cost"] = Cost, !["revision"] = RevisionMetrics]
    <2>2. PICK says \in Sayings : result' = Replied(says, sums)
      BY <1>3 DEF Synthesize
    <2>3. /\ sums["cost"] = Cost /\ sums["revision"] = RevisionMetrics
          /\ sums["safety"] = {} /\ sums["multilingual"] = {} /\ sums["asr"] = {} /\ sums["tts"] = {}
      BY DEF NoSlots
    <2> HIDE DEF sums
    <2>4. result'.slots = sums
      BY <2>2, RepliedFields
    <2> QED
      BY <2>1, <2>3, <2>4, CostUsed DEF Slotted, RevisionMetrics, Used, InTime, Profiled
  <1>4. CASE SaveAndWire
    <2>1. UNCHANGED <<made, late, profile, text, answer>>
      BY <1>4 DEF SaveAndWire, work
    <2> QED
      BY <1>4, <2>1, SaveResult DEF Slotted, Used, InTime
  <1>5. CASE VisionFastPath
    <2>1. /\ UNCHANGED <<made, late, profile, text, answer>> /\ text = {"error"}
          /\ \/ \E reason : result' = Denied(reason, "notice")
             \/ result' = Replied("notice", [NoSlots EXCEPT !["cost"] = {"vision"}])
      BY <1>5 DEF VisionFastPath, NoCall, calls, work, Heard, ReturnDenied
    <2>2. CASE \E reason : result' = Denied(reason, "notice")
      BY <1>0, <2>2, DeniedFields
    <2>3. CASE result' = Replied("notice", [NoSlots EXCEPT !["cost"] = {"vision"}])
      <3>1. /\ result'.slots["cost"] = {"vision"}
            /\ \A s \in {"safety", "multilingual", "asr", "tts", "revision"} : result'.slots[s] = {}
        BY <2>3, RepliedFields DEF NoSlots
      <3> QED
        BY <2>1, <3>1 DEF Slotted, Used
    <2> QED
      BY <2>1, <2>2, <2>3
  <1>6. CASE TailNext
    <2>1. UNCHANGED <<late, profile, text, answer>> /\ made \subseteq made'
      BY <1>6, TailFrame, MadeFrame DEF Charges
    <2>2. InTime \subseteq InTime' /\ \A c : Used(c) => Used(c)'
      BY <2>1 DEF InTime, Used
    <2>3. \/ result'.slots["tts"] = result.slots["tts"]
          \/ result'.slots["tts"] = {"tts"} /\ "tts" \in InTime
      <3>1. pc = "tts" /\ tries > 0 => "tts" \in InTime
        BY DEF Counting, InTime, Profiled
      <3> QED
        BY <1>6, <3>1, TailResult
    <2>4. \/ result'.slots["asr"] = result.slots["asr"]
          \/ result'.slots["asr"] \subseteq {"asr"} /\ "asr" \in InTime
      <3>1. pc = "wire" => "asr" \in InTime
        BY DEF Heard, Spoken, InTime, Profiled
      <3> QED
        BY <1>6, <3>1, TailResult DEF SecondsKnown
    <2>5. \A s \in Slots \ {"tts", "asr"} : result'.slots[s] = result.slots[s]
      BY <1>6, TailResult
    <2> QED
      BY <2>1, <2>2, <2>3, <2>4, <2>5 DEF Slotted
  <1>7. CASE UNCHANGED vars
    BY <1>7 DEF vars, calls, work, Slotted, Used, InTime
  <1> QED
    BY <1>1, <1>2, <1>3, <1>4, <1>5, <1>6, <1>7 DEF Next, ExecutionNext, TailNext, Ended

\* The cost does not change with the speech.
LEMMA CostStays ==
  ASSUME Shape, profile.decision # "DENY", UNCHANGED <<profile, answer>>,
         made \subseteq made', made' \subseteq made \cup {"tts"}
  PROVE  Cost' = Cost /\ RevisionMetrics' = RevisionMetrics
  <1>0. /\ profile.decision \in {"ALLOW", "DEGRADED_MODE", "HEAVY_REQUIRED"}
        /\ answer.by \in {"none", "primary", "revision", "fallback", "rule"}
    BY DEF Shape, Decisions
  <1>1. /\ {"primary", "fallback"} \cap made' = {"primary", "fallback"} \cap made
        /\ {"primary"} \cap made' = {"primary"} \cap made
        /\ {"judge"} \cap made' = {"judge"} \cap made
        /\ {"lite"} \cap made' = {"lite"} \cap made
        /\ {"revision"} \cap made' = {"revision"} \cap made
    OBVIOUS
  <1>2. PrimaryMetrics' = PrimaryMetrics
    <2>1. PrimaryByAgent'
      BY PrimaryIs, PTL
    <2> QED
      BY <1>0, <1>1, <2>1, PrimaryIs DEF PrimaryByAgent
  <1>3. /\ _run_allow' = _run_allow /\ _run_degraded' = _run_degraded /\ _run_heavy' = _run_heavy
        /\ RevisionMetrics' = RevisionMetrics
    BY <1>1, <1>2 DEF _run_allow, _run_degraded, _run_heavy, RetrievalMetrics, SafetyMetrics,
                      RevisionMetrics
  <1>4. CostByPath'
    BY CostIs, PTL
  <1> QED
    BY <1>0, <1>3, <1>4, CostIs DEF CostByPath

\* An answer's sums hold all that was used for it.
LEMMA SummedStep ==
  ASSUME Shape, Heard, Profiled, Settled, Summed, [Next]_vars
  PROVE  Summed'
  <1> USE DEF Slots
  <1>1. CASE MediaNext \/ GroundingNext \/ AgentsNext
    <2>1. result'.says # "answer"
      BY <1>1, Stagewise, ResultFrame, DeniedFields DEF Settled, Unsettled, NoResult
    <2>2. pc' \in {"bill", "reply", "done"} => ~Spoken'
      <3>1. CASE LoadGroup
        BY <3>1 DEF LoadGroup, work, Heard, Spoken, MediaStages
      <3>2. CASE ~LoadGroup
        <4>1. pc' \notin {"bill", "reply", "done"}
          <5>1. CASE MediaNext
            BY <3>2, <5>1, MediaSteps, MediaFrame DEF MediaNext, TextMessage,
                                                      handle_vision_attachment,
               AttachmentBytes, AttachmentUrl, _get_file_url, _download_image, NotDownloaded,
               download_telegram_voice, _download_image_via_worker, _handle_vision_core,
               ClassifyCaption, Seen,
               handle_vision_group, DescribeGroup, is_silent, transcribe, Unheard, Goto,
               ReturnDenied,
               StartPipeline, Unseen, Raised
          <5>2. CASE GroundingNext \/ AgentsNext
            BY <5>2, GroundingFrame, AgentsFrame DEF GateStages, ContextStages, InputStages,
                                                     AgentStages
          <5> QED
            BY <1>1, <5>1, <5>2
        <4> QED
          BY <4>1
      <3> QED
        BY <3>1, <3>2
    <2> QED
      BY <2>1, <2>2 DEF Summed
  <1>2. CASE Blocked \/ Unblocked \/ check_async_lite \/ VisionFastPath
    <2>1. result = NoResult
      BY <1>2, Stagewise DEF Settled, Unsettled, ExecutionNext, Blocked, Unblocked,
                             check_async_lite, VisionFastPath
    <2>2. result'.says # "answer"
      BY <1>2, <2>1, DeniedFields, RepliedFields DEF NoResult, Blocked, Unblocked, check_async_lite,
         _clarify_result, PipelineDenies, VisionFastPath, ReturnDenied
    <2>3. pc' \notin {"bill", "reply", "done"}
      BY <1>2, ExecutionFrame DEF ExecutionNext
    <2> QED
      BY <2>2, <2>3 DEF Summed
  <1>3. CASE Synthesize
    <2>1. UNCHANGED <<made, late, profile, answer>> /\ pc' = "save"
      BY <1>3 DEF Synthesize, NoCall, calls, work, Goto
    <2> DEFINE sums == [NoSlots EXCEPT !["cost"] = Cost, !["revision"] = RevisionMetrics]
    <2>2. PICK says \in Sayings : result' = Replied(says, sums)
      BY <1>3 DEF Synthesize
    <2>3. /\ sums["cost"] = Cost /\ sums["revision"] = RevisionMetrics
      BY DEF NoSlots
    <2> HIDE DEF sums
    <2>6. result'.slots = sums
      BY <2>2, RepliedFields
    <2>4. profile.decision # "DENY"
      BY <1>3 DEF Synthesize, Profiled, PathStages
    <2>5. Cost' = Cost /\ RevisionMetrics' = RevisionMetrics
      BY <2>1, <2>4, CostStays
    <2> QED
      BY <2>1, <2>3, <2>5, <2>6 DEF Summed
  <1>4. CASE SaveAndWire
    <2>1. UNCHANGED <<made, late, profile, answer>> /\ pc' = "returned"
      BY <1>4 DEF SaveAndWire, work, Goto
    <2>2. result.says = "answer" => profile.decision # "DENY"
      BY DEF Settled
    <2>3. result.says = "answer" => Cost' = Cost /\ RevisionMetrics' = RevisionMetrics
      BY <2>1, <2>2, CostStays
    <2>4. /\ result'.says = result.says
          /\ result'.slots["cost"] = result.slots["cost"] /\ result'.slots["revision"] = result.slots["revision"]
          /\ result'.slots["safety"] = {"gate22", "gate86", "safeguard"} \cap InTime
          /\ result'.slots["multilingual"] = {"multilingual"} \cap InTime
      BY <1>4, SaveResult
    <2> QED
      BY <2>1, <2>3, <2>4 DEF Summed, InTime
  <1>5. CASE TailNext
    <2>1. /\ UNCHANGED <<update, late, profile, text, answer>>
          /\ made \subseteq made' /\ made' \subseteq made \cup {"tts"}
          /\ pc \in TailStages /\ pc' \in TailStages \cup {"done"}
      BY <1>5, TailFrame, MadeFrame DEF Charges
    <2>2. result.says = "answer" => Cost' = Cost /\ RevisionMetrics' = RevisionMetrics
      <3>1. result.says = "answer" => profile.decision # "DENY"
        BY DEF Settled
      <3> QED
        BY <2>1, <3>1, CostStays
    <2>3. /\ result'.says = result.says
          /\ result'.slots["cost"] = result.slots["cost"] /\ result'.slots["revision"] = result.slots["revision"]
          /\ result'.slots["safety"] = result.slots["safety"]
          /\ result'.slots["multilingual"] = result.slots["multilingual"]
      BY <1>5, TailResult
    <2>4. /\ {"gate22", "gate86", "safeguard"} \cap InTime' = {"gate22", "gate86", "safeguard"} \cap InTime
          /\ {"multilingual"} \cap InTime' = {"multilingual"} \cap InTime
      BY <2>1 DEF InTime
    <2>5. pc # "save" /\ pc' # "save"
      BY <2>1 DEF TailStages
    <2>6. pc' \in {"bill", "reply", "done"} /\ Spoken' /\ ~update'.attached
            => result'.slots["asr"] = {"asr"}
      <3>1. CASE Returned
        BY <2>1, <3>1, ReturnedStep DEF Returned, Goto, Spoken
      <3>2. CASE _synthesize_chunk \/ synthesize
        BY <3>2 DEF _synthesize_chunk, synthesize, Goto
      <3>3. CASE WireSpeech
        <4>1. pc = "wire"
          BY <3>3 DEF WireSpeech
        <4> QED
          BY <1>5, <2>1, <4>1, TailResult DEF SecondsKnown
      <3>4. CASE Bill \/ Reply
        BY <2>1, <3>4 DEF Bill, Reply, Summed, Spoken
      <3>5. CASE AlbumReply
        BY <2>1, <3>5 DEF AlbumReply, Heard, Spoken
      <3> QED
        BY <1>5, <3>1, <3>2, <3>3, <3>4, <3>5 DEF TailNext
    <2> QED
      BY <2>1, <2>2, <2>3, <2>4, <2>5, <2>6 DEF Summed
  <1>6. CASE UNCHANGED vars
    <2>1. UNCHANGED <<pc, update, text, result, made, late, profile, answer>>
      BY <1>6 DEF vars, given, calls, work
    <2>2. result.says = "answer" => Cost' = Cost /\ RevisionMetrics' = RevisionMetrics
      <3>1. result.says = "answer" => profile.decision # "DENY"
        BY DEF Settled
      <3> QED
        BY <2>1, <3>1, CostStays
    <2> QED
      BY <2>1, <2>2 DEF Summed, InTime, Spoken
  <1> QED
    BY <1>1, <1>2, <1>3, <1>4, <1>5, <1>6 DEF Next, ExecutionNext, TailNext, Ended
-----------------------------------------------------------------------------
SumsWith(c) == {s \in Sums : c \in result.slots[s]}

\* A call stands in one sum, or in the primary sum and in that of revisions.
LEMMA SumsOfCall ==
  ASSUME Slotted, NEW c \in Calls
  PROVE  /\ \E s \in Slots :
              SumsWith(c) \subseteq {s, "revision"} /\ (c # "revision" => SumsWith(c) \subseteq {s})
         /\ c = "revision" /\ answer.by # "revision" => SumsWith(c) \subseteq {"revision"}
         /\ SumsWith(c) # {} => Used(c)
  <1>1. \A s \in SumsWith(c) : /\ c \in result.slots[s]
                               /\ s \in {"cost", "safety", "multilingual", "asr", "tts", "revision"}
    BY DEF SumsWith, Sums, Slots
  <1> HIDE DEF SumsWith
  <1>2. SumsWith(c) # {} => Used(c)
    BY <1>1 DEF Slotted, Used
  <1>3. c = "revision" => SumsWith(c) \subseteq {"cost", "revision"}
    BY <1>1 DEF Slotted
  <1>4. c = "revision" /\ answer.by # "revision" => SumsWith(c) \subseteq {"revision"}
    BY <1>1 DEF Slotted
  <1>5. c \in {"gate22", "gate86", "safeguard"} => SumsWith(c) \subseteq {"safety"}
    BY <1>1 DEF Slotted
  <1>6. c = "multilingual" => SumsWith(c) \subseteq {"multilingual"}
    BY <1>1 DEF Slotted
  <1>7. c = "asr" => SumsWith(c) \subseteq {"asr"}
    BY <1>1 DEF Slotted
  <1>8. c = "tts" => SumsWith(c) \subseteq {"tts"}
    BY <1>1 DEF Slotted
  <1>9. c \notin {"gate22", "gate86", "safeguard", "multilingual", "asr", "tts", "revision"}
          => SumsWith(c) \subseteq {"cost"}
    BY <1>1 DEF Slotted
  <1> QED
    BY <1>2, <1>3, <1>4, <1>5, <1>6, <1>7, <1>8, <1>9 DEF Slots

\* How often a call is billed.
LEMMA ChargedCount ==
  ASSUME Slotted, NEW c \in Calls
  PROVE  /\ Charged[c] \in 0 .. 2
         /\ Charged[c] > 1 => c = "revision" /\ answer.by = "revision"
         /\ Charged[c] > 0 <=> SumsWith(c) # {}
  <1> DEFINE S == SumsWith(c)
  <1>1. Charged[c] = Cardinality(S)
    BY DEF Charged, SumsWith
  <1>2. PICK s \in Slots : S \subseteq {s, "revision"} /\ (c # "revision" => S \subseteq {s})
    BY SumsOfCall
  <1>3. c = "revision" /\ answer.by # "revision" => S \subseteq {"revision"}
    BY SumsOfCall
  <1> HIDE DEF S
  <1>4. \A x : IsFiniteSet({x}) /\ Cardinality({x}) = 1
    BY FS_Singleton
  <1>5. IsFiniteSet({s, "revision"}) /\ Cardinality({s, "revision"}) \in {1, 2}
    <2>1. {s, "revision"} = {s} \cup {"revision"}
      OBVIOUS
    <2>2. IsFiniteSet({s} \cup {"revision"}) /\ Cardinality({s} \cup {"revision"}) \in {1, 2}
      <3> DEFINE one == {s}
      <3>1. IsFiniteSet(one) /\ Cardinality(one) = 1
        BY <1>4
      <3> HIDE DEF one
      <3>2. /\ IsFiniteSet(one \cup {"revision"})
            /\ Cardinality(one \cup {"revision"})
                 = IF "revision" \in one THEN Cardinality(one) ELSE Cardinality(one) + 1
        BY <3>1, FS_AddElement
      <3> QED
        BY <3>1, <3>2 DEF one
    <2> QED
      BY <2>1, <2>2
  <1>6. IsFiniteSet(S) /\ Cardinality(S) \in Nat /\ Cardinality(S) <= 2
    <2>1. IsFiniteSet(S) /\ Cardinality(S) <= Cardinality({s, "revision"})
      BY <1>2, <1>5, FS_Subset
    <2>2. Cardinality(S) \in Nat
      BY <2>1, FS_CardinalityType
    <2> QED
      BY <1>5, <2>1, <2>2
  <1>7. \A x : S \subseteq {x} => Cardinality(S) <= 1
    <2> SUFFICES ASSUME NEW x, S \subseteq {x} PROVE Cardinality(S) <= 1
      OBVIOUS
    <2> DEFINE one == {x}
    <2>1. IsFiniteSet(one) /\ Cardinality(one) = 1 /\ S \subseteq one
      BY <1>4
    <2> HIDE DEF one
    <2>2. Cardinality(S) <= Cardinality(one)
      BY <2>1, FS_Subset
    <2> QED
      BY <2>1, <2>2
  <1>8. Cardinality(S) = 0 <=> S = {}
    BY <1>6, FS_EmptySet
  <1>9. c # "revision" \/ answer.by # "revision" => Cardinality(S) <= 1
    BY <1>2, <1>3, <1>7
  <1> QED
    BY <1>1, <1>6, <1>8, <1>9 DEF S

\* The charge depends on the result and the profile only.
LEMMA ChargedSame ==
  ASSUME UNCHANGED <<result, profile>>
  PROVE  Charged' = Charged
  BY DEF Charged, Sums, DecisionOf, Slots

\* A request is billed once, for what its sums hold.
LEMMA BilledStep ==
  ASSUME Shape, Settled, Billed, [Next]_vars
  PROVE  Billed'
  <1>1. CASE MediaNext \/ GroundingNext \/ AgentsNext \/ ExecutionNext
    <2>1. pc \notin {"reply", "done"} /\ billed' = billed
      BY <1>1, MediaFrame, GroundingFrame, AgentsFrame, ExecutionFrame DEF MediaStages, AllKinds,
          GateStages,
         ContextStages, InputStages, AgentStages, PathStages
    <2>2. "voice" \notin sent'
      <3>1. sent = {}
        BY <2>1 DEF Settled
      <3>2. sent' \in {sent, sent \cup {"notice"}}
        BY <1>1, MediaSent, GroundingFrame, AgentsFrame, ExecutionFrame
      <3> QED
        BY <3>1, <3>2
    <2> QED
      BY <2>1, <2>2 DEF Billed, NothingBilled
  <1>2. CASE Returned \/ _synthesize_chunk \/ synthesize \/ WireSpeech
    <2>1. pc \notin {"reply", "done", "bill", "albumreply"} /\ billed' = billed /\ sent' = sent
      BY <1>2 DEF Returned, _synthesize_chunk, synthesize, WireSpeech, back
    <2> QED
      BY <2>1 DEF Billed, NothingBilled, Settled
  <1>3. CASE Bill
    <2>1. /\ pc = "bill" /\ pc' = "reply" /\ UNCHANGED <<result, profile, sent>>
          /\ billed' \in {billed, Charged}
      BY <1>3 DEF Bill, work, Goto
    <2>2. Charged' = Charged
      BY <2>1, ChargedSame
    <2> QED
      BY <2>1, <2>2 DEF Billed, NothingBilled, Settled
  <1>4. CASE Reply \/ AlbumReply
    <2>1. /\ UNCHANGED <<result, profile, billed>> /\ pc' = "done"
          /\ "voice" \in sent' => result.slots["tts"] # {}
      BY <1>4 DEF Reply, AlbumReply, TextReply, work, Goto, Shape, Results
    <2>2. Charged' = Charged
      BY <2>1, ChargedSame
    <2> QED
      BY <2>1, <2>2 DEF Billed, NothingBilled
  <1>5. CASE UNCHANGED vars
    <2>1. UNCHANGED <<pc, result, profile, billed, sent>>
      BY <1>5 DEF vars, work, back
    <2> QED
      BY <2>1, ChargedSame DEF Billed, NothingBilled
  <1> QED
    BY <1>1, <1>2, <1>3, <1>4, <1>5 DEF Next, Ended
-----------------------------------------------------------------------------
\* The inductive invariant: a request is what the stages it passed made of it.
RInv == /\ Shape /\ Heard /\ Counting /\ Profiled /\ Degraded /\ Grounded /\ Judged /\ Settled
        /\ Slotted /\ Summed /\ Billed

\* A request begins without text, calls, answer or result.
LEMMA InitRInv == Init => RInv
  <1> SUFFICES ASSUME Init PROVE RInv
    OBVIOUS
  <1>1. Shape
    BY InitShape
  <1>2. pc = update.kind /\ pc \in AllKinds /\ IsUpdate(update)
    BY ConstantsAssumption DEF Init, IsUpdate
  <1>3. Heard /\ Counting
    BY <1>2 DEF Init, Heard, Counting, Spoken, AllKinds, MediaStages
  <1>4. Profiled /\ Degraded /\ Grounded
    BY <1>2 DEF Init, Profiled, Degraded, Grounded, Gated, NoAnswer, NoProfile, NoResult, AllKinds, InputStages,
                AgentStages, PathStages
  <1>5. Judged /\ Settled
    BY <1>2 DEF Init, Judged, Settled, Unsettled, NoAnswer, NoResult, AllKinds, TailStages
  <1>6. Slotted /\ Summed
    BY <1>2 DEF Init, Slotted, Summed, NoResult, NoSlots, Slots, AllKinds
  <1>7. Billed
    BY <1>2 DEF Init, Billed, NothingBilled
  <1> QED
    BY <1>1, <1>3, <1>4, <1>5, <1>6, <1>7 DEF RInv

\* Every step of a request keeps it.
LEMMA NextRInv == RInv /\ [Next]_vars => RInv'
  <1> SUFFICES ASSUME RInv, [Next]_vars PROVE RInv'
    OBVIOUS
  <1> USE DEF RInv
  <1>1. Shape'
    <2>1. pc \in PathStages => profile.decision # "DENY"
      BY DEF Profiled
    <2> QED
      BY <2>1, NextShape
  <1>2. Profiled' /\ Degraded'
    BY ProfiledStep, DegradedStep
  <1>3. Heard' /\ Counting' /\ Grounded' /\ Judged' /\ Settled'
    BY HeardStep, GroundedStep, JudgedStep, SettledStep
  <1>4. Slotted' /\ Summed' /\ Billed'
    BY <1>2, SlottedStep, SummedStep, BilledStep
  <1> QED
    BY <1>1, <1>2, <1>3, <1>4

\* RInv holds of every request at every time.
THEOREM RInvAlways == Spec => []RInv
  BY InitRInv, NextRInv, PTL DEF Spec

\* Types: whatever the user sends and whatever fails on the way, every stage
\* gets what it expects, and no call is billed more than twice.
THEOREM TypeCorrect == Spec => []TypeOK
  <1>1. RInv => TypeOK
    <2> SUFFICES ASSUME RInv PROVE TypeOK
      OBVIOUS
    <2>1. Charged \in [Calls -> 0 .. 2]
      <3>1. \A c \in Calls : Charged[c] \in 0 .. 2
        BY ChargedCount DEF RInv
      <3>2. Charged = [c \in Calls |-> Charged[c]]
        BY DEF Charged
      <3> HIDE DEF Charged
      <3> QED
        BY <3>1, <3>2
    <2>2. billed \in [Calls -> 0 .. 2]
      BY <2>1 DEF RInv, Billed, NothingBilled
    <2> QED
      BY <2>2 DEF RInv, Shape, TypeCore, TypeOK
  <1> QED
    BY <1>1, RInvAlways, PTL

\* The judges: whichever path a request takes and whatever fails, no text that
\* a judge blocked is sent or remembered; only a revision, a fallback agent's
\* text and the rule's go out unread, and never on the degraded path; and a
\* draft goes out against the judge's wish only after a revision in vain.
THEOREM BlockedNeverDeliveredAlways == Spec => []BlockedNeverDelivered
  <1>1. RInv => BlockedNeverDelivered
    <2> SUFFICES ASSUME RInv, result.says = "answer", pc \notin BeforeSave
                 PROVE  /\ answer.verdict # "BLOCK"
                        /\ answer.verdict = "none" =>
                             /\ answer.by \in {"revision", "fallback", "rule"}
                             /\ profile.decision # "DEGRADED_MODE"
                        /\ answer.verdict = "REVISE" =>
                             answer.by = "primary" /\ (faults > 0 \/ "revision" \in made)
      BY DEF RInv, Settled, Unsettled, NoResult, BlockedNeverDelivered, Delivered
    <2>1. pc \notin {"validators", "judge", "revise"}
      BY DEF BeforeSave, BeforePaths, AgentStages
    <2>2. answer.by \in {"primary", "revision", "fallback", "rule"}
      BY DEF RInv, Settled, Judged, Shape
    <2> QED
      BY <2>1, <2>2 DEF RInv, Settled, Judged
  <1> QED
    BY <1>1, RInvAlways, PTL

\* "STRICT + no grounding data -> deny rather than hallucinate": the model
\* whose text is sent saw the context that the gates passed, less what the
\* HEAVY path loses or a failure over the size of the messages.
THEOREM GroundingKeptAlways == Spec => []GroundingKept
  <1>1. RInv => GroundingKept
    <2> SUFFICES ASSUME RInv, Delivered, answer.by \in {"primary", "revision", "fallback"}
                 PROVE  /\ HasContext
                        /\ \/ answer.saw = Carried
                           \/ answer.saw = {} /\ faults > 0 /\ HasChain
      BY DEF GroundingKept, HasContext
    <2>1. Gated
      BY DEF Delivered, Gated
    <2> QED
      BY <2>1 DEF RInv, Grounded, SawPrompt
  <1> QED
    BY <1>1, RInvAlways, PTL

\* A request ends in silence in three cases only.
THEOREM NoSilentEndAlways == Spec => []NoSilentEnd
  <1>1. RInv => NoSilentEnd
    BY DEF RInv, Settled, Heard, NoSilentEnd
  <1> QED
    BY <1>1, RInvAlways, PTL

\* Nothing is billed that was not used, and nothing twice but an accepted
\* revision.
THEOREM NothingBilledTwiceAlways == Spec => []NothingBilledTwice
  <1>1. RInv => NothingBilledTwice
    <2> SUFFICES ASSUME RInv, NEW c \in Calls
                 PROVE  /\ billed[c] > 1 => c = "revision" /\ answer.by = "revision"
                        /\ billed[c] > 0 => Used(c)
      BY DEF NothingBilledTwice, Used
    <2>1. CASE billed = NothingBilled
      BY <2>1 DEF NothingBilled
    <2>2. CASE billed = Charged
      BY <2>2, ChargedCount, SumsOfCall DEF RInv
    <2> QED
      BY <2>1, <2>2 DEF RInv, Billed
  <1> QED
    BY <1>1, RInvAlways, PTL

\* When a request is answered and billed, every call that was made for it is
\* in a sum, unless the program has no sum for it.
LEMMA AnswerSummed ==
  ASSUME RInv, pc = "done", result.says = "answer", NEW c \in InTime \ Leaks
  PROVE  \E s \in Sums : c \in result.slots[s]
  <1> USE DEF RInv
  <1>0. c \in made /\ c \in Calls
    BY DEF InTime, Shape, TypeCore
  <1>1. /\ result.state = "answered" /\ result.reason = "none"
        /\ answer.blocked = "no" /\ profile.decision # "DENY"
    BY DEF Settled
  <1>2. /\ {"cost", "safety", "asr", "tts", "revision"} \subseteq Sums
        /\ profile.decision # "HEAVY_REQUIRED" => "multilingual" \in Sums
    BY <1>1 DEF Sums, DecisionOf, Slots
  <1>3. /\ result.slots["cost"] = Cost
        /\ result.slots["revision"] = {"revision"} \cap made
        /\ result.slots["safety"] = {"gate22", "gate86", "safeguard"} \cap InTime
        /\ result.slots["multilingual"] = {"multilingual"} \cap InTime
    BY DEF Summed, RevisionMetrics
  <1>4. CASE c \in {"gate22", "gate86", "safeguard", "revision"}
    BY <1>0, <1>2, <1>3, <1>4
  <1>5. CASE c = "multilingual"
    BY <1>2, <1>3, <1>5 DEF Leaks
  <1>6. CASE c = "asr"
    <2>1. Spoken /\ ~update.attached
      BY <1>0, <1>1, <1>6 DEF Heard, Leaks
    <2> QED
      BY <1>2, <1>6, <2>1 DEF Summed
  <1>7. CASE c = "tts"
    <2>1. result.slots["tts"] # {}
      BY <1>7 DEF Leaks, Billed
    <2> QED
      BY <1>2, <1>7, <2>1 DEF Slotted
  <1>8. CASE c \in {"validator", "vision"}
    BY <1>8 DEF Leaks
  <1>9. CASE c \in {"embedding", "rerank", "lc", "shaper", "primary", "fallback", "judge", "lite"}
    <2>0. profile.decision \in {"ALLOW", "DEGRADED_MODE", "HEAVY_REQUIRED"}
          /\ answer.by \in {"none", "primary", "revision", "fallback", "rule"}
      BY <1>1 DEF Shape, Decisions
    <2>1. PrimaryMetrics \cup RetrievalMetrics \subseteq Cost
      BY <2>0, CostIs DEF CostByPath, _run_allow, _run_degraded, _run_heavy
    <2>2. CASE c \in {"embedding", "rerank"}
      <3>1. profile.documents
        BY <1>0, <2>2 DEF Leaks, Profiled
      <3> QED
        BY <2>1, <2>2, <3>1, <1>2, <1>3 DEF RetrievalMetrics
    <2>3. CASE c = "primary"
      <3>1. answer.by \in {"none", "primary", "fallback"}
        BY <2>0, <2>3 DEF Leaks
      <3>2. c \in PrimaryMetrics
        BY <1>0, <2>3, <3>1, PrimaryIs DEF PrimaryByAgent
      <3> QED
        BY <2>1, <3>2, <1>2, <1>3
    <2>4. CASE c = "fallback"
      <3>1. answer.by = "fallback"
        BY <1>0, <1>1, <2>4 DEF Leaks, Judged
      <3>2. c \in PrimaryMetrics
        BY <1>0, <2>4, <3>1, PrimaryIs DEF PrimaryByAgent
      <3> QED
        BY <2>1, <3>2, <1>2, <1>3
    <2>5. CASE c = "judge"
      <3>1. profile.decision \in {"ALLOW", "HEAVY_REQUIRED"}
        BY <2>0, <2>5 DEF Leaks
      <3>2. c \in Cost
        BY <1>0, <2>5, <3>1, CostIs DEF CostByPath, _run_allow, _run_heavy, SafetyMetrics
      <3> QED
        BY <3>2, <1>2, <1>3
    <2>6. CASE c = "lite"
      <3>1. profile.decision = "DEGRADED_MODE"
        BY <1>0, <2>6 DEF Degraded
      <3>2. c \in Cost
        BY <1>0, <2>6, <3>1, CostIs DEF CostByPath, _run_degraded
      <3> QED
        BY <3>2, <1>2, <1>3
    <2>7. CASE c = "lc"
      <3>1. profile.compressed /\ profile.decision = "HEAVY_REQUIRED"
        BY <2>7 DEF Leaks, Profiled
      <3>2. c \in Cost
        BY <2>7, <3>1, CostIs DEF CostByPath, _run_heavy
      <3> QED
        BY <3>2, <1>2, <1>3
    <2>8. CASE c = "shaper"
      <3>1. profile.shaped = "llm" /\ profile.decision = "HEAVY_REQUIRED"
        BY <2>8 DEF Leaks, Profiled
      <3>2. c \in Cost
        BY <2>8, <3>1, CostIs DEF CostByPath, _run_heavy
      <3> QED
        BY <3>2, <1>2, <1>3
    <2> QED
      BY <1>9, <2>2, <2>3, <2>4, <2>5, <2>6, <2>7, <2>8
  <1> QED
    BY <1>0, <1>4, <1>5, <1>6, <1>7, <1>8, <1>9 DEF Calls

\* "Every model call that produces a response MUST be billed": when an answer
\* reaches a user who is billed, it is, but for the calls of Leaks.
THEOREM AnswerIsPaidAlways == Spec => []AnswerIsPaid
  <1>1. RInv => AnswerIsPaid
    <2> SUFFICES ASSUME RInv, Billing, Delivered, NEW c \in InTime \ Leaks
                 PROVE  billed[c] > 0
      BY DEF AnswerIsPaid
    <2>1. pc = "done" /\ result.says = "answer" /\ c \in Calls
      BY DEF Delivered, RInv, Shape, TypeCore, InTime
    <2>2. billed = Charged
      BY DEF Billing, RInv, Billed, NothingBilled
    <2>3. SumsWith(c) # {}
      BY <2>1, AnswerSummed DEF SumsWith
    <2> QED
      BY <2>1, <2>2, <2>3, ChargedCount DEF RInv
  <1> QED
    BY <1>1, RInvAlways, PTL
=============================================================================
