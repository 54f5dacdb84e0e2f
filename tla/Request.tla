------------------------------- MODULE Request -------------------------------
(***************************************************************************)
(* One request from the user's message to the reply: Media, Grounding,     *)
(* Agents and Execution composed, and the tail of handle_message and       *)
(* process_update, with the sums of the billing block and the reply.  The  *)
(* balance itself is modelled by Ledger.                                   *)
(***************************************************************************)
EXTENDS Execution

\* handle_message gives no more for what it returned itself, and nothing
\* below concerns an album.
Returned ==
  /\ pc = "returned"
  /\ Goto(CASE update.kind = "album" -> "albumreply"
            [] update.kind = "voice" /\ "transcript" \in text -> "tts"
            [] OTHER -> "bill")
  /\ NoCall
  /\ UNCHANGED <<given, work, answer, result, back>>

\* A spoken question is answered by voice, unless there is nothing to say.
\* The text is cut into chunks of 200 characters; bound: MAX_CHUNKS of them.
MAX_CHUNKS == 2

IsSpoken == result.state = "answered" /\ result.says # "nothing"

\* The first chunk that fails ends the synthesis.
_synthesize_chunk ==
  /\ pc = "tts" /\ IsSpoken /\ tries < MAX_CHUNKS
  /\ \/ Answered("tts") /\ tries' = tries + 1 /\ UNCHANGED pc
     \/ Unanswered /\ tries' = 0 /\ Goto("wire")
  /\ UNCHANGED <<update, work, answer, result, back>>

\* The chunks are joined and converted by ffmpeg; only a complete synthesis
\* has its characters counted.
synthesize ==
  /\ pc = "tts" /\ (IsSpoken => tries > 0)
  /\ \/ IsSpoken /\ Works /\ result' = [result EXCEPT !.slots["tts"] = {"tts"}]
     \/ IsSpoken /\ Fails /\ UNCHANGED result
     \/ ~IsSpoken /\ Works /\ UNCHANGED result
  /\ tries' = 0
  /\ Goto("wire")
  /\ UNCHANGED <<update, made, late, work, answer, back>>

\* The seconds of speech: a file that was sent as a URL has none unless the
\* service reports them.
SecondsKnown == IF update.attached THEN {{}, {"asr"}} ELSE {{"asr"}}

WireSpeech ==
  /\ pc = "wire"
  /\ \E seconds \in SecondsKnown : result' = [result EXCEPT !.slots["asr"] = seconds]
  /\ Goto("bill")
  /\ NoCall
  /\ UNCHANGED <<given, work, answer, back>>
-----------------------------------------------------------------------------
\* The guard of the billing block looks at three of its sums.
HasBill == \E s \in {"cost", "safety", "multilingual"} : result.slots[s] # {}

\* On the HEAVY path the cost of the normalisation is left out, because
\* _run_heavy is said to contain it.
DecisionOf == IF result.reason = "internal_error" THEN "DENY" ELSE profile.decision

Sums == IF DecisionOf = "HEAVY_REQUIRED" THEN Slots \ {"multilingual"} ELSE Slots

Charged == [c \in Calls |-> Cardinality({s \in Sums : c \in result.slots[s]})]

\* An exception in the block leaves the request unbilled.
Bill ==
  /\ pc = "bill"
  /\ \/ ~HasBill /\ Works /\ UNCHANGED billed
     \/ HasBill /\ Works /\ billed' = Charged
     \/ HasBill /\ Fails /\ UNCHANGED billed
  /\ Goto("reply")
  /\ UNCHANGED <<given, made, late, work, answer, result, history, sent>>

\* A denial for want of money comes with a button; otherwise the voice, or
\* failing that the text.  _send_message has nothing to send for "".
MutTextReply == IF result.state = "denied" THEN {} ELSE {result.says}
TextReply ==
  IF result.says = "nothing" THEN {}
  ELSE IF result.reason = "insufficient_balance" THEN {"topup"}
  ELSE {result.says}

Reply ==
  /\ pc = "reply"
  /\ \/ result.slots["tts"] # {} /\ Works /\ sent' = {"voice"}
     \/ result.slots["tts"] # {} /\ Fails /\ sent' = TextReply
     \/ result.slots["tts"] = {} /\ Works /\ sent' = TextReply
  /\ Goto("done")
  /\ UNCHANGED <<given, made, late, work, answer, result, billed, history>>

\* _on_group_ready replies to an album itself and bills nothing; a denial is
\* told without its reason.
AlbumReply ==
  /\ pc = "albumreply"
  /\ sent' = IF result.state = "denied" THEN {"notice"} ELSE {result.says} \ {"nothing"}
  /\ Goto("done")
  /\ NoCall
  /\ UNCHANGED <<given, work, answer, result, billed, history>>

\* The code of the request has ended, with or without a reply.
Ended ==
  /\ pc \in {"done", "lost"}
  /\ UNCHANGED vars

Next ==
  \/ MediaNext \/ GroundingNext \/ AgentsNext \/ ExecutionNext
  \/ Returned \/ _synthesize_chunk \/ synthesize \/ WireSpeech \/ Bill \/ Reply \/ AlbumReply
  \/ Ended

Spec == Init /\ [][Next]_vars
-----------------------------------------------------------------------------
Stages ==
  AllKinds \cup
  {"file", "listen", "sign", "transcribe", "unheard", "look", "classifycaption", "seen", "group", "batches",
   "lost", "fastpath", "gate1", "multilingual", "gate2", "safeguard", "history", "embed", "search", "rerank",
   "intent", "grounding", "gates", "epk", "compress", "shape", "primary", "validators",
   "judge", "revise", "fallback", "coordinated", "lite", "synthesize", "save", "returned",
   "tts", "wire", "bill", "reply", "albumreply", "done"}

Results ==
  [state : {"none", "denied", "answered"}, says : {"answer", "notice", "nothing"},
   reason : {"none", "vision_error", "vad_silence", "asr_failed", "empty_message",
             "no_grounding", "need_detail", "insufficient_balance", "internal_error",
             "safety_block", "no_response"},
   slots : [Slots -> SUBSET Calls]]

TypeOK ==
  /\ pc \in Stages
  /\ update \in Updates
  /\ faults \in 0 .. MaxFaults
  /\ tries \in 0 .. RETRIES
  /\ text \subseteq Parts
  /\ intent \in Intents \cup {"none"}
  /\ profile \in [complexity : Complexities, input : Nat, documents : BOOLEAN,
                  context : SUBSET {"memory", "tool", "notfound"},
                  compressed : BOOLEAN, shaped : {"no", "local", "llm"},
                  decision : Decisions, tier : Tiers]
  /\ prompt \subseteq {"memory", "tool", "notfound"}
  /\ late \subseteq made /\ made \subseteq Calls
  /\ answer \in [by : {"none", "primary", "revision", "fallback", "rule"},
                 verdict : {"none", "ALLOW", "REVISE", "BLOCK", "UNAVAILABLE"},
                 blank : BOOLEAN, saw : SUBSET {"memory", "tool", "notfound"},
                 blocked : {"no", "safety_block", "no_response"}]
  /\ result \in Results
  /\ billed \in [Calls -> 0 .. 2]
  /\ history \in {"closed", "open", "user", "assistant", "both"}
  /\ sent \subseteq {"answer", "notice", "voice", "topup"}
-----------------------------------------------------------------------------
Delivered == pc = "done" /\ sent \cap {"answer", "voice"} # {} /\ result.says = "answer"
Billing == pc = "done" /\ \E c \in Calls : billed[c] > 0

\* Calls that were made for an answer and that no sum ever holds.
Leaks ==
  {"validator", "vision"}                         \* nothing carries their tokens
    \cup (IF answer.by = "revision" THEN {"primary"} ELSE {})     \* the draft
    \cup (IF answer.by = "rule" THEN {"primary", "fallback"} ELSE {})
    \cup (IF profile.documents THEN {} ELSE {"embedding"})
    \cup (IF profile.decision = "HEAVY_REQUIRED" THEN {"multilingual"} ELSE {})
    \cup (IF profile.decision = "DEGRADED_MODE" THEN {"judge"} ELSE {})
    \cup (IF profile.compressed THEN {} ELSE {"lc"})              \* it said nothing
    \cup (IF profile.shaped = "llm" THEN {} ELSE {"shaper"})
    \cup (IF update.attached THEN {"asr"} ELSE {})                \* no seconds reported
    \cup (IF "voice" \in sent THEN {} ELSE {"tts"})               \* given up half way

(***************************************************************************)
(* "Every model call that produces a response MUST be billed"              *)
(* (economic.md): when the answer of a model reaches a user who is billed  *)
(* at all, every counted call that was made for it and answered in time is *)
(* in one of the sums, whichever path and agent the answer came from, but  *)
(* for the calls of Leaks, which the code has no sum for.                  *)
(***************************************************************************)
AnswerIsPaid ==
  Billing /\ Delivered => \A c \in InTime \ Leaks : billed[c] > 0

(***************************************************************************)
(* Nothing is billed that was not used, and nothing twice: the comments of *)
(* the billing block guard against it sum by sum.  The exceptions are an   *)
(* accepted revision, which stands both in the primary sum and in its own; *)
(* a rerank that failed, whose tokens are estimated; and the fast path,    *)
(* which bills a photo that no model saw.                                  *)
(***************************************************************************)
NothingBilledTwice ==
  \A c \in Calls :
    /\ billed[c] > 1 => c = "revision" /\ answer.by = "revision"
    /\ billed[c] > 0 => \/ c \in InTime
                        \/ c = "rerank" /\ profile.documents
                        \/ c = "vision" /\ text = {"error"}

(***************************************************************************)
(* The judges: a text that is sent, or remembered as the answer, is not    *)
(* one that a judge blocked.  The texts that go out with no judge having   *)
(* read them are an accepted revision, a fallback agent's and the rule's,  *)
(* and none of them on the degraded path, where the lite judge reads       *)
(* whatever the coordinator returned; a draft that the judge wanted        *)
(* revised goes out only after the revision was asked for in vain.  "every *)
(* path has post-check" (multi_agent_coordinator.py) is thus not so.       *)
(***************************************************************************)
BlockedNeverDelivered ==
  Delivered \/ (history \in {"assistant", "both"} /\ result.says = "answer") =>
    /\ answer.verdict # "BLOCK"
    /\ answer.verdict = "none" => /\ answer.by \in {"revision", "fallback", "rule"}
                                  /\ profile.decision # "DEGRADED_MODE"
    /\ answer.verdict = "REVISE" => answer.by = "primary" /\ (faults > 0 \/ "revision" \in made)

(***************************************************************************)
(* "STRICT + no grounding data -> deny rather than hallucinate": between   *)
(* the gates, which look at the retrieved context, and the agent that      *)
(* answers, the messages are built up to three times.  The model whose     *)
(* text is sent saw exactly the context the gates passed, except that the  *)
(* HEAVY path keeps only the memory of it when it builds the messages      *)
(* again, and that a model that failed over the size of the messages       *)
(* leaves its successors none, which no compound model has.  To the gate   *)
(* of a question about live data or memories, a tool's text that nothing   *)
(* was found is context too.                                               *)
(***************************************************************************)
Rebuilt == profile.compressed \/ profile.shaped # "no"
Carried == IF Rebuilt THEN profile.context \cap {"memory"} ELSE profile.context
HasChain == answer.by = "fallback" \/ Plan.primary # "COMPOUND_DEEP"

GroundingKept ==
  Delivered /\ answer.by \in {"primary", "revision", "fallback"} =>
    /\ Strict(intent) \/ intent = "RECALL" => profile.context # {}
    /\ \/ answer.saw = Carried
       \/ answer.saw = {} /\ faults > 0 /\ HasChain

(***************************************************************************)
(* A request never ends in silence, whatever failed on its way, unless it  *)
(* is one of three: a voice message that could not be fetched, an answer   *)
(* of mere markup, or an album of several photos, whose description is     *)
(* lost.                                                                   *)
(***************************************************************************)
NoSilentEnd ==
  pc \in {"done", "lost"} /\ sent = {} =>
    \/ result.reason = "empty_message" /\ update.kind = "voice"
    \/ result.state = "answered" /\ result.says = "nothing"
    \/ pc = "lost" /\ update.photos > 1
=============================================================================
