---------------------------- MODULE RequestState ----------------------------
(***************************************************************************)
(* The state of one request, shared by the modules that model its stages:  *)
(* Media (photos, albums, speech), Grounding (safety gate, history,        *)
(* retrieval, intent, tools, admission), Agents (the coordinator),         *)
(* Execution (the three execution paths) and Request (what handle_message  *)
(* and process_update do with the result).                                 *)
(* A stage that awaits a service is one action; "pc" names the stage that  *)
(* comes next.                                                             *)
(***************************************************************************)
EXTENDS Kernel, FiniteSets

CONSTANTS
  Updates,           \* what the user may send, with the user's balance
  IntentsUsed,       \* intents the stored examples may match
  SizesUsed,         \* complexity of a message, and tokens of all messages
  MaxFaults          \* bound on the calls that fail in one request

AllKinds == {"text", "voice", "photo", "album"}

\* "attached": the Worker stored the file; "photos": of an album.
IsUpdate(u) ==
  /\ DOMAIN u = {"kind", "attached", "caption", "photos", "balance"}
  /\ u.kind \in AllKinds
  /\ u.attached \in BOOLEAN /\ (u.kind \in {"text", "album"} => ~u.attached)
  /\ u.caption \in BOOLEAN /\ (u.kind \in {"text", "voice"} => ~u.caption)
  /\ u.photos \in Nat /\ (u.kind = "album" <=> u.photos > 0)
  /\ u.balance \in Nat

Intents == {"WEATHER", "SEARCH", "MAPS", "MAPS_POI", "MAPS_ROUTE", "MATH", "EXAM",
            "CODE", "ANALYSIS", "INSTRUCTION", "QUESTION", "RECOMMENDATION",
            "RECALL", "CREATIVE", "CONVERSATION", "EMOTIONAL"}

ASSUME ConstantsAssumption ==
  /\ \A u \in Updates : IsUpdate(u)
  /\ IntentsUsed \subseteq Intents
  /\ SizesUsed \subseteq Complexities \X Nat
  /\ MaxFaults \in Nat

\* The calls whose tokens, seconds or characters the program counts.  Those of
\* the intent engine and of the tools' extractors are charged by the provider
\* too, but nothing counts them.
Calls == {"asr", "tts", "vision", "gate22", "gate86", "safeguard", "multilingual",
          "embedding", "rerank", "lc", "shaper", "primary", "validator", "fallback",
          "judge", "lite", "revision"}

\* The sums of the billing block; each holds the tokens of some calls.
Slots == {"cost", "safety", "multilingual", "asr", "tts", "revision"}

VARIABLES
  pc,        \* the stage that comes next
  update,    \* what the user sent, and the user's balance
  faults,    \* calls that failed so far
  tries,     \* attempts of a download, or chunks of speech, so far
  text,      \* the parts of the user message
  intent,    \* the classified intent, or "none"
  profile,   \* what the stages computed about the request
  prompt,    \* the grounding in the messages the models are given
  made,      \* charged calls that were made
  late,      \* those whose answer came after the caller's timeout
  answer,    \* what the coordinator has so far, and what a judge said of that text
  result,    \* the OrchestratorResult
  billed,    \* how often each call was billed
  history,   \* what the request did to the conversation
  sent       \* what was sent to the user

given == <<update, tries>>
calls == <<faults, made, late>>
work  == <<text, intent, profile, prompt>>
back  == <<billed, history, sent>>
vars  == <<pc, given, calls, work, answer, result, back>>

NoProfile == [complexity |-> "LOW", input |-> 0, documents |-> FALSE, context |-> {},
              compressed |-> FALSE, shaped |-> "no", decision |-> "DENY", tier |-> "FAST"]
NoAnswer == [by |-> "none", verdict |-> "none", blank |-> TRUE, saw |-> {}, blocked |-> "no"]
NoSlots  == [s \in Slots |-> {}]
NoResult == [state |-> "none", says |-> "nothing", reason |-> "none", slots |-> NoSlots]

Init ==
  /\ update \in Updates
  /\ pc = update.kind
  /\ faults = 0
  /\ tries = 0
  /\ text = {}
  /\ intent = "none"
  /\ profile = NoProfile
  /\ prompt = {}
  /\ made = {}
  /\ late = {}
  /\ answer = NoAnswer
  /\ result = NoResult
  /\ billed = [c \in Calls |-> 0]
  /\ history = "closed"
  /\ sent = {}
-----------------------------------------------------------------------------
Goto(stage) == pc' = stage

\* Anything that is not a charged call may fail too.
Fails == faults < MaxFaults /\ faults' = faults + 1
Works == UNCHANGED faults

\* A charged call is answered, fails without being charged, or is charged but
\* answered too late for whoever waits for it.
Answered(c) ==
  /\ made' = made \cup {c}
  /\ UNCHANGED <<faults, late>>
Unanswered ==
  /\ Fails
  /\ UNCHANGED <<made, late>>
AnsweredLate(c) ==
  /\ Fails
  /\ made' = made \cup {c}
  /\ late' = late \cup {c}

NoCall == UNCHANGED calls

InTime == made \ late
-----------------------------------------------------------------------------
\* An OrchestratorResult that denies the request, with the cost it carries.
Denied(reason, says) ==
  [state |-> "denied", says |-> says, reason |-> reason, slots |-> NoSlots]

\* One that answers it.
Replied(says, slots) ==
  [state |-> "answered", says |-> says, reason |-> "none", slots |-> slots]

\* handle_message returns a denial itself, before run(): nothing is billed.
ReturnDenied(reason, says) ==
  /\ result' = Denied(reason, says)
  /\ Goto("returned")

\* The pipeline's denials go on to the tail of run().
PipelineDenies(reason) ==
  /\ result' = Denied(reason, "notice")
  /\ Goto("save")
=============================================================================
