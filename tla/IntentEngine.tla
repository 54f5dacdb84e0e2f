---------------------------- MODULE IntentEngine ----------------------------
(***************************************************************************)
(* The intent engine: the routing profile of every intent, and what a      *)
(* classification may come to.                                             *)
(***************************************************************************)
EXTENDS RequestState

\* _TOOL_MAP: the intents with a tool, all of them agentic.
_AGENTIC_INTENTS == {"SEARCH", "WEATHER", "MAPS", "MAPS_POI", "MAPS_ROUTE"}

Depth(i) ==
  IF i \in {"MATH", "EXAM"} THEN "HEAVY"
  ELSE IF i \in {"CONVERSATION", "EMOTIONAL"} THEN "NONE"
  ELSE "LIGHT"

Domain(i) ==
  CASE i \in _AGENTIC_INTENTS -> "GEO"
    [] i = "MATH" -> "MATH"
    [] i = "CODE" -> "CODE"
    [] OTHER -> "GENERAL"

RetrievalRequired(i) ==
  i \notin {"MATH", "EXAM", "CODE", "CREATIVE", "CONVERSATION", "EMOTIONAL"}

\* HYBRID and GENERATIVE differ in wording only.
Strict(i) == i \in _AGENTIC_INTENTS

_resolve_routing(i) ==
  [depth |-> Depth(i), domain |-> Domain(i), retrieval |-> RetrievalRequired(i),
   strict |-> Strict(i)]
-----------------------------------------------------------------------------
\* What classify may say.  The query profile alone decides on some intents, the
\* label of _llm_pre_classify on others, then the stored examples; without
\* clients, without a match or with a weak one the intent is QUESTION.
ByProfile == {"RECALL", "RECOMMENDATION", "MAPS_ROUTE"}
ByLabel   == {"WEATHER", "SEARCH", "RECOMMENDATION", "RECALL", "EMOTIONAL"}
Undecided == "QUESTION"

classify == ByProfile \cup ByLabel \cup IntentsUsed \cup {Undecided}
=============================================================================
