------------------------------- MODULE Session -------------------------------
(***************************************************************************)
(* What process_update does around a request, for several updates of one   *)
(* user: the rate limiter, the conversation history against /clear, and    *)
(* the low-balance flag against a payment.  The consumer runs the updates  *)
(* of a batch as concurrent tasks and begins the next batch when all have  *)
(* ended.  A task keeps the process until it awaits the network; Supabase  *)
(* is called without awaiting, Redis and the models are awaited.           *)
(***************************************************************************)
EXTENDS Naturals, Sequences, FiniteSets, SequencesExt

CONSTANTS
  Kinds,         \* what the user sent, in that order
  BATCH_SIZE,    \* rows a consumer claims at once
  RPM, WINDOW,   \* requests a user may make within so much time
  BUDGET,        \* turns of history that fit a prompt
  MaxTime,       \* bound on the clock
  MaxPayments,   \* bound on the payments
  MaxFaults      \* bound on the calls that fail

ASSUME ConstantsAssumption ==
  /\ Kinds \in Seq({"message", "clear"})
  /\ {BATCH_SIZE, RPM, WINDOW, BUDGET} \subseteq Nat \ {0}
  /\ {MaxTime, MaxPayments, MaxFaults} \subseteq Nat

Updates == DOMAIN Kinds

VARIABLES
  now,        \* the clock
  phase,      \* where the task of each update stands
  batch,      \* the batch each update was claimed in, 0 before
  stamp,      \* the time each update read in is_allowed
  entries,    \* rate:{user_id}, the updates it holds
  verdict,    \* what is_allowed said
  store,      \* the rows of conversation_history
  context,    \* the history each message is being answered with
  saved,      \* turns that were ever stored
  wrong,      \* updates for which Supabase did not do what was asked
  balance,    \* 0: empty, 1: low, more: not low
  paid,       \* payments so far
  asof,       \* payments so far when an update read the balance
  flag,       \* low_balance_warned:{user_id}
  tasks,      \* handlers of BALANCE_CREDITED that have not run
  uncleared,  \* one of them could not delete the flag
  faults

limiter == <<stamp, entries, verdict>>
memory  == <<store, context, saved, wrong>>
money   == <<balance, paid, asof, flag, tasks, uncleared>>
vars    == <<now, phase, batch, limiter, memory, money, faults>>

NoFlag == [asof |-> 0, late |-> FALSE, set |-> FALSE]

Init ==
  /\ now = 0
  /\ phase = [u \in Updates |-> "queued"]
  /\ batch = [u \in Updates |-> 0]
  /\ stamp = [u \in Updates |-> 0]
  /\ entries = {}
  /\ verdict = [u \in Updates |-> "none"]
  /\ store = <<>>
  /\ context = [u \in Updates |-> <<>>]
  /\ saved = {}
  /\ wrong = {}
  /\ balance = 2
  /\ paid = 0
  /\ asof = [u \in Updates |-> 0]
  /\ flag = NoFlag
  /\ tasks = 0
  /\ uncleared = FALSE
  /\ faults = 0

Works == UNCHANGED faults
Fails == faults < MaxFaults /\ faults' = faults + 1

At(u, p) == phase[u] = p
Goto(u, p) == phase' = [phase EXCEPT ![u] = p]
-----------------------------------------------------------------------------
(* The consumer (UpdateQueue models its table).                             *)

Unclaimed == {u \in Updates : phase[u] = "queued"}

Batches == {batch[u] : u \in Updates} \ {0}

MutBatchEnded == TRUE
BatchEnded == \A u \in Updates : phase[u] \in {"queued", "done"}

\* Each task runs at once as far as its first await, in is_allowed, where it
\* has read the time.
ClaimBatch ==
  /\ BatchEnded
  /\ \E n \in 1 .. BATCH_SIZE :
       LET rows == {u \in Unclaimed : Cardinality({v \in Unclaimed : v < u}) < n}
       IN /\ Cardinality(rows) = n
          /\ phase' = [u \in Updates |-> IF u \in rows THEN "limit" ELSE phase[u]]
          /\ batch' = [u \in Updates |-> IF u \in rows THEN Cardinality(Batches) + 1 ELSE batch[u]]
          /\ stamp' = [u \in Updates |-> IF u \in rows THEN now ELSE stamp[u]]
  /\ UNCHANGED <<now, entries, verdict, memory, money, faults>>

Tick ==
  /\ now < MaxTime
  /\ now' = now + 1
  /\ UNCHANGED <<phase, batch, limiter, memory, money, faults>>
-----------------------------------------------------------------------------
(* RateLimiter.is_allowed.  An entry is never older than the expiry of the  *)
(* key, and no two updates read exactly the same instant.                   *)

MutExceeded(count) == count > RPM
Exceeded(count) == count >= RPM

\* The pipeline: entries that are too old are dropped, the rest counted, and
\* the update becomes an entry whatever the count.  An error lets it pass.
Recent(u) == {v \in entries : stamp[v] + WINDOW > stamp[u]}

Admits(u, answer) ==
  /\ verdict' = [verdict EXCEPT ![u] = answer]
  /\ Goto(u, IF answer = "denied" THEN "done" ELSE Kinds[u])

RunPipeline(u) ==
  /\ At(u, "limit")
  /\ \/ /\ Works
        /\ entries' = Recent(u) \cup {u}
        /\ Admits(u, IF Exceeded(Cardinality(Recent(u))) THEN "denied" ELSE "allowed")
     \/ /\ Fails
        /\ entries' \in {entries, Recent(u) \cup {u}}
        /\ Admits(u, "open")
  /\ UNCHANGED <<now, batch, stamp, memory, money>>
-----------------------------------------------------------------------------
(* ConversationHistory.  None of its operations raises: what failed is      *)
(* logged, and process_update goes on as if it had been done.               *)

TurnsOf(u) == <<[of |-> u, role |-> "user"], [of |-> u, role |-> "assistant"]>>

\* _trim_history_to_budget drops from the oldest end.
MutTrim(turns) == turns
Trim(turns) ==
  IF Len(turns) <= BUDGET THEN turns
  ELSE SubSeq(turns, Len(turns) - BUDGET + 1, Len(turns))

\* get_history; a failed one answers the message without any.
GetHistory(u) ==
  /\ At(u, "message")
  /\ \/ Works /\ context' = [context EXCEPT ![u] = Trim(store)] /\ UNCHANGED wrong
     \/ Fails /\ wrong' = wrong \cup {u} /\ UNCHANGED context
  /\ Goto(u, "answer")
  /\ UNCHANGED <<now, batch, limiter, store, saved, money>>

\* A denial is not remembered; the two turns of an answer are stored one
\* after the other, each of which may fail.
AppendTurns(u) ==
  /\ At(u, "answer")
  /\ \E stored \in {<<>>, TurnsOf(u)} \cup {<<TurnsOf(u)[i]>> : i \in {1, 2}} :
       /\ IF Len(stored) = 1 THEN Fails ELSE Works
       /\ store' = store \o stored
       /\ saved' = saved \cup ToSet(stored)
  /\ context' = [context EXCEPT ![u] = <<>>]
  /\ Goto(u, "bill")
  /\ UNCHANGED <<now, batch, limiter, wrong, money>>

\* /clear, and /reset_memory as far as the history goes: the user is told
\* that it is done, whether it was or not.
Clear(u) ==
  /\ At(u, "clear")
  /\ \/ Works /\ store' = <<>> /\ UNCHANGED wrong
     \/ Fails /\ wrong' = wrong \cup {u} /\ UNCHANGED store
  /\ Goto(u, "done")
  /\ UNCHANGED <<now, batch, limiter, context, saved, money>>
-----------------------------------------------------------------------------
(* The balance and the warning that it is low.                              *)

IsLow(b) == b = 1

\* The request is billed and the balance read anew, before the next await.
Bill(u) ==
  /\ At(u, "bill")
  /\ \E cost \in {0, 1} : balance' = IF cost <= balance THEN balance - cost ELSE balance
  /\ IF IsLow(balance') THEN asof' = [asof EXCEPT ![u] = paid] /\ Goto(u, "flag")
                        ELSE UNCHANGED asof /\ Goto(u, "done")
  /\ UNCHANGED <<now, batch, limiter, memory, paid, flag, tasks, uncleared, faults>>

Raised(u) == [asof |-> asof[u], late |-> asof[u] < paid, set |-> TRUE]

\* SET NX: only who raises the flag warns.  An error is swallowed.
SetFlag(u) ==
  /\ At(u, "flag")
  /\ \/ Works /\ ~flag.set /\ flag' = Raised(u) /\ Goto(u, "warn")
     \/ Works /\ flag.set /\ UNCHANGED flag /\ Goto(u, "done")
     \/ Fails /\ ~flag.set /\ flag' \in {flag, Raised(u)} /\ Goto(u, "done")
  /\ asof' = [asof EXCEPT ![u] = 0]
  /\ UNCHANGED <<now, batch, limiter, memory, balance, paid, tasks, uncleared>>

\* The warning goes to the outbox or is lost; the flag stays either way.
Warn(u) ==
  /\ At(u, "warn")
  /\ Works \/ Fails
  /\ Goto(u, "done")
  /\ UNCHANGED <<now, batch, limiter, memory, money>>

\* A day has passed.
FlagExpires ==
  /\ flag.set
  /\ flag' = NoFlag
  /\ UNCHANGED <<now, phase, batch, limiter, memory, balance, paid, asof, tasks,
                 uncleared, faults>>

\* publish makes a task of each handler, here of the one that clears the flag.
MutPublish == tasks
Publish == tasks + 1

CreditPayment ==
  /\ paid < MaxPayments
  /\ paid' = paid + 1
  /\ balance' = balance + 1
  /\ tasks' = Publish
  /\ UNCHANGED <<now, phase, batch, limiter, memory, asof, flag, uncleared, faults>>

\* _on_balance_credited
ClearLowBalanceWarning ==
  /\ tasks > 0
  /\ tasks' = tasks - 1
  /\ \/ Works /\ flag' = NoFlag /\ UNCHANGED uncleared
     \/ Fails /\ uncleared' = TRUE /\ UNCHANGED flag
  /\ UNCHANGED <<now, phase, batch, limiter, memory, balance, paid, asof>>
-----------------------------------------------------------------------------
Task(u) ==
  \/ RunPipeline(u)
  \/ GetHistory(u) \/ AppendTurns(u) \/ Clear(u)
  \/ Bill(u) \/ SetFlag(u) \/ Warn(u)

Next ==
  \/ ClaimBatch \/ Tick \/ FlagExpires \/ CreditPayment \/ ClearLowBalanceWarning
  \/ \E u \in Updates : Task(u)

Spec == Init /\ [][Next]_vars
-----------------------------------------------------------------------------
Turns == UNION {ToSet(TurnsOf(u)) : u \in Updates}

TypeOK ==
  /\ now \in 0 .. MaxTime
  /\ phase \in [Updates -> {"queued", "limit", "message", "clear", "answer",
                            "bill", "flag", "warn", "done"}]
  /\ batch \in [Updates -> 0 .. Len(Kinds)]
  /\ stamp \in [Updates -> 0 .. MaxTime]
  /\ entries \cup wrong \subseteq Updates
  /\ verdict \in [Updates -> {"none", "denied", "allowed", "open"}]
  /\ ToSet(store) \subseteq saved /\ saved \subseteq Turns
  /\ \A u \in Updates : ToSet(context[u]) \subseteq saved /\ Len(context[u]) <= BUDGET
  /\ balance \in 0 .. (2 + MaxPayments)
  /\ paid \in 0 .. MaxPayments
  /\ asof \in [Updates -> 0 .. MaxPayments]
  /\ flag \in [asof : 0 .. MaxPayments, late : BOOLEAN, set : BOOLEAN]
  /\ tasks \in 0 .. MaxPayments
  /\ uncleared \in BOOLEAN
  /\ faults \in 0 .. MaxFaults
-----------------------------------------------------------------------------
\* Updates with a time in the WINDOW that ends at t
Within(t) == {u \in Updates : verdict[u] # "none" /\ stamp[u] <= t /\ stamp[u] + WINDOW > t}

(***************************************************************************)
(* "Sliding window ... per-user, per-minute limit" (rate_limiter.py): no   *)
(* window of 60 seconds holds more than RPM admitted requests, not         *)
(* counting those admitted because Redis failed; and nobody is denied who  *)
(* has not made RPM requests, though denied ones count like the others.    *)
(***************************************************************************)
RateLimited ==
  /\ \A t \in 0 .. MaxTime :
       Cardinality({u \in Within(t) : verdict[u] = "allowed"}) <= RPM
  /\ \A u \in Updates : verdict[u] = "denied" =>
       Cardinality({v \in Updates \ {u} : /\ verdict[v] # "none"
                                          /\ stamp[v] + WINDOW > stamp[u]}) >= RPM

\* Clear c, executed, may have deleted the turns of m: it was sent after m, or
\* ran at the same time.
Forgets(c, m) ==
  /\ Kinds[c] = "clear" /\ At(c, "done") /\ verdict[c] # "denied" /\ c \notin wrong
  /\ c > m \/ batch[c] = batch[m]

ClearedStaysCleared ==
  \A c \in Updates : \A t \in ToSet(store) :
    Forgets(c, t.of) => batch[c] = batch[t.of]

NothingElseForgotten ==
  \A t \in saved \ ToSet(store) : \E c \in Updates : Forgets(c, t.of)

KnowsTheConversation ==
  \A m \in Updates : \A t \in saved \ ToSet(context[m]) :
    t.of < m /\ At(m, "answer") =>
      \/ batch[t.of] = batch[m]                      \* answered side by side
      \/ Len(context[m]) = BUDGET                    \* dropped as too old
      \/ m \in wrong
      \/ \E c \in Updates : Forgets(c, t.of)

(***************************************************************************)
(* The conversation follows the order in which the user wrote, except      *)
(* within a batch ("they are independent of each other", says the          *)
(* consumer): what a /clear deleted does not come back, nothing else is    *)
(* forgotten, and a message is answered with what was said before it.      *)
(***************************************************************************)
ConversationInOrder ==
  ClearedStaysCleared /\ NothingElseForgotten /\ KnowsTheConversation

(***************************************************************************)
(* "so the user gets a fresh warning if their balance drops again after    *)
(* this top-up" (event_dispatcher.py): a flag from before a payment is     *)
(* still up only while its deletion is under way, when that failed, or     *)
(* when the flag went up after the payment for a balance read before it.   *)
(***************************************************************************)
WarnedAgain ==
  flag.set /\ flag.asof < paid => tasks > 0 \/ uncleared \/ flag.late
=============================================================================
