------------------------------- MODULE Outbox -------------------------------
(***************************************************************************)
(* The outbound path.  HF never calls Telegram: _send_message inserts a    *)
(* row into Supabase's outbox table; each insert makes Supabase call the   *)
(* Worker's /outbox/drain once, without retry, and nothing else does:      *)
(* there is no cron.  drainOutbox sends the oldest ready rows, whichever   *)
(* insert it was called for.  Drains run concurrently: each is a Worker    *)
(* invocation of its own.                                                  *)
(***************************************************************************)
EXTENDS Naturals, FiniteSets

CONSTANTS
  Messages,     \* replies, each sent by one call of _send_message
  BadMarkdown,  \* those whose text Telegram cannot parse as Markdown
  Drains,       \* Worker invocations that can overlap
  BATCH_SIZE,   \* rows a drain reads at once
  MAX_RETRIES,  \* retries of a row after temporary errors
  MaxFaults,    \* bound: errors of requests to Supabase, lost answers or
                \* calls, deaths
  MaxCalls      \* bound: calls under way when others' messages add one

ASSUME ConstantsAssumption ==
  /\ BadMarkdown \subseteq Messages
  /\ BATCH_SIZE \in Nat \ {0}
  /\ MAX_RETRIES \in Nat
  /\ MaxFaults \in Nat
  /\ MaxCalls \in Nat

(***************************************************************************)
(* _send_message makes up to four INSERT requests: 1 with Markdown, 2 its  *)
(* replay by ResilientSupabase after a dead connection, 3 without Markdown *)
(* when the first insert failed, 4 the replay of 3.  Request i that is     *)
(* applied creates row <<m, i>>.  5: no request is left.                   *)
(***************************************************************************)
Requests == 1..4
Finished == 5
Rows == Messages \X Requests
Msg(r) == r[1]
HasMarkdown(r) == r[2] \in {1, 2}

VARIABLES
  request,   \* the next INSERT request of each message (5: none)
  status,    \* outbox.status, "absent" before the insert
  retries,   \* outbox.retry_count
  backoff,   \* outbox.next_retry_at lies in the future
  created,   \* outbox.created_at (0 before the insert)
  calls,     \* calls of /outbox/drain that no drain has answered to yet
  phase,     \* where each drain stands
  batch,     \* the rows each drain read, then those it claimed
  seen,      \* retry_count of those rows as the read returned it
  accepted,  \* how often Telegram accepted each message
  lost,      \* answers lost on the way of each message
  faults     \* faults so far

table == <<status, retries, backoff, created>>
drain == <<phase, batch, seen>>
history == <<accepted, lost>>
vars  == <<request, table, calls, drain, history, faults>>

Init ==
  /\ request = [m \in Messages |-> 1]
  /\ status = [r \in Rows |-> "absent"]
  /\ retries = [r \in Rows |-> 0]
  /\ backoff = [r \in Rows |-> FALSE]
  /\ created = [r \in Rows |-> 0]
  /\ calls = 0
  /\ phase = [d \in Drains |-> "idle"]
  /\ batch = [d \in Drains |-> {}]
  /\ seen = [d \in Drains |-> [r \in Rows |-> 0]]
  /\ accepted = [m \in Messages |-> 0]
  /\ lost = [m \in Messages |-> 0]
  /\ faults = 0

FaultHappens == faults < MaxFaults /\ faults' = faults + 1

-----------------------------------------------------------------------------
\* HF Space: _send_message -> _post_via_worker -> outbox.insert

\* The row, and with it the Database Webhook's one call of the Worker.
AddRow(r) ==
  /\ calls' = calls + 1
  /\ status' = [status EXCEPT ![r] = "pending"]
  /\ created' = [created EXCEPT ![r] = 1 + Cardinality({q \in Rows : created[q] # 0})]
  /\ UNCHANGED <<retries, backoff>>

\* The request that follows request i when i ends in an error: the replay
\* after a dead connection, the plain-text insert after any other.
AfterError(i, dead) ==
  IF dead /\ i \in {1, 3} THEN i + 1 ELSE IF i <= 2 THEN 3 ELSE Finished

InsertOk(m) ==
  /\ request[m] # Finished
  /\ AddRow(<<m, request[m]>>)
  /\ request' = [request EXCEPT ![m] = Finished]
  /\ UNCHANGED <<drain, history, faults>>

\* The insert is not applied.
InsertFails(m) ==
  /\ request[m] # Finished
  /\ FaultHappens
  /\ \E dead \in BOOLEAN :
       request' = [request EXCEPT ![m] = AfterError(request[m], dead)]
  /\ UNCHANGED <<table, calls, drain, history>>

\* The insert is applied, but _post_via_worker sees an error.
InsertAnswerLost(m) ==
  /\ request[m] # Finished
  /\ FaultHappens
  /\ AddRow(<<m, request[m]>>)
  /\ \E dead \in BOOLEAN :
       request' = [request EXCEPT ![m] = AfterError(request[m], dead)]
  /\ lost' = [lost EXCEPT ![m] = @ + 1]
  /\ UNCHANGED <<drain, accepted>>

\* A reply to another user, or a call by hand.  The other row is left out:
\* what concerns these rows is the call.
OtherInsert ==
  /\ calls < MaxCalls
  /\ calls' = calls + 1
  /\ UNCHANGED <<request, table, drain, history, faults>>

-----------------------------------------------------------------------------
\* Worker: handleOutboxDrain starts one drainOutbox for each call

Ready == {r \in Rows : status[r] = "pending" /\ ~backoff[r]}

\* order=created_at.asc&limit=BATCH_SIZE
MutLimitFirst(rows) ==
  {r \in rows : Cardinality({q \in Rows : created[q] # 0 /\ created[q] < created[r]}) < BATCH_SIZE}
Oldest(rows) ==
  {r \in rows : Cardinality({q \in rows : created[q] < created[r]}) < BATCH_SIZE}

CallAnswered == calls > 0 /\ calls' = calls - 1

ReadReady(d) ==
  /\ phase[d] = "idle"
  /\ CallAnswered
  /\ Ready # {}
  /\ phase' = [phase EXCEPT ![d] = "claiming"]
  /\ batch' = [batch EXCEPT ![d] = Oldest(Ready)]
  /\ seen' = [seen EXCEPT ![d] = [r \in Rows |->
                 IF r \in Oldest(Ready) THEN retries[r] ELSE 0]]
  /\ UNCHANGED <<request, table, history, faults>>

\* The read returns no rows.
ReadNothing(d) ==
  /\ phase[d] = "idle"
  /\ CallAnswered
  /\ Ready = {}
  /\ UNCHANGED <<request, table, drain, history, faults>>

\* The call does not reach the Worker, or the read of its drain fails.
CallLost ==
  /\ CallAnswered
  /\ FaultHappens
  /\ UNCHANGED <<request, table, drain, history>>

\* The claim's filter: status=eq.pending, but not next_retry_at again.
MutClaimHeld(r) == status[r] \in {"pending", "processing"}
MutClaimAny(r) == status[r] # "absent"
Claimable(r) == status[r] = "pending"

Won(d) == {r \in batch[d] : Claimable(r)}

SetProcessing(rows) ==
  status' = [r \in Rows |-> IF r \in rows THEN "processing" ELSE status[r]]

Hold(d, rows) ==
  /\ batch' = [batch EXCEPT ![d] = rows]
  /\ phase' = [phase EXCEPT ![d] = IF rows = {} THEN "idle" ELSE "sending"]
  /\ seen' = [seen EXCEPT ![d] = [r \in Rows |-> IF r \in rows THEN @[r] ELSE 0]]

Claim(d) ==
  /\ phase[d] = "claiming"
  /\ SetProcessing(Won(d))
  /\ Hold(d, Won(d))
  /\ UNCHANGED <<request, calls, retries, backoff, created, history, faults>>

\* The PATCH times out or answers an error, applied or not: the drain ends.
ClaimFails(d) ==
  /\ phase[d] = "claiming"
  /\ FaultHappens
  /\ \/ SetProcessing(Won(d))
     \/ UNCHANGED status
  /\ Hold(d, {})
  /\ UNCHANGED <<request, calls, retries, backoff, created, history>>

\* Telegram's answer to one call:
\*   ok       accepted, and the Worker is told so
\*   busy     429 or 5xx
\*   dropped  a network error before Telegram accepted it
\*   unheard  a network error after Telegram accepted it
\*   parse    400 "can't parse entities"
\*   refused  any other 4xx
Answers == {"ok", "busy", "dropped", "unheard", "parse", "refused"}

\* A row sent as Markdown that Telegram cannot parse as Markdown.
Unparsable(r) == HasMarkdown(r) /\ Msg(r) \in BadMarkdown

\* The answers to the first call, and to the second, which sendOutboxRow
\* makes without parse_mode only after a parse error.
FirstAnswers(r) == IF Unparsable(r) THEN Answers \ {"ok", "unheard"} ELSE Answers \ {"parse"}
SecondAnswers(first) == IF first = "parse" THEN Answers \ {"parse"} ELSE {"none"}

\* sendOutboxRow's reading of the answers: a network error of either call is
\* retried, and so is a busy first call, but a busy second call is final.
MutVerdict(first, second) ==
  IF first = "ok" THEN "sent" ELSE IF first = "refused" THEN "failed" ELSE "retry"
Verdict(first, second) ==
  IF "ok" \in {first, second} THEN "sent"
  ELSE IF first = "busy" \/ {first, second} \cap {"dropped", "unheard"} # {} THEN "retry"
  ELSE "failed"

MutGiveUp(n) == n > MAX_RETRIES
GiveUp(n) == n + 1 > MAX_RETRIES

\* markOutboxRow: the retry count is the one the drain read, plus one.
Mark(d, r, verdict) ==
  LET n == seen[d][r]
      final == IF verdict # "retry" THEN verdict
               ELSE IF GiveUp(n) THEN "failed" ELSE "pending"
  IN /\ status' = [status EXCEPT ![r] = final]
     /\ retries' = [retries EXCEPT ![r] = IF final = "pending" THEN n + 1 ELSE @]
     /\ backoff' = [backoff EXCEPT ![r] = final = "pending"]
     /\ UNCHANGED created

\* One attempt at row r, and what the histories record of it.
Attempt(r, first, second) ==
  /\ accepted' = [accepted EXCEPT ![Msg(r)] =
                    IF {first, second} \cap {"ok", "unheard"} # {} THEN @ + 1 ELSE @]
  /\ lost' = [lost EXCEPT ![Msg(r)] = IF "unheard" \in {first, second} THEN @ + 1 ELSE @]

MaySend(d, r) == phase[d] = "sending" /\ r \in batch[d]

SendOutboxRow(d, r) ==
  /\ MaySend(d, r)
  /\ \E first \in FirstAnswers(r) : \E second \in SecondAnswers(first) :
       /\ IF "unheard" \in {first, second} THEN FaultHappens ELSE UNCHANGED faults
       /\ Attempt(r, first, second)
       /\ Mark(d, r, Verdict(first, second))
  /\ Hold(d, batch[d] \ {r})
  /\ UNCHANGED <<request, calls>>

\* markOutboxRow is not applied (it ignores the answer and swallows errors):
\* the row stays 'processing' whatever Telegram did with it.
SendMarkLost(d, r) ==
  /\ MaySend(d, r)
  /\ FaultHappens
  /\ \E first \in FirstAnswers(r) : \E second \in SecondAnswers(first) :
       Attempt(r, first, second)
  /\ Hold(d, batch[d] \ {r})
  /\ UNCHANGED <<request, table, calls>>

\* The runtime ends the invocation (waitUntil has a time limit).
Cancelled(d) ==
  /\ phase[d] # "idle"
  /\ FaultHappens
  /\ Hold(d, {})
  /\ UNCHANGED <<request, table, calls, history>>

\* next_retry_at passes.
BackoffEnds(r) ==
  /\ backoff[r]
  /\ backoff' = [backoff EXCEPT ![r] = FALSE]
  /\ UNCHANGED <<request, status, retries, created, calls, drain, history, faults>>

-----------------------------------------------------------------------------
HFStep(m) == InsertOk(m) \/ InsertFails(m) \/ InsertAnswerLost(m)

DrainStep(d) == ReadReady(d) \/ ReadNothing(d) \/ Claim(d)

Fault(d) == \/ ClaimFails(d) \/ Cancelled(d)
            \/ \E r \in Rows : SendMarkLost(d, r)

Next == \/ \E m \in Messages : HFStep(m)
        \/ \E d \in Drains : \/ DrainStep(d)
                             \/ Fault(d)
                             \/ \E r \in Rows : SendOutboxRow(d, r)
        \/ \E r \in Rows : BackoffEnds(r)
        \/ OtherInsert
        \/ CallLost

Spec == Init /\ [][Next]_vars

\* A call that is not lost starts a drain, a drain that is not cancelled goes
\* on (its requests all have timeouts), and time passes.  Nothing makes a call
\* come: neither _send_message nor another user's insert is fair.
Fairness == /\ \A d \in Drains : /\ WF_vars(DrainStep(d))
                                 /\ \A r \in Rows : WF_vars(SendOutboxRow(d, r))
            /\ \A r \in Rows : WF_vars(BackoffEnds(r))

FairSpec == Spec /\ Fairness
-----------------------------------------------------------------------------
Statuses == {"absent", "pending", "processing", "sent", "failed"}

TypeOK ==
  /\ request \in [Messages -> Requests \cup {Finished}]
  /\ status \in [Rows -> Statuses]
  /\ retries \in [Rows -> 0..MAX_RETRIES]
  /\ backoff \in [Rows -> BOOLEAN]
  /\ created \in [Rows -> Nat]
  /\ calls \in Nat
  /\ phase \in [Drains -> {"idle", "claiming", "sending"}]
  /\ batch \in [Drains -> SUBSET Rows]
  /\ seen \in [Drains -> [Rows -> 0..MAX_RETRIES]]
  /\ accepted \in [Messages -> Nat]
  /\ lost \in [Messages -> Nat]
  /\ faults \in 0..MaxFaults

Holds(d, r) == phase[d] = "sending" /\ r \in batch[d]

Stranded(r) == status[r] = "processing" /\ ~ \E d \in Drains : Holds(d, r)

(***************************************************************************)
(* "concurrent drains must not double-send a message" (drainOutbox): a row *)
(* is in the hands of one drain at a time, and only while it is            *)
(* 'processing'.                                                           *)
(***************************************************************************)
ExclusiveSending ==
  \A d \in Drains, r \in Rows :
    Holds(d, r) => /\ status[r] = "processing"
                   /\ \A e \in Drains : Holds(e, r) => d = e

(***************************************************************************)
(* The user sees a reply more than once only if an answer was lost on the  *)
(* way of that reply: the INSERT's answer (HF inserts a second row) or     *)
(* Telegram's (the Worker retries).  Races alone never duplicate it.       *)
(***************************************************************************)
CopiesBounded == \A m \in Messages : accepted[m] <= 1 + lost[m]

(***************************************************************************)
(* A row that is sent or failed is never taken up again, neither by a late *)
(* claim nor by a late markOutboxRow, which filters by id only.            *)
(***************************************************************************)
OutcomeIsFinal ==
  [][\A r \in Rows : status[r] \in {"sent", "failed"} => status'[r] = status[r]]_vars

(***************************************************************************)
(* As long as calls keep coming, every row ends sent, failed or, after a   *)
(* fault, 'processing' in nobody's hands: whatever drains overlap, no row  *)
(* is passed over for ever, and what waits for ever, in backoff, or since  *)
(* its call was lost, or left out by the LIMIT, waits for a message nobody *)
(* sends ("triggered by the next real message, since there's no cron",     *)
(* worker.js).  Whether one comes is not up to the code: without the       *)
(* premise the property is false.                                          *)
(***************************************************************************)
EventuallyOut ==
  []<>(calls > 0) =>
    \A r \in Rows : status[r] = "pending" ~> status[r] \in {"sent", "failed"} \/ Stranded(r)

(***************************************************************************)
(* "we push next_retry_at forward and let the next drainOutbox call pick   *)
(* it back up": no row is attempted while its backoff runs.                *)
(***************************************************************************)
BackoffRespected ==
  [][\A d \in Drains, r \in Rows : SendOutboxRow(d, r) => ~backoff[r]]_vars

Life(r) == IF status[r] = "absent" THEN "none"
           ELSE IF status[r] = "pending" THEN "waiting"
           ELSE IF Stranded(r) THEN "stuck"
           ELSE IF status[r] = "processing" THEN "held"
           ELSE status[r]

Abs == INSTANCE OutboxAbs WITH life <- [r \in Rows |-> Life(r)]

(***************************************************************************)
(* drainOutbox, sendOutboxRow and _send_message implement OutboxAbs: with  *)
(* claims, retries, replays and marks that overlap, each row still lives   *)
(* the life of a row in a table that one hand at a time works on, nothing  *)
(* is called sent that Telegram did not accept, and each further copy      *)
(* follows a lost answer.                                                  *)
(***************************************************************************)
ImplementsAbs == Abs!Spec
=============================================================================
