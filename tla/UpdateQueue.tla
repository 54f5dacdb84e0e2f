----------------------------- MODULE UpdateQueue ----------------------------
(***************************************************************************)
(* The inbound path: the Cloudflare Worker answers Telegram at once and    *)
(* inserts the update into Supabase's pending_updates table; consumers     *)
(* (HF Space processes) claim rows in two requests, run process_update on  *)
(* each and write the outcome back.                                        *)
(*                                                                         *)
(* The Supabase client is synchronous: a consumer blocks on each request,  *)
(* so the requests of one consumer never interleave, while those of two    *)
(* consumers do.  A request may fail, its answer may be lost after the     *)
(* database applied it, and ResilientSupabase replays a request once when  *)
(* the connection died.                                                    *)
(***************************************************************************)
EXTENDS Naturals, FiniteSets

CONSTANTS
  Updates,        \* Telegram updates
  Consumers,      \* HF Space processes that run queue_consumer_loop
  BATCH_SIZE,     \* rows a consumer reads at once
  MAX_ATTEMPTS,   \* failed executions after which a row is given up
  MaxDeliveries,  \* bound: webhook deliveries of one update (Telegram repeats)
  MaxFaults,      \* bound: crashes and lost writes
  MaxReplays      \* bound: replays of a _mark_failed whose answer was lost

ASSUME ConstantsAssumption ==
  /\ IsFiniteSet(Updates)
  /\ BATCH_SIZE \in Nat \ {0}
  /\ MAX_ATTEMPTS \in Nat \ {0}
  /\ MaxDeliveries \in Nat
  /\ MaxFaults \in Nat
  /\ MaxReplays \in Nat

VARIABLES
  deliveries,  \* webhook deliveries of each update, all answered 200
  inserting,   \* enqueueUpdate calls in flight for each update
  status,      \* pending_updates.status, "absent" before the insert
  attempts,    \* pending_updates.attempts
  created,     \* pending_updates.created_at (0 before the insert)
  phase,       \* where each consumer's loop stands
  batch,       \* rows of each consumer: the candidates, then the running ones
  seen,        \* attempts of each row as the consumer's SELECT returned it
  tried,       \* the claim in progress is already the replay of a lost one
  replay,      \* rows whose _mark_failed the consumer is about to replay
  execs,       \* executions of process_update begun for each update
  faults,      \* faults so far
  replays      \* replays of _mark_failed so far

table    == <<status, attempts, created>>
worker   == <<deliveries, inserting>>
consumer == <<phase, batch, seen, tried, replay>>
counters == <<faults, replays>>
vars     == <<worker, table, consumer, execs, counters>>

Statuses == {"absent", "pending", "processing", "done", "failed"}
Phases   == {"idle", "claiming", "running"}

Init ==
  /\ deliveries = [u \in Updates |-> 0]
  /\ inserting = [u \in Updates |-> 0]
  /\ status = [u \in Updates |-> "absent"]
  /\ attempts = [u \in Updates |-> 0]
  /\ created = [u \in Updates |-> 0]
  /\ phase = [c \in Consumers |-> "idle"]
  /\ batch = [c \in Consumers |-> {}]
  /\ seen = [c \in Consumers |-> [u \in Updates |-> 0]]
  /\ tried = [c \in Consumers |-> FALSE]
  /\ replay = [c \in Consumers |-> {}]
  /\ execs = [u \in Updates |-> 0]
  /\ faults = 0
  /\ replays = 0

-----------------------------------------------------------------------------
\* The Worker

\* handleWebhook: answer 200 and leave enqueueUpdate running behind it.
HandleWebhook(u) ==
  /\ deliveries[u] < MaxDeliveries
  /\ deliveries' = [deliveries EXCEPT ![u] = @ + 1]
  /\ inserting' = [inserting EXCEPT ![u] = @ + 1]
  /\ UNCHANGED <<table, consumer, execs, counters>>

\* The unique update_id with resolution=ignore-duplicates: only the first
\* insert of an update creates its row.
MutInsertRow(u) == TRUE
InsertRow(u) == status[u] = "absent"

EnqueueUpdate(u) ==
  /\ inserting[u] > 0
  /\ inserting' = [inserting EXCEPT ![u] = @ - 1]
  /\ IF InsertRow(u)
     THEN /\ status' = [status EXCEPT ![u] = "pending"]
          /\ created' = [created EXCEPT ![u] =
                           1 + Cardinality({v \in Updates : created[v] # 0})]
     ELSE UNCHANGED <<status, created>>
  /\ UNCHANGED <<deliveries, attempts, consumer, execs, counters>>

\* The insert fails or times out: the error is logged and the update is gone,
\* although Telegram was told 200.
EnqueueLost(u) ==
  /\ inserting[u] > 0
  /\ inserting' = [inserting EXCEPT ![u] = @ - 1]
  /\ UNCHANGED <<deliveries, table, consumer, execs, counters>>

-----------------------------------------------------------------------------
\* A consumer

Pending == {u \in Updates : status[u] = "pending"}

\* order("created_at").limit(BATCH_SIZE)
MutNoLimit(rows) == rows
MutLimitFirst(rows) ==
  {u \in rows : Cardinality({v \in Updates : created[v] # 0 /\ created[v] < created[u]}) < BATCH_SIZE}
Oldest(rows) ==
  {u \in rows : Cardinality({v \in rows : created[v] < created[u]}) < BATCH_SIZE}

\* _claim_batch, first request.  With no pending row, or when the SELECT
\* fails, the loop sleeps and polls again: no step.
ReadCandidates(c) ==
  /\ phase[c] = "idle"
  /\ Pending # {}
  /\ phase' = [phase EXCEPT ![c] = "claiming"]
  /\ batch' = [batch EXCEPT ![c] = Oldest(Pending)]
  /\ seen' = [seen EXCEPT ![c] = [u \in Updates |->
                 IF u \in Oldest(Pending) THEN attempts[u] ELSE 0]]
  /\ UNCHANGED <<worker, table, tried, replay, execs, counters>>

\* .in_("id", ids).eq("status", "pending")
MutClaimAny(u) == status[u] # "absent"
Claimable(u) == status[u] = "pending"

Won(c) == {u \in batch[c] : Claimable(u)}

SetProcessing(rows) ==
  status' = [u \in Updates |-> IF u \in rows THEN "processing" ELSE status[u]]

\* The consumer holds `rows' from now on; with none left its iteration ends.
Hold(c, rows) ==
  /\ batch' = [batch EXCEPT ![c] = rows]
  /\ phase' = [phase EXCEPT ![c] = IF rows = {} THEN "idle" ELSE "running"]
  /\ seen' = [seen EXCEPT ![c] = [u \in Updates |-> IF u \in rows THEN @[u] ELSE 0]]

\* _claim_batch, second request, answered: only rows still pending are
\* claimed, and gather starts process_update on each of them, with the
\* attempts of the first request.
ClaimBatch(c) ==
  /\ phase[c] = "claiming"
  /\ SetProcessing(Won(c))
  /\ Hold(c, Won(c))
  /\ tried' = [tried EXCEPT ![c] = FALSE]
  /\ execs' = [u \in Updates |-> IF u \in Won(c) THEN execs[u] + 1 ELSE execs[u]]
  /\ UNCHANGED <<worker, attempts, created, replay, counters>>

\* The claim is applied and its answer lost.  A dead connection replays the
\* UPDATE once (the consumer stays in "claiming"); any other error ends the
\* iteration.
ClaimAnswerLost(c) ==
  /\ phase[c] = "claiming"
  /\ faults < MaxFaults
  /\ faults' = faults + 1
  /\ SetProcessing(Won(c))
  /\ \/ /\ ~tried[c]
        /\ tried' = [tried EXCEPT ![c] = TRUE]
        /\ UNCHANGED <<phase, batch, seen>>
     \/ /\ tried' = [tried EXCEPT ![c] = FALSE]
        /\ Hold(c, {})
  /\ UNCHANGED <<worker, attempts, created, replay, execs, replays>>

\* The claim is not applied and its error is not a dead connection.
ClaimFails(c) ==
  /\ phase[c] = "claiming"
  /\ faults < MaxFaults
  /\ faults' = faults + 1
  /\ tried' = [tried EXCEPT ![c] = FALSE]
  /\ Hold(c, {})
  /\ UNCHANGED <<worker, table, replay, execs, replays>>

\* A task of the batch may step: it runs, and its process is not blocked in
\* the replay of another request.
MayStep(c, u) == phase[c] = "running" /\ u \in batch[c] /\ replay[c] = {}

DoneStatus == "done"

\* process_update returns and _mark_done is applied.
MarkDone(c, u) ==
  /\ MayStep(c, u)
  /\ status' = [status EXCEPT ![u] = DoneStatus]
  /\ Hold(c, batch[c] \ {u})
  /\ UNCHANGED <<worker, attempts, created, tried, replay, execs, counters>>

MutGiveUpEarly(n) == IF n + 2 >= MAX_ATTEMPTS THEN "failed" ELSE "pending"
MutGiveUpLate(n) == IF n > MAX_ATTEMPTS THEN "failed" ELSE "pending"
NextStatus(n) == IF n + 1 >= MAX_ATTEMPTS THEN "failed" ELSE "pending"

\* The UPDATE of _mark_failed: filtered by id only, from the attempts the
\* consumer read before it claimed.
WriteFailure(c, u) ==
  /\ status' = [status EXCEPT ![u] = NextStatus(seen[c][u])]
  /\ attempts' = [attempts EXCEPT ![u] = seen[c][u] + 1]
  /\ UNCHANGED created

\* process_update raises and _mark_failed is applied.
MarkFailed(c, u) ==
  /\ MayStep(c, u)
  /\ WriteFailure(c, u)
  /\ Hold(c, batch[c] \ {u})
  /\ UNCHANGED <<worker, tried, replay, execs, counters>>

\* _mark_done or _mark_failed fails: both swallow the error, so the row
\* stays 'processing' and nobody holds it.
MarkLost(c, u) ==
  /\ MayStep(c, u)
  /\ faults < MaxFaults
  /\ faults' = faults + 1
  /\ Hold(c, batch[c] \ {u})
  /\ UNCHANGED <<worker, table, tried, replay, execs, replays>>

\* _mark_failed is applied, the connection dies before the answer, and the
\* client is about to send the same UPDATE again.
MarkFailedAnswerLost(c, u) ==
  /\ MayStep(c, u)
  /\ replays < MaxReplays
  /\ replays' = replays + 1
  /\ WriteFailure(c, u)
  /\ replay' = [replay EXCEPT ![c] = {u}]
  /\ UNCHANGED <<worker, phase, batch, seen, tried, execs, faults>>

\* The replay writes the same values once more, whatever became of the row.
ReplayMarkFailed(c, u) ==
  /\ u \in replay[c]
  /\ WriteFailure(c, u)
  /\ replay' = [replay EXCEPT ![c] = {}]
  /\ Hold(c, batch[c] \ {u})
  /\ UNCHANGED <<worker, tried, execs, counters>>

\* The process dies, or shutdown cancels the loop (CancelledError is not an
\* Exception, so neither handler marks anything), and a new process starts
\* with an empty loop.  Nothing returns its rows to 'pending'.
Crash(c) ==
  /\ phase[c] # "idle"
  /\ faults < MaxFaults
  /\ faults' = faults + 1
  /\ Hold(c, {})
  /\ tried' = [tried EXCEPT ![c] = FALSE]
  /\ replay' = [replay EXCEPT ![c] = {}]
  /\ UNCHANGED <<worker, table, execs, replays>>

-----------------------------------------------------------------------------
WorkerStep(u) == HandleWebhook(u) \/ EnqueueUpdate(u) \/ EnqueueLost(u)

Claiming(c) == ReadCandidates(c) \/ ClaimBatch(c)

TaskEnds(c, u) == MarkDone(c, u) \/ MarkFailed(c, u) \/ ReplayMarkFailed(c, u)

Fault(c) == \/ ClaimAnswerLost(c) \/ ClaimFails(c) \/ Crash(c)
            \/ \E u \in Updates : MarkLost(c, u) \/ MarkFailedAnswerLost(c, u)

Next == \/ \E u \in Updates : WorkerStep(u)
        \/ \E c \in Consumers : \/ Claiming(c)
                                \/ Fault(c)
                                \/ \E u \in Updates : TaskEnds(c, u)

Spec == Init /\ [][Next]_vars

\* The loop never stops (queue_consumer_loop catches every Exception), and
\* every call process_update makes has a timeout, so each task ends.
Fairness == \A c \in Consumers :
              /\ WF_vars(Claiming(c))
              /\ \A u \in Updates : WF_vars(TaskEnds(c, u))

FairSpec == Spec /\ Fairness
-----------------------------------------------------------------------------
TypeOK ==
  /\ deliveries \in [Updates -> 0..MaxDeliveries]
  /\ inserting \in [Updates -> 0..MaxDeliveries]
  /\ status \in [Updates -> Statuses]
  /\ attempts \in [Updates -> 0..MAX_ATTEMPTS]
  /\ created \in [Updates -> Nat]
  /\ phase \in [Consumers -> Phases]
  /\ batch \in [Consumers -> SUBSET Updates]
  /\ seen \in [Consumers -> [Updates -> 0..(MAX_ATTEMPTS - 1)]]
  /\ tried \in [Consumers -> BOOLEAN]
  /\ replay \in [Consumers -> SUBSET Updates]
  /\ execs \in [Updates -> Nat]
  /\ faults \in 0..MaxFaults
  /\ replays \in 0..MaxReplays

\* c's process runs process_update on u (a task whose outcome is being
\* replayed has finished running).
Runs(c, u) == phase[c] = "running" /\ u \in batch[c] \ replay[c]

Held(u) == \E c \in Consumers : Runs(c, u)

\* u is claimed in the table but no process works on it.
Stranded(u) == status[u] = "processing" /\ ~Held(u)

(***************************************************************************)
(* "nobody processes the same row twice" (_claim_batch's docstring): two   *)
(* consumers never run process_update on the same row at the same time,    *)
(* however their SELECTs and UPDATEs interleave.                           *)
(***************************************************************************)
ExclusiveProcessing ==
  \A c, d \in Consumers, u \in Updates : Runs(c, u) /\ Runs(d, u) => c = d

(***************************************************************************)
(* A row that is done or failed never returns to the queue: neither a      *)
(* repeated webhook delivery nor a late claim nor a late _mark_failed,     *)
(* which filters by id only, reopens it.                                   *)
(***************************************************************************)
Settled(u) == status[u] \in {"done", "failed"}

SettledIsFinal ==
  [][\A u \in Updates : Settled(u) => status'[u] = status[u]]_vars

(***************************************************************************)
(* Each crash or lost write strands at most one batch, however many rows   *)
(* wait: without a reaper of 'processing' rows (there is none) this is     *)
(* what a fault costs.                                                     *)
(***************************************************************************)
StrandedBounded ==
  Cardinality({u \in Updates : Stranded(u)}) <= BATCH_SIZE * faults

(***************************************************************************)
(* A row is failed only after MAX_ATTEMPTS executions, although _mark_failed*)
(* counts from an attempts value read before the claim.                    *)
(***************************************************************************)
FailedOnlyAfterMaxAttempts ==
  \A u \in Updates : status[u] = "failed" => execs[u] >= MAX_ATTEMPTS

(***************************************************************************)
(* "after how many failed attempts an update is marked failed and no       *)
(* longer picked up" (MAX_ATTEMPTS): no update is executed more often.     *)
(* This holds of one consumer; two can lose a count to a stale SELECT.     *)
(***************************************************************************)
ExecutionsBounded == \A u \in Updates : execs[u] <= MAX_ATTEMPTS

(***************************************************************************)
(* Every row that is in the table is eventually done, failed or stranded   *)
(* by a fault: a row that a batch leaves out does not wait for ever behind *)
(* older rows, failing ones included (each execution ends: its calls have  *)
(* timeouts).                                                              *)
(***************************************************************************)
EventuallySettled ==
  \A u \in Updates : status[u] = "pending" ~> Settled(u) \/ Stranded(u)

-----------------------------------------------------------------------------
Stage(u) == IF status[u] = "absent" THEN "new"
            ELSE IF status[u] = "pending" THEN "queued"
            ELSE IF status[u] = "processing" THEN (IF Held(u) THEN "held" ELSE "stuck")
            ELSE status[u]

Abs == INSTANCE UpdateQueueAbs WITH state <- [u \in Updates |-> Stage(u)],
                                    runs <- execs

\* The queue implements what UpdateQueueAbs promises of each update.
ImplementsAbs == Abs!Spec
=============================================================================
