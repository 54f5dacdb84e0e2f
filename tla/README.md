# Ceyona in TLA+

Ceyona is a Telegram assistant. A Cloudflare Worker (`src/ceyona-worker/worker.js`)
is the only part that talks to Telegram; a Python process in a Hugging Face Space
(`src/project-root`, "HF" below) does the thinking; the two meet only in Supabase
tables. This directory models the parts of it where concurrency, failures and
money meet, checks them with TLC on small instances, and proves some of the
results with TLAPS for every instance.

    Telegram -> Worker /webhook -> pending_updates -> queue_consumer_loop
                                                        |  process_update
    Telegram <- Worker drainOutbox <- outbox <----------+  (balance, EPK, models, billing)
    TON chain -> wallet poll loop -> balance table  <---+
    album photos -> Redis buffer -> key expiry -> _flush -> the same pipeline

## 1. Inventory

| component | state | operations | what is hard | what makes it correct |
|---|---|---|---|---|
| Inbound queue: `handleWebhook`, `enqueueUpdate`, `queue_consumer.py` | `pending_updates` (status, attempts, created_at), each consumer's batch | insert, claim in two requests, mark done, mark failed | overlapping consumers, attempts read before the claim, lost answers, replays, crashes between claim and mark, repeated deliveries | one processor per row, no early failure, no reopening, bounded loss, progress |
| Outbox: `_send_message`, `_post_via_worker`, `drainOutbox`, `sendOutboxRow`, `markOutboxRow` | `outbox` (status, retry_count, next_retry_at), each drain's batch | insert (with replay and plain-text second insert), claim, send, mark, backoff | concurrent drains, a timeout after Telegram accepted, marks that fail silently, drains only when somebody writes | one sender per row, duplicates only after a lost answer, final outcomes, progress |
| Money: `AccessController`, `WalletManager`, `ton_client.py` | balance rows, `processed_transactions`, the chain | get, create default, credit, deduct, poll, mark | absolute writes from earlier reads, a balance read long before the charge, a payment credited and marked in two requests, errors answered with a default | conservation, no payment lost, bounded double credit, charges refused only for a reason |
| Albums: `media_group_aggregator.py`, `_on_group_ready` | three Redis keys per album, listeners, running flushes | add, expiry, flush, callback, resubscribe | an event published once, every instance hears it, late and edited photos, crashes after the flush deleted the buffer | one callback per album, no photo lost, taken or buffered twice, progress |
| Admission: `cost_model.py`, `execution_policy_kernel.py`, `decision_matrix.py`, the gate in `_run_pipeline` | none between requests | estimate, evaluate, select tier, bill | thresholds that must meet, tiers estimated and executed at different rates | no HEAVY by accident, an admitted request can pay |
| Retrying client: `supabase_client.py` | connection | replay once | a replay is applied twice | seen through the queue and the outbox |
| Media: photos, albums and voice in `update_handler.py`, `vision_handler.py`, `speech_to_text.py`, `attachment.py` | one request | load or download, describe, transcribe | retries, a file that was stored or was not, batches that fail alone | every way out is told to the user |
| Pipeline: `Orchestrator.run`, `safety_gate.py`, `multilingual_preprocessor.py`, `retrieval_engine.py`, `intent_engine.py`, `web_tools.py`, transformer and shaper | one request, its metrics | safety passes, history, memory, intent, tools, gates, admission, preparation for HEAVY | timeouts that lose answers, partial results, messages built twice | what the gates passed is what the answering model saw |
| Coordinator: `multi_agent_coordinator.py`, agents, `fallback_handler.py`, `safety_agent.py` | one answer with its verdict | primary, validators, judge, revision, fallback | which of several texts goes out and who read it | nothing blocked goes out |
| Billing: metrics of the paths, `process_update` 629-760 | the sums of one result | collect, add up, deduct | six sums, each on some paths only | each call once |
| Rate limiter, conversation history, low-balance flag | a sorted set, a table and a key per user | pipeline, append, trim, clear, set, publish | concurrent updates of one user, background handlers, errors that are swallowed | window kept, order of the conversation, a fresh warning after a payment |
| Memories, query cache, event log, e-mail, usage log | tables and keys | written by one side only | | no reader or no writer in the running program: section 5 |
| Text (intents, prompts, synthesis, i18n), HTTP routes, settings, metrics | none that the above depends on | | | not modelled: wording and input/output |

`PROJECT.json` lists every component with its status and every hazard with its line.

## 2. Modules

| module | models | checked by | proofs |
|---|---|---|---|
| `UpdateQueueAbs` | what the queue promises about one update | refined by `UpdateQueue` | |
| `UpdateQueue` | Worker's webhook and the consumers | `MCUpdateQueue` | `UpdateQueueProofs`, `UpdateQueueExclusive` |
| `OutboxAbs` | what the outbox promises about one reply | refined by `Outbox` | |
| `Outbox` | the replies' way to Telegram | `MCOutbox` | `OutboxProofs` |
| `LedgerAbs` | accounts that change in single steps | refined by `Ledger` | |
| `Ledger` | balances, requests and the wallet loop | `MCLedger` | `LedgerProofs` |
| `MediaGroup` | one album | `MCMediaGroup` | `MediaGroupProofs` |
| `CostModel` | prices, as operators | through `Kernel` | |
| `Kernel` | estimate, EPK and tier selection, as operators | through `Admission`, `Request` | |
| `Admission` | the economic gate of one request | `MCAdmission` | `AdmissionProofs` |
| `RequestState` | the state of one request, shared by its stages | through `Request` | |
| `IntentEngine` | routing of the intents, as operators | through `Request` | |
| `Media` | photos, albums, speech to text | through `Request` | |
| `Grounding` | safety gate, history, memory, intent, tools, gates, admission, preparation for HEAVY | through `Request` | |
| `Agents` | coordinator, judge, revision, fallback chain | through `Request` | |
| `Execution` | the execution paths, their costs, synthesis, history save, vision fast path | through `Request` | |
| `Request` | the stages composed, speech synthesis, billing sums, reply | `MCRequest` | `RequestProofs` |
| `Session` | several updates of one user: rate limiter, history, low-balance flag | `MCSession` | `SessionProofs` |

The modules of a request are layers: `RequestState` extends `Kernel`, and `IntentEngine`,
`Media`, `Grounding`, `Agents`, `Execution` and `Request` extend one another in this order. Three
modules meet the same request from three sides: `UpdateQueue` runs it and knows only whether it
raised, `Request` knows what it calls and bills, and `Ledger` and `Session` know what it does to
the state that outlives it.

### UpdateQueue

`status`, `attempts` and `created` are columns of `pending_updates`. A consumer is
`idle`, has read candidates and is `claiming`, or is `running` its `batch`; `seen`
keeps the attempts of the SELECT, which `_mark_failed` counts from. One action
is one request to Supabase, because the client is synchronous: `ReadCandidates`
and `ClaimBatch` are the two of `_claim_batch`; `MarkDone`, `MarkFailed` end a task of the
gather. The failures are actions of their own: the insert is lost after the 200
(`EnqueueLost`), a claim is applied and its answer lost, with or without the
client's replay (`ClaimAnswerLost`), it fails (`ClaimFails`), a mark is swallowed
(`MarkLost`), the answer of a `_mark_failed` is lost and the UPDATE sent again
(`MarkFailedAnswerLost`, `ReplayMarkFailed`), the process ends (`Crash`; shutdown cancels
the loop, and `CancelledError` passes both handlers). An applied claim followed by a
lost answer strands rows, for there is no reaper. What an update does is abstracted to success or an exception.

The replay of a `_mark_done` is left out: it writes `done` over whatever the row
has become, but a row marked done is claimed by nobody, so the second write changes nothing.

### Outbox

A reply becomes up to four rows, one for each INSERT request `_send_message` can
make (Markdown, its replay, plain text, its replay). `backoff` stands for
`next_retry_at` in the future and ends by `BackoffEnds`. Telegram's answers are six classes; a row
that Telegram cannot parse as Markdown gets the second call without
`parse_mode` in the same action, for nothing that another drain could
see happens in between. `accepted` and `lost` are histories: what the user sees, and how often an answer
went astray on the reply's way. Supabase's Database Webhook calls `/outbox/drain` once for each
insert, without retry, and nothing else does: `calls` counts the calls no drain has answered
to yet. A row's own insert adds one (`AddRow`), and so do the replies to other users (`OtherInsert`,
which the environment may take or not); a call is consumed by a drain that finds rows (`ReadReady`) or none
(`ReadNothing`), and it or the drain's read may fail (`CallLost`).

### Ledger

A task is a request or a process's wallet loop. All of `get_balance`, `_create_default`,
`credit`, `deduct`, `_is_processed` and `_mark_processed` are requests of the
synchronous client, so a task that is in one of the `Blocking` steps stops every other task of its
process (`LoopFree`); tasks interleave at `awaiting` (the models), `pricing` and between
payments. `purpose` says what a `get_balance` is for, so that the SELECT, the
creation of the default and their failures are written once. `earned`,
`spent`, `credits`, `charged`, `refused`, `overtaken` and `blind` are histories the properties need.
The cost of a served request is any of `Costs`: how it is summed is the subject of `Request`.

`IsProcessed` answers `TRUE` or `FALSE` for a payment that is not marked, with no fault: what `maybe_single()` makes
of an empty SELECT depends on the client. An answer without data lets the payment through; None or
a raised 406, for which `get_balance` provides, ends in the `except` and skips it. Properties of the ledger hold
either way, and nothing is promised about a payment being credited at all.

`LedgerAbs` is what a user may rely on: one account that changes in single steps, whatever requests `Ledger` makes for
them. It promises nothing about a user whose balance was once misread (`blind`), for then the code writes over it.

### MediaGroup

The two Lua scripts are atomic actions, the Redis expiry is
`SentinelExpires`, heard by the instances listening at that moment. `flushes` counts
`_flush` calls an instance is about to make. The lock of `_LUA_FLUSH` is taken and deleted in one script and
therefore never seen. `late` and `forgot` name the situations
in which the code promises less: a photo after the window, and seen ids that expired
before a stranded list. A callback ends by returning, when the user got a reply or an error
message (`CallbackReturns`, `answered`), or by raising, when he got nothing (`CallbackRaises`, `dropped`). An album of 2 to
`MAX_GROUP_IMAGES` photos raises as soon as one photo could be loaded (section 6), and returns only if none could.
`AnsweredOnce`, `NoPhotoLost` and `EventuallyHandled` are therefore about callbacks, not about replies.
What the callback does with an album is in `Media` and `Request`.

### CostModel and Admission

Every rate is a whole number of nano-dollars per token, so the prices are exact
natural numbers; rounding of the floats (far below a nano-dollar) is left out. `Admission` takes
a request through `Estimate`, `Evaluate`, `SelectTier` and `Execute`, and bills the
tokens that were estimated: the question is whether the prices fit, not how many tokens a model uses.

### Request and its stages

`pc` names the stage that comes next; one action is one stage, which is one awaited call or the
code between two of them. The code of a request is sequential, so what is explored is not
interleaving but every combination of outcomes: a call the program counts (`Calls`) is `Answered`,
`Unanswered` (it failed and is not charged) or `AnsweredLate` (it was charged, but whoever waits
has given up, or only half of a split batch came back). Everything else that may fail is `Fails`.
`MaxFaults` bounds the failures of a request; outcomes that are no failures (an empty text, a
verdict, no hit) are free.

* `text` is the set of parts the user message is put together from, so that a caption can be told
  from a description and from an error text; `prompt` is the grounding in the messages and
  `answer.saw` what of it the answering model was given, which differ after a 413. `profile.context` keeps
  what the gates looked at, for the messages are built again after them.
* `answer.verdict` is the verdict of the judge, or of the lite judge of the degraded path, on the very text in
  `answer`: every new text (`Speaks`) comes with no verdict, and one that nobody reads keeps none.
* `made` and `late` are histories of the calls; `result.slots` are the six sums that
  `process_update` reads from the `OrchestratorResult`, each a set of calls; `billed` counts in how many
  of the sums a call stands.
* `profile` is what admission and preparation computed. The token counts are given (`SizesUsed`), and the kernel
  is the same operators that `Admission` is proved about.
* `history` is what the request did to the conversation, `sent` what the user was sent.
* Photos, albums and voice messages differ in where they enter: `pc` starts at the kind of the
  update. `handle_message` returns before the pipeline for a file that could not be used (`ReturnDenied`);
  the pipeline's own denials go through the tail of `run()` (`PipelineDenies`).
* The wording the synthesizer replaces is abstracted to what the user gets: the answer, a notice
  or nothing (`Sayings`). Consensus has one validator; the compound models of the agents have no
  fallback chain.

### Session

Updates of one user in the order they were sent (`Kinds`), claimed in batches whose tasks run
concurrently. `BatchEnded` is the `gather`: no batch starts before the last has ended. One action
is what a task does between two awaits: the Redis pipeline of the rate limiter, the synchronous
calls of the history, billing with the balance read after it, the flag, the warning. `stamp` is the time an update
read in `is_allowed` and the score of its entry; `saved` and `wrong` are
histories of what was ever stored and of Supabase errors the code swallowed. The two
turns of an answer are one action, because nothing is awaited between the two
synchronous inserts; each may fail alone. `flag.asof` is the number of payments
when the flag's balance was read, `tasks` the background handlers that `publish` has created, `uncleared` that one of
them failed. How an answer comes about and what it costs is left to `Request` and `Ledger`.

## 3. Runs

| run | bounds | what it shows |
|---|---|---|
| `queue_overlap` | 2 consumers, 2 updates, 2 deliveries each, 2 attempts, batch 2, 1 fault | exclusive processing, no early failure, refinement (hence settled is final) |
| `queue_one_consumer` | 1 consumer, 3 updates, batch 2, 2 attempts, 1 fault, 1 replayed failure | executions bounded by `MAX_ATTEMPTS`, one batch stranded per fault, progress past a batch that fails |
| `outbox_drains` | 1 reply with invalid Markdown, 2 drains, batch 1, 1 retry, 2 faults, others' inserts | one sender per row, copies bounded by lost answers, progress as long as inserts keep coming, refinement (hence final outcomes) |
| `ledger_one_process` | 1 user, 2 messages, 2 payments, window 1, 1 fault | conservation, no payment lost, credits bounded by faults, refusals explained, refinement |
| `album` | 2 photos (one edited), 2 instances, full at 2, 1 fault | one callback, no photo lost or doubled, a flush in sight, progress |
| `admission` | token counts on both sides of every threshold, 9 balances | tiers and prices fit |
| `request` | text, voice (stored or not), photo (stored or not, with and without caption), albums of 1, 2 and 7; 3 balances, 6 sizes, 9 intents, 1 fault; 2 million states | billing agrees with the calls, nothing blocked goes out, what the gates passed is what the model saw, no silent end |
| `session` | 3 messages and a `/clear`, batches of 2, 2 requests per 2 time units, 3 turns of history, 1 payment, 1 fault; 860 000 states | the window, the conversation and the warning |
| `queue_replayed_failure` | as `queue_overlap`, 1 replay | finding, section 6 |
| `outbox_early_retry` | 2 retries, no fault | finding |
| `ledger_double_credit` | no requests, 1 fault | finding |
| `ledger_free_ride` | no fault | finding |

Why the bounds suffice. Two consumers and two rows give every interleaving of two
claims with marks, repeated deliveries and a fault; a third consumer adds none that a pair
does not show, for the guards of a claim concern one row and one other claimer. Two
attempts tell the first failure from the last. With three rows and batches of two the LIMIT leaves a row out:
a fault must not strand it with the others, and two rows that fail again and again must not keep it waiting, which is
why stranding and progress are checked there and not with two rows. In the outbox a batch of one does the same for the second row
of the reply. A lost answer needs one fault, and the outbox
run has two so that an insert and a send can both go wrong.
`RefusalNeedsOverlap` and `NoFreeRides` need two messages of one user and a default balance
of twice the estimate; `WINDOW = 1` lets a payment leave the window. Two photos fill an album of
size two, so that both flush triggers race. Every threshold of `Admission` has its neighbours in
`MCInputTokens`.

In `request` the sizes are one for each way through the kernel (ALLOW on FAST and on GENERAL,
DEGRADED_MODE, HEAVY_REQUIRED) and through transformer and shaper (untouched, compressed locally,
summarized); the balances pay nothing, a FAST answer only, or anything; the intents are those the
profile and the label decide on, QUESTION, and EXAM, the one intent that is answered by consensus. The
remaining intents differ from these in routing values that already occur. Albums
of 1, 2 and 7 are the three branches of `handle_vision_group`. Most stages look at
one call's outcome, so one failure at each place, together with the free outcomes, reaches every branch but those that need two
calls to be lost; with `MaxFaults = 2` (ten million states) the properties hold as well.
In `session` RPM and batch size are 2, so that one batch fills the window and the next one is
denied or, a tick later, admitted; the `/clear` stands between messages, so that it has some
before it, some after it and one beside it. `BUDGET = 3` cuts a turn pair in half.

The names `MaxDeliveries`, `MaxFaults`, `MaxReplays`, `MaxArrivals`, `MaxTime`, `MaxPayments`, `MaxCalls` and
`MAX_CHUNKS` (chunks of a voice reply) are the bounds on what the environment does; nothing else is
capped. `session` turns the deadlock check off because the system comes to rest when all updates are
done; `request` keeps it on: a request that has ended stutters (`Ended`), every other one can go on.

A definition whose name begins with `Mut` differs from the one after it by one plausible bug
and is not used by the specifications: it documents what a property catches.

### Fairness

* UpdateQueue: weak fairness of each consumer's claim and of each task's end.
  `queue_consumer_loop` catches every `Exception` and never returns; the calls
  of `process_update` have timeouts. Nothing is assumed of the Worker or of faults.
* Outbox: weak fairness of each drain that was called and of each send, which have timeouts, and of the end
  of a backoff. No fairness makes anybody insert: a drain needs a call, and `OtherInsert` may never happen. There is no
  cron, so a row in backoff waits for ever if nobody writes, and `EventuallyOut` says what is true: if there are
  calls again and again, the row gets out (`worker.js`: "triggered by the next real message").
* Ledger: none. Only safety is stated of it, for a client may have every payment skipped (section 6).
* MediaGroup: Redis expires keys, a created task runs, the supervisor subscribes
  again after an error, the callback's calls have timeouts. Photos need not come.
* Request and Session state none either: a request is a finite sequence of calls with timeouts, so that
  it ends is the absence of deadlock, and what it must have done by then is an invariant (`NoSilentEnd`).

## 4. Proofs

Every safety invariant and every action property of the passing runs is a theorem, and so are the three
refinements. Each holds for all values of the constants that satisfy the modules' `ConstantsAssumption`;
further assumptions are named in the statement. Few of the properties are inductive as they stand; the invariants
named below add what is missing.

* **UpdateQueueProofs**, for any number of consumers, faults and replays. `TypeCorrect` and
  `FailedOnlyAfterMaxAttemptsAlways`: that `attempts` stays below the maximum for a pending row depends on what
  consumers carry in `seen`. `Inv` adds that a row's attempts and every copy of them count executions that
  have begun (`AttemptsCount`, `SeenCount`), and that a replay belongs to a running consumer.
  `StrandedBoundedAlways` needs that no consumer holds more than a batch (`BatchLimited`), which rests on the LIMIT of
  the SELECT: rows are numbered in the order of their inserts (`CreatedInOrder`), and of numbered rows at most
  `BATCH_SIZE` have fewer than `BATCH_SIZE` before them (the lemma `LimitBounds`).
* **UpdateQueueExclusive.** Under `NoReplayRace` (no `_mark_failed` is replayed, or there
  is one consumer): `ExclusiveProcessingAlways`, `SettledIsFinalAlways` and
  `ImplementsAbsAlways`. `XInv` adds that a row is in the batch of at most one running consumer and is
  then `processing`, and that a replay repeats what the table holds. The assumption is
  necessary: `queue_replayed_failure` is its counterexample. The refinement follows from the lemma
  that each step moves every update along its abstract life. Under `OneConsumer`:
  `ExecutionsBoundedAlways`, because then `attempts` and what the consumer read of them are
  the executions themselves (`ExecutionsCounted`); two consumers can lose a count.
* **OutboxProofs**, for any replies, drains, retries and faults. `TypeCorrect`, `ExclusiveSendingAlways` and
  `OutcomeIsFinalAlways` from `HInv`, which adds that rows of requests yet to come do not exist and that only finitely
  many do. `CopiesBoundedAlways`: the INSERT still to be made and each row that is alive are a *chance* to
  be accepted, and copies and chances together never exceed one more than the lost answers (`CopiesCounted`).
  `ImplementsAbsAlways`: every step of drains and inserts is one of `OutboxAbs` or none of it. A claim is a `Take`, a claim not heard of and
  an invocation that ends are a `Strand`, and an attempt is a `Deliver` or a `Reject` of the one row it is about. It needs `CopiesCounted`
  for the guard of `Deliver`, and that a reply has a row and a request left only after a loss (`SecondAfterLoss`).
* **LedgerProofs.** `TypeCorrect` (no balance becomes negative) and `NoPaymentLostAlways` for any number
  of processes: `Inv` says where a wallet loop can stand with which payment. The others assume
  `OneProcess`. `ConservationAlways`: `CInv` adds that one task at most blocks the
  process (`OneBlocks`) and that what it has read is still there (`Knows`), which is
  why absolute writes are sound in one process. With two processes they are not.
  `CreditsBoundedAlways`: a payment that is about to be credited is not marked, and one not marked after
  its credits owes them to faults (`CreditsCounted`). `RefusalNeedsOverlapAlways`: until `deduct` decides, the balance a
  request was admitted on is still there, unless another charge or a blind read came between (`Funded`).
  `ImplementsAbsAlways`: an account of `LedgerAbs` is what `get_balance` would answer (`Worth`), so creating the default row
  is a stutter; the writes of `credit` and `deduct` are its `Credit` and `Charge`, because what they were computed from is
  still the account (`Knows`), and a marked payment adds nothing because none is about to be credited (`CreditsCounted`). `AInv`
  adds that a request is billed at most once, on a cost the code can arrive at (`Decided`).
* **MediaGroupProofs**, for any photos, instances, limits and faults. `GInv` adds to the five properties that what was
  taken and what is buffered never exceed the arrivals (`TakenCounted`), that photos all in time
  find no earlier part of their album (`OnePart`), that the seen ids are those of the buffer
  (`SeenBuffered`), and that without a fault every instance listens (`AllListen`).
* **AdmissionProofs**, for any token counts and balances. `AllowNeverHeavyAlways`: the EPK allows an estimate of exactly
  USD 0.006, which the matrix sends to HEAVY, but all rates are multiples of
  25 nano-dollars and the fixed safety estimate is not, so no request has that estimate.
  `AdmittedCanPayAlways`: by `DueWithinEstimate` the execution tier never costs more than the estimate,
  but for a short message whose retrieval alone lifts it out of the FAST band.
  `EstimateMonotoneAlways`: across the change of tier at 300 tokens the dearer rate comes with the
  longer message, and the output's share grows with the input until its cap. Nothing is needed of the state but its types.
* **RequestProofs**, for any updates, balances, intents, sizes and number of failing calls. The stages are
  sequential, so the invariant says for each stage what a request holds when it gets there. `RInv` has one conjunct per subject:
  where the text came from (`Heard`, `Counting`), what the profile says was done was charged (`Profiled`, `Degraded`), whoever is
  past the gates has the context they saw, less what was lost since (`Grounded`),
  whose text the coordinator holds and what the judges said of it (`Judged`),
  what became of it (`Settled`), what is in each sum, at most and at least (`Slotted`, `Summed`), and that the bill is
  nothing or these sums (`Billed`). One lemma per conjunct shows that every stage preserves it; `BlockedNeverDeliveredAlways`,
  `GroundingKeptAlways`, `NoSilentEndAlways`, `NothingBilledTwiceAlways`, `AnswerIsPaidAlways` and `TypeCorrect` then follow
  without another look at the steps.
* **SessionProofs**, for any updates, limits, batches, payments and faults. `WarnedAgainAlways`: `WInv` adds only that
  the handlers are counted. `SInv` gives `TypeCorrect`: batches are claimed in the order of the updates, each when
  the one before it has ended (`InBatches`), and `Placed` says what the place of an update tells of it. `RateLimitedAlways` needs
  that an admitted update whose entry was pruned has left every window still to be counted (`Limited`), though each update prunes
  at its own time. `ConversationInOrderAlways` needs that whose turns are stored was answered (`Said`).

Only model-checked: the three liveness properties `EventuallySettled`, `EventuallyOut` and
`EventuallyHandled`, for temporal properties under fairness, which rest on ENABLED, are out of the
prover's reach; and that `Request` does not deadlock. The four properties of the runs that expect a violation are false.

## 5. Not modelled

* The content of anything: prompts, patterns of intents, wording, scores and their fusion, the
  output normalizer (`meta/`) beyond the fact that it may leave nothing, translations.
* External services, which appear as outcomes of a call, and the HTTP of their clients.
* Authentication, encryption, routes, settings, health checks, environment validation and metrics: they keep no state
  that the models need. Commands other than `/clear` and `/reset_memory`, and callbacks, only send a text.
* Code the running program never reaches: `QueryCache.get` and `set`, `VectorMemory.remember`,
  `SupabaseStore.insert`, `consensus_engine.resolve`, the mathematical verification of the orchestrator, the e-mail
  addressee of the notifier. Memories are therefore only read (`SearchMemories` lets them exist, as rows of an earlier
  version may), and the cache scan of `/reset_memory` finds nothing.
* The usage log, the event log and its replay: they are written beside a request and read by no part of it.
* A retry of an update after it was billed: `process_update` swallows what goes wrong
  after its effects, so it raises, in practice, only before them.

## 6. Findings

* `queue_replayed_failure`: with two consumers the replay of a `_mark_failed` reopens a row
  that another consumer has claimed, against `_claim_batch`'s docstring. Harmless today: there is one consumer, but for
  the overlap of two containers at a deployment.
* `outbox_early_retry`: the claim does not repeat the filter on `next_retry_at`, so a drain with an older read
  retries a row during its backoff.
* `ledger_double_credit`: credit and mark are two requests, and a failed mark is swallowed: a payment is credited twice.
  It takes a client whose `maybe_single()` answers an empty SELECT with an answer without data, as the tests mock it
  (`tests/test_coverage_gap4.py:702`). `pyproject.toml:24` allows clients that return None or raise instead; with these
  `_is_processed` answers True for every payment that is not marked, and none is ever credited.
* `ledger_free_ride`: two overlapping messages are admitted on one balance, the second charge is refused,
  its result ignored and the reply delivered.

The properties of `Request` and `Session` hold only up to exceptions. Each stands by name in the
property or in `Leaks`, and each is something the code does:

* *Billing.* Never billed: validators, the vision calls of the pipeline, the classifier and the
  extractors of the tools (not even counted), a draft replaced by its revision, the judge on
  DEGRADED_MODE, the normalisation on HEAVY_REQUIRED (`webhook.py:675` skips it as contained in the cost, but
  `_run_heavy` does not add it), the seconds of a stored voice message when the service does not report them,
  an empty transcript, chunks of a speech that was given up, and everything on albums and early denials. Billed twice: an
  accepted revision (in the primary sum and in its own). Billed for nothing: the fast path takes USD 0.001
  for an error text. The guard of the billing block ignores speech. The block for compound models
  (`webhook.py:703-728`) is never entered, as no intent prefers one of them.
* *Safety.* A failed revision sends the draft that the judge wanted revised; an accepted revision and, but for the degraded
  path, a fallback agent's answer and the rule-based one are read by no judge; a judge that cannot be reached lets everything pass.
  `multi_agent_coordinator.py:636` says "every path has post-check" and `architecture.md:693-694` that every answer passes one, without
  exceptions: `BlockedNeverDelivered` names exactly the texts for which this is not so.
* *Grounding.* Memory keeps the tools from being asked, so a question about live data may pass the truth gate on
  memories; a tool's text that nothing was found is context to it as well. `_run_heavy`
  builds the messages again without what a tool found, and the truncation after a 413 drops the context. A user with an empty balance who asks for live data is told it is unavailable, not that the balance is empty.
* *Vision.* A captioned photo's description never reaches a model: the message is the caption,
  and `vision_context` is used only by the answerability gate. The text of an error, or the notice that an album is too large,
  enters the pipeline as if it were a description (albums of 1 and of more than 6).
  `handle_vision_group` ends without a return for 2 to 6 photos: reading `failed` of its None raises in
  `_on_group_ready`, and the album is never answered.
* *Coordinator.* When every agent of a consensus fails, `_rev_in` is unbound and the pipeline denies with
  `internal_error`, although `coordinate` guarantees a text. `deep_agent.run` is not given the tier,
  so DEEP answers on GENERAL even on HEAVY_REQUIRED.
* *Outbox.* `architecture_reality.md:161` lets a drain read all ready rows; the code reads 20, and rows beyond wait for the next call.
* *Silence.* A voice message that cannot be fetched is answered with an empty text, and so is an answer of mere markup.
  A recording without a pause counts as silent, for `is_silent` looks for the end of a silence.
* *Session.* `/clear` and `/reset_memory` report success even if the deletion failed; an append
  that fails loses one turn of a pair; a history that cannot be read is answered without and still remembered; the messages of
  one batch are answered without each other. Denied requests count in the window.

## 7. Plan

Done so far: the queue, the outbox, the ledger, albums and admission; a request as a whole, and the session of a user;
the safety properties of all of them proved for every value of the constants. Left:

1. `Delivery`: UpdateQueue and Outbox composed: one update, at most as many replies as executions and lost answers.
2. The rates of speech, compound, multilingual and safety models in `CostModel`, and with them the amounts of `Request`.
