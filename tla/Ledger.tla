------------------------------- MODULE Ledger -------------------------------
(***************************************************************************)
(* The money: a user's prepaid balance is one row of the users' balance    *)
(* table.  The wallet poll loop credits it with TON payments, and each     *)
(* request reads it, is admitted or denied on what it read, is served by   *)
(* slow model calls, and is charged when the answer is there.  Balances    *)
(* are read and written by separate requests to Supabase, as absolute      *)
(* values.                                                                 *)
(*                                                                         *)
(* The Supabase client is synchronous: the task that makes a request       *)
(* blocks the event loop of its process until the answer, and goes on      *)
(* without letting any other task of the process run.  Tasks of a process  *)
(* interleave only where one awaits something else (the models, the price  *)
(* of TON, the next poll).  Tasks of two processes interleave everywhere.  *)
(* Amounts of USD are natural numbers of some small unit.                  *)
(***************************************************************************)
EXTENDS Naturals, FiniteSets

CONSTANTS
  Users,
  Requests,   \* messages, each executed once (a stranded row is not rerun)
  Owner,      \* the user of each request
  Txs,        \* payments to the platform's wallet
  Payer,      \* the user named by each payment's comment, or Nobody
  Usd,        \* what each payment is worth
  Processes,  \* HF Space processes
  Nobody,     \* the payer of a payment whose comment names no user
  Estimate,   \* estimated cost of a request, as the EPK sees it
  Costs,      \* what serving a request can really cost
  DEFAULT,    \* _DEFAULT_BALANCE_USD
  WINDOW,     \* get_transactions(limit)
  MaxFaults   \* bound: failed Supabase requests, lost answers, crashes

ASSUME ConstantsAssumption ==
  /\ Owner \in [Requests -> Users]
  /\ Payer \in [Txs -> Users \cup {Nobody}]
  /\ Nobody \notin Users
  /\ IsFiniteSet(Txs)
  /\ Usd \in [Txs -> Nat]
  /\ Estimate \in Nat
  /\ Costs \subseteq Nat
  /\ DEFAULT \in Nat
  /\ WINDOW \in Nat \ {0}
  /\ MaxFaults \in Nat
  /\ Requests \cap Processes = {}

\* One task per request, and one per process for its wallet poll loop.
Tasks == Requests \cup Processes

VARIABLES
  rows,         \* users that have a balance row
  balance,      \* balance_usd of those rows
  processed,    \* processed_transactions
  height,       \* position of each payment on the chain (0: not there yet)
  pc,           \* where each task stands
  purpose,      \* what its get_balance is for
  home,         \* the process that runs each request
  got,          \* what its last get_balance returned
  admittedOn,   \* user_balance of each request: the balance it was admitted on
  cost,         \* what each request really cost
  todo,         \* payments of the running process_incoming still to look at
  tx,           \* the payment it is at
  credits,      \* how often each payment was credited
  earned,       \* all that was credited to each user
  spent,        \* all that was deducted from each user
  charged,      \* requests whose cost was deducted
  refused,      \* requests whose deduct found the balance too small
  overtaken,    \* requests during which the user was charged for another one
  blind,        \* users for whom a get_balance answered DEFAULT in error
  faults        \* faults so far

table   == <<rows, balance, processed>>
control == <<pc, purpose>>
request == <<home, admittedOn, cost>>
wallet  == <<todo, tx>>
history == <<credits, earned, spent, charged, refused, overtaken, blind>>
vars    == <<table, height, control, request, got, wallet, history, faults>>

\* "idle", "awaiting", "pricing" and "over" let other tasks of the process
\* run; in the other steps the task blocks its process.
Steps    == {"idle", "awaiting", "pricing", "over",
             "select", "create", "got", "mark"}
Blocking == {"select", "create", "got", "mark"}
Purposes == {"none", "admit", "charge", "warn", "credit", "notify"}

Init ==
  /\ rows = {}
  /\ balance = [u \in Users |-> 0]
  /\ processed = {}
  /\ height = [t \in Txs |-> 0]
  /\ pc = [k \in Tasks |-> "idle"]
  /\ purpose = [k \in Tasks |-> "none"]
  /\ home \in [Requests -> Processes]
  /\ got = [k \in Tasks |-> 0]
  /\ admittedOn = [r \in Requests |-> 0]
  /\ cost = [r \in Requests |-> 0]
  /\ todo = [p \in Processes |-> {}]
  /\ tx \in [Processes -> Txs]
  /\ \A p, q \in Processes : tx[p] = tx[q]
  /\ credits = [t \in Txs |-> 0]
  /\ earned = [u \in Users |-> 0]
  /\ spent = [u \in Users |-> 0]
  /\ charged = {}
  /\ refused = {}
  /\ overtaken = {}
  /\ blind = {}
  /\ faults = 0

FaultHappens == faults < MaxFaults /\ faults' = faults + 1

ProcessOf(k) == IF k \in Requests THEN home[k] ELSE k
UserOf(k)    == IF k \in Requests THEN Owner[k] ELSE Payer[tx[k]]

\* No task of k's process blocks it.
LoopFree(k) == \A j \in Tasks : ProcessOf(j) = ProcessOf(k) => pc[j] \notin Blocking

Goto(k, step) == pc' = [pc EXCEPT ![k] = step]

\* Begin a get_balance for the purpose why.
GetBalance(k, why) ==
  /\ Goto(k, "select")
  /\ purpose' = [purpose EXCEPT ![k] = why]

-----------------------------------------------------------------------------
\* AccessController.get_balance and _create_default

Answer(k, amount) ==
  /\ Goto(k, "got")
  /\ got' = [got EXCEPT ![k] = amount]

BalanceFound(k) ==
  /\ pc[k] = "select"
  /\ UserOf(k) \in rows
  /\ Answer(k, balance[UserOf(k)])
  /\ UNCHANGED <<table, height, purpose, request, wallet, history, faults>>

BalanceMissing(k) ==
  /\ pc[k] = "select"
  /\ UserOf(k) \notin rows
  /\ Goto(k, "create")
  /\ UNCHANGED <<table, height, purpose, request, got, wallet, history, faults>>

\* The SELECT fails: the caller is told the default balance.
BalanceUnread(k) ==
  /\ pc[k] = "select"
  /\ FaultHappens
  /\ Answer(k, DEFAULT)
  /\ blind' = blind \cup {UserOf(k)}
  /\ UNCHANGED <<table, height, purpose, request, wallet,
                 credits, earned, spent, charged, refused, overtaken>>

\* _create_default; when another process has created the row the INSERT is
\* refused and the error swallowed.
DefaultCreated(k) ==
  /\ pc[k] = "create"
  /\ rows' = rows \cup {UserOf(k)}
  /\ balance' = IF UserOf(k) \in rows THEN balance
                ELSE [balance EXCEPT ![UserOf(k)] = DEFAULT]
  /\ Answer(k, DEFAULT)
  /\ UNCHANGED <<processed, height, purpose, request, wallet, history, faults>>

DefaultNotCreated(k) ==
  /\ pc[k] = "create"
  /\ FaultHappens
  /\ Answer(k, DEFAULT)
  /\ UNCHANGED <<table, height, purpose, request, wallet, history>>

GetBalanceStep(k) == BalanceFound(k) \/ BalanceMissing(k) \/ DefaultCreated(k)

-----------------------------------------------------------------------------
\* process_update: one request

StartRequest(r) ==
  /\ pc[r] = "idle"
  /\ LoopFree(r)
  /\ GetBalance(r, "admit")
  /\ UNCHANGED <<table, height, request, got, wallet, history, faults>>

\* ExecutionPolicyKernel.evaluate: DENY or not.
Denied(amount) == amount = 0 \/ Estimate > amount

\* The EPK decides on the balance read here, however late it is asked.  A
\* denied request costs nothing and ends with the low-balance check.
Admit(r) ==
  /\ pc[r] = "got" /\ purpose[r] = "admit"
  /\ admittedOn' = [admittedOn EXCEPT ![r] = got[r]]
  /\ IF Denied(got[r])
     THEN GetBalance(r, "warn")
     ELSE Goto(r, "awaiting") /\ UNCHANGED purpose
  /\ UNCHANGED <<table, height, home, cost, got, wallet, history, faults>>

\* handle_message returns; a request that cost nothing is not billed.
Served(r) ==
  /\ pc[r] = "awaiting"
  /\ LoopFree(r)
  /\ \E c \in Costs :
       /\ cost' = [cost EXCEPT ![r] = c]
       /\ GetBalance(r, IF c > 0 THEN "charge" ELSE "warn")
  /\ UNCHANGED <<table, height, home, admittedOn, got, wallet, history, faults>>

\* handle_message raises: the user is told so and nothing is billed.
ServeCrashed(r) ==
  /\ pc[r] = "awaiting"
  /\ LoopFree(r)
  /\ Goto(r, "over")
  /\ UNCHANGED <<table, height, purpose, request, got, wallet, history, faults>>

MutTooSmall(r) == got[r] <= cost[r]
MutNoCheck(r) == FALSE
TooSmall(r) == got[r] < cost[r]

\* The balance the new one is computed from.
MutChargeBase(r) == admittedOn[r]
ChargeBase(r) == got[r]

\* Requests of r's owner that were admitted and are not billed yet.
InFlight(r) == {q \in Requests \ {r} : /\ Owner[q] = Owner[r]
                                       /\ pc[q] # "idle" /\ pc[q] # "over"
                                       /\ purpose[q] \in {"admit", "charge"}}

\* The UPDATE of deduct: no effect without a row.
WriteDeduction(r) ==
  IF Owner[r] \in rows
  THEN /\ balance' = [balance EXCEPT ![Owner[r]] = ChargeBase(r) - cost[r]]
       /\ spent' = [spent EXCEPT ![Owner[r]] = @ + cost[r]]
       /\ charged' = charged \cup {r}
       /\ overtaken' = overtaken \cup InFlight(r)
  ELSE UNCHANGED <<balance, spent, charged, overtaken>>

Charging(r) == pc[r] = "got" /\ purpose[r] = "charge"

\* deduct refuses: process_update ignores the result and delivers the reply.
\* (UsageMeter.record then logs the usage, whatever deduct returned; nothing
\* reads usage_log back.)
DeductRefused(r) ==
  /\ Charging(r)
  /\ TooSmall(r)
  /\ refused' = refused \cup {r}
  /\ GetBalance(r, "warn")
  /\ UNCHANGED <<table, height, request, got, wallet,
                 credits, earned, spent, charged, overtaken, blind, faults>>

Deduct(r) ==
  /\ Charging(r)
  /\ ~TooSmall(r)
  /\ WriteDeduction(r)
  /\ GetBalance(r, "warn")
  /\ UNCHANGED <<rows, processed, height, request, got, wallet,
                 credits, earned, refused, blind, faults>>

\* The UPDATE answers an error, applied or not.
DeductFails(r) ==
  /\ Charging(r)
  /\ ~TooSmall(r)
  /\ FaultHappens
  /\ WriteDeduction(r) \/ UNCHANGED <<balance, spent, charged, overtaken>>
  /\ GetBalance(r, "warn")
  /\ UNCHANGED <<rows, processed, height, request, got, wallet,
                 credits, earned, refused, blind>>

\* The low-balance check is made and the reply handed to the outbox.
Reply(r) ==
  /\ pc[r] = "got" /\ purpose[r] = "warn"
  /\ Goto(r, "over")
  /\ UNCHANGED <<table, height, purpose, request, got, wallet, history, faults>>

-----------------------------------------------------------------------------
\* WalletManager.process_incoming, polled by the wallet loop

Arrived == {t \in Txs : height[t] > 0}

\* A payment appears on the chain.
PaymentArrives(t) ==
  /\ height[t] = 0
  /\ height' = [height EXCEPT ![t] = 1 + Cardinality(Arrived)]
  /\ UNCHANGED <<table, control, request, got, wallet, history, faults>>

\* The newest WINDOW payments.
Recent == {t \in Arrived : Cardinality({s \in Arrived : height[s] > height[t]}) < WINDOW}

\* A failed get_transactions answers an empty list: no step.
Poll(p) ==
  /\ pc[p] = "idle"
  /\ todo[p] = {}
  /\ Recent # {}
  /\ LoopFree(p)
  /\ todo' = [todo EXCEPT ![p] = Recent]
  /\ UNCHANGED <<table, height, control, request, got, tx, history, faults>>

\* process_incoming is through with payment t.
NextPayment(p, t) ==
  /\ Goto(p, "idle")
  /\ todo' = [todo EXCEPT ![p] = @ \ {t}]

AtPayment(p, t) == pc[p] = "idle" /\ t \in todo[p] /\ LoopFree(p)

\* What _is_processed may answer.  A failed SELECT is answered True, and so is
\* a SELECT without a row when the client's maybe_single() then returns None
\* or raises its 406 (the case get_balance provides for): only a client that
\* returns an answer without data lets a new payment through.
MutIsProcessed(t) == {FALSE}
IsProcessed(t) == IF t \in processed THEN {TRUE} ELSE {TRUE, FALSE}

SkipProcessed(p, t) ==
  /\ AtPayment(p, t)
  /\ TRUE \in IsProcessed(t)
  /\ NextPayment(p, t)
  /\ UNCHANGED <<table, height, purpose, request, got, tx, history, faults>>

\* A new payment: without a user it is only marked, else its price is asked.
TakePayment(p, t) ==
  /\ AtPayment(p, t)
  /\ FALSE \in IsProcessed(t)
  /\ tx' = [tx EXCEPT ![p] = t]
  /\ Goto(p, IF Payer[t] = Nobody THEN "mark" ELSE "pricing")
  /\ UNCHANGED <<table, height, purpose, request, got, todo, history, faults>>

\* nano_to_usd returns; a payment worth nothing is skipped, unmarked.
Priced(p) ==
  /\ pc[p] = "pricing"
  /\ LoopFree(p)
  /\ IF Usd[tx[p]] > 0
     THEN GetBalance(p, "credit") /\ UNCHANGED todo
     ELSE NextPayment(p, tx[p]) /\ UNCHANGED purpose
  /\ UNCHANGED <<table, height, request, got, tx, history, faults>>

\* The upsert of credit.
WriteCredit(p) ==
  LET u == UserOf(p)
  IN /\ rows' = rows \cup {u}
     /\ balance' = [balance EXCEPT ![u] = got[p] + Usd[tx[p]]]
     /\ earned' = [earned EXCEPT ![u] = @ + Usd[tx[p]]]
     /\ credits' = [credits EXCEPT ![tx[p]] = @ + 1]

Crediting(p) == pc[p] = "got" /\ purpose[p] = "credit"

Credit(p) ==
  /\ Crediting(p)
  /\ WriteCredit(p)
  /\ Goto(p, "mark")
  /\ UNCHANGED <<processed, height, purpose, request, got, wallet,
                 spent, charged, refused, overtaken, blind, faults>>

MutUnmarked == "mark"
Unmarked == "idle"

\* The upsert answers an error, applied or not: credit returns False and the
\* payment is not marked.
CreditFails(p) ==
  /\ Crediting(p)
  /\ FaultHappens
  /\ WriteCredit(p) \/ UNCHANGED <<rows, balance, earned, credits>>
  /\ Goto(p, Unmarked)
  /\ todo' = [todo EXCEPT ![p] = @ \ {tx[p]}]
  /\ UNCHANGED <<processed, height, purpose, request, got, tx,
                 spent, charged, refused, overtaken, blind>>

\* After the mark the event's payload needs the new balance.
AfterMark(p) ==
  IF Payer[tx[p]] = Nobody
  THEN NextPayment(p, tx[p]) /\ UNCHANGED purpose
  ELSE GetBalance(p, "notify") /\ UNCHANGED todo

MarkProcessed(p) ==
  /\ pc[p] = "mark"
  /\ processed' = processed \cup {tx[p]}
  /\ AfterMark(p)
  /\ UNCHANGED <<rows, balance, height, request, got, tx, history, faults>>

\* _mark_processed swallows the error of its INSERT.
MarkFails(p) ==
  /\ pc[p] = "mark"
  /\ FaultHappens
  /\ AfterMark(p)
  /\ UNCHANGED <<table, height, request, got, tx, history>>

Notify(p) ==
  /\ pc[p] = "got" /\ purpose[p] = "notify"
  /\ NextPayment(p, tx[p])
  /\ UNCHANGED <<table, height, purpose, request, got, tx, history, faults>>

-----------------------------------------------------------------------------
\* The process dies: its requests are never executed again, its wallet loop
\* starts anew.
Crash(p) ==
  /\ \E k \in Tasks : ProcessOf(k) = p /\ pc[k] \notin {"idle", "over"}
  /\ FaultHappens
  /\ pc' = [k \in Tasks |-> IF k = p THEN "idle"
                            ELSE IF ProcessOf(k) = p /\ pc[k] # "idle" THEN "over"
                            ELSE pc[k]]
  /\ todo' = [todo EXCEPT ![p] = {}]
  /\ UNCHANGED <<table, height, purpose, request, got, tx, history>>

RequestStep(r) == \/ StartRequest(r) \/ Admit(r) \/ Served(r) \/ ServeCrashed(r)
                  \/ DeductRefused(r) \/ Deduct(r) \/ Reply(r)

WalletStep(p) == \/ Poll(p) \/ Priced(p) \/ Credit(p) \/ MarkProcessed(p) \/ Notify(p)
                 \/ \E t \in Txs : SkipProcessed(p, t) \/ TakePayment(p, t)

Fault == \/ \E k \in Tasks : BalanceUnread(k) \/ DefaultNotCreated(k)
         \/ \E r \in Requests : DeductFails(r)
         \/ \E p \in Processes : CreditFails(p) \/ MarkFails(p) \/ Crash(p)

Next == \/ \E k \in Tasks : GetBalanceStep(k)
        \/ \E r \in Requests : RequestStep(r)
        \/ \E p \in Processes : WalletStep(p)
        \/ \E t \in Txs : PaymentArrives(t)
        \/ Fault

Spec == Init /\ [][Next]_vars
-----------------------------------------------------------------------------
TypeOK ==
  /\ rows \subseteq Users
  /\ balance \in [Users -> Nat]
  /\ processed \subseteq Txs
  /\ height \in [Txs -> Nat]
  /\ pc \in [Tasks -> Steps]
  /\ purpose \in [Tasks -> Purposes]
  /\ home \in [Requests -> Processes]
  /\ got \in [Tasks -> Nat]
  /\ admittedOn \in [Requests -> Nat]
  /\ cost \in [Requests -> Nat]
  /\ todo \in [Processes -> SUBSET Txs]
  /\ tx \in [Processes -> Txs]
  /\ credits \in [Txs -> Nat]
  /\ earned \in [Users -> Nat]
  /\ spent \in [Users -> Nat]
  /\ charged \subseteq Requests
  /\ refused \subseteq Requests
  /\ overtaken \subseteq Requests
  /\ blind \subseteq Users
  /\ faults \in 0..MaxFaults

(***************************************************************************)
(* No money is lost or made in one process: whatever requests and payments *)
(* interleave, and wherever the process dies, a balance is the default     *)
(* plus all credits minus all charges, although every write is an absolute *)
(* value computed from an earlier read.  The exception is a user for whom  *)
(* a get_balance failed: credit and deduct then write over the real        *)
(* balance a value computed from the default one.                          *)
(***************************************************************************)
Conservation ==
  \A u \in rows \ blind : balance[u] + spent[u] = DEFAULT + earned[u]

(***************************************************************************)
(* A payment of a known user is marked processed only after it was         *)
(* credited: no crash and no failed write makes the platform forget it.    *)
(***************************************************************************)
NoPaymentLost ==
  \A t \in processed : Payer[t] # Nobody => credits[t] > 0

(***************************************************************************)
(* Within one process a payment is credited again only after a fault: the  *)
(* poll loop looks at each payment in every poll, and only its mark keeps  *)
(* it from being credited.                                                 *)
(***************************************************************************)
CreditsBounded == \A t \in Txs : credits[t] <= 1 + faults

(***************************************************************************)
(* "deduplicates" (WalletManager): no payment is credited twice.           *)
(***************************************************************************)
CreditedOnce == \A t \in Txs : credits[t] <= 1

(***************************************************************************)
(* "NO FREE RIDES" (economic.md): a request that was served at a cost is   *)
(* charged.                                                                *)
(***************************************************************************)
NoFreeRides ==
  \A r \in Requests : pc[r] = "over" /\ cost[r] > 0 => r \in charged

(***************************************************************************)
(* A served request goes unpaid for want of balance only if it cost more   *)
(* than the balance it was admitted on, or the user was charged for        *)
(* another message meanwhile (or a balance could not be read).             *)
(***************************************************************************)
RefusalNeedsOverlap ==
  \A r \in refused : \/ cost[r] > admittedOn[r]
                     \/ r \in overtaken
                     \/ Owner[r] \in blind

\* What a get_balance of u would answer, if it is not in error.
Worth(u) == IF u \in rows THEN balance[u] ELSE DEFAULT

Abs == INSTANCE LedgerAbs WITH account <- [u \in Users |-> Worth(u)],
                               settled <- processed,
                               misread <- blind

(***************************************************************************)
(* In one process get_balance, credit, deduct and process_incoming amount  *)
(* to an account that changes in single steps, although each of them is    *)
(* several requests to Supabase and writes absolute values.                *)
(***************************************************************************)
ImplementsAbs == Abs!Spec
=============================================================================
