-------------------------- MODULE UpdateQueueProofs -------------------------
(***************************************************************************)
(* What holds of the pending_updates queue for any updates, consumers,     *)
(* batch size and number of attempts, and for any faults.                  *)
(***************************************************************************)
EXTENDS UpdateQueue, FiniteSetTheorems, TLAPS

\* A delivery is counted before its insert begins.
DeliveriesCover == \A u \in Updates : inserting[u] <= deliveries[u]

\* A row's attempts, and every copy of them a consumer works with, count
\* executions that have begun; a row in the queue has attempts left.
AttemptsCount ==
  \A u \in Updates :
    /\ attempts[u] <= execs[u]
    /\ status[u] = "absent" => attempts[u] = 0
    /\ status[u] = "pending" => attempts[u] < MAX_ATTEMPTS

SeenCount ==
  \A c \in Consumers : \A u \in batch[c] :
    /\ phase[c] = "claiming" => seen[c][u] <= execs[u]
    /\ phase[c] = "running" => seen[c][u] < execs[u]

\* Only a consumer that runs its batch replays, and only for its own rows.
ReplaysRun ==
  \A c \in Consumers : replay[c] # {} => phase[c] = "running" /\ replay[c] \subseteq batch[c]

Inv == /\ TypeOK
       /\ DeliveriesCover
       /\ AttemptsCount
       /\ SeenCount
       /\ ReplaysRun
       /\ FailedOnlyAfterMaxAttempts

\* An empty table and idle consumers satisfy the invariant.
LEMMA InitInv == Init => Inv
  BY ConstantsAssumption
  DEF Init, Inv, TypeOK, DeliveriesCover, AttemptsCount, SeenCount, ReplaysRun,
      FailedOnlyAfterMaxAttempts, Statuses, Phases

\* The rows inserted so far can be counted.
LEMMA CreatedType == Cardinality({v \in Updates : created[v] # 0}) \in Nat
  <1>1. {v \in Updates : created[v] # 0} \subseteq Updates
    OBVIOUS
  <1> QED
    BY <1>1, ConstantsAssumption, FS_Subset, FS_CardinalityType

\* What a consumer holds is typed.
LEMMA HoldType ==
  ASSUME TypeOK, NEW c \in Consumers, NEW rows \in SUBSET Updates, Hold(c, rows)
  PROVE  /\ batch' \in [Consumers -> SUBSET Updates]
         /\ phase' \in [Consumers -> Phases]
         /\ seen' \in [Consumers -> [Updates -> 0..(MAX_ATTEMPTS - 1)]]
  <1>1. batch' \in [Consumers -> SUBSET Updates] /\ phase' \in [Consumers -> Phases]
    BY DEF TypeOK, Hold, Phases
  <1>2. [u \in Updates |-> IF u \in rows THEN seen[c][u] ELSE 0]
          \in [Updates -> 0..(MAX_ATTEMPTS - 1)]
    BY ConstantsAssumption DEF TypeOK
  <1> QED
    BY <1>1, <1>2 DEF TypeOK, Hold

\* Every step of the Worker, of a consumer and every fault preserves the invariant.
LEMMA NextInv == Inv /\ [Next]_vars => Inv'
  <1> SUFFICES ASSUME Inv, [Next]_vars PROVE Inv'
    OBVIOUS
  <1> USE ConstantsAssumption DEF Inv, table, worker, consumer, counters
  <1>1. ASSUME NEW u \in Updates, HandleWebhook(u)
        PROVE  Inv'
    <2> USE <1>1 DEF HandleWebhook
    <2>1. TypeOK'
      BY DEF TypeOK, Statuses, Phases, NextStatus, AttemptsCount, DeliveriesCover, ReplaysRun
    <2>2. DeliveriesCover' /\ ReplaysRun'
      BY DEF TypeOK, DeliveriesCover, ReplaysRun
    <2>3. AttemptsCount'
      BY DEF TypeOK, AttemptsCount, SeenCount, NextStatus, ReplaysRun
    <2>4. SeenCount'
      BY DEF TypeOK, AttemptsCount, SeenCount, Won, Claimable
    <2>5. FailedOnlyAfterMaxAttempts'
      BY DEF TypeOK, AttemptsCount, SeenCount, NextStatus, ReplaysRun, FailedOnlyAfterMaxAttempts
    <2> QED
      BY <2>1, <2>2, <2>3, <2>4, <2>5
  <1>2. ASSUME NEW u \in Updates, EnqueueUpdate(u)
        PROVE  Inv'
    <2> USE <1>2 DEF EnqueueUpdate, InsertRow
    <2>1. TypeOK'
      <3>1. inserting' \in [Updates -> 0..MaxDeliveries]
        BY DEF TypeOK
      <3>2. status' \in [Updates -> Statuses] /\ created' \in [Updates -> Nat]
        BY CreatedType DEF TypeOK, Statuses
      <3> QED
        BY <3>1, <3>2 DEF TypeOK
    <2>2. DeliveriesCover' /\ ReplaysRun'
      BY DEF TypeOK, DeliveriesCover, ReplaysRun
    <2>3. AttemptsCount'
      BY DEF TypeOK, AttemptsCount, SeenCount, NextStatus, ReplaysRun
    <2>4. SeenCount'
      BY DEF TypeOK, AttemptsCount, SeenCount, Won, Claimable
    <2>5. FailedOnlyAfterMaxAttempts'
      BY DEF TypeOK, AttemptsCount, SeenCount, NextStatus, ReplaysRun, FailedOnlyAfterMaxAttempts
    <2> QED
      BY <2>1, <2>2, <2>3, <2>4, <2>5
  <1>3. ASSUME NEW u \in Updates, EnqueueLost(u)
        PROVE  Inv'
    <2> USE <1>3 DEF EnqueueLost
    <2>1. TypeOK'
      BY DEF TypeOK, Statuses, Phases, NextStatus, AttemptsCount, DeliveriesCover, ReplaysRun
    <2>2. DeliveriesCover' /\ ReplaysRun'
      BY DEF TypeOK, DeliveriesCover, ReplaysRun
    <2>3. AttemptsCount'
      BY DEF TypeOK, AttemptsCount, SeenCount, NextStatus, ReplaysRun
    <2>4. SeenCount'
      BY DEF TypeOK, AttemptsCount, SeenCount, Won, Claimable
    <2>5. FailedOnlyAfterMaxAttempts'
      BY DEF TypeOK, AttemptsCount, SeenCount, NextStatus, ReplaysRun, FailedOnlyAfterMaxAttempts
    <2> QED
      BY <2>1, <2>2, <2>3, <2>4, <2>5
  <1>4. ASSUME NEW c \in Consumers, ReadCandidates(c)
        PROVE  Inv'
    <2> USE <1>4 DEF ReadCandidates
    <2>0. Oldest(Pending) \in SUBSET Pending /\ Pending \in SUBSET Updates
      BY DEF Pending, Oldest
    <2>1. TypeOK'
      <3>1. [u \in Updates |-> IF u \in Oldest(Pending) THEN attempts[u] ELSE 0]
              \in [Updates -> 0..(MAX_ATTEMPTS - 1)]
        BY <2>0 DEF TypeOK, AttemptsCount, Pending
      <3>2. batch' \in [Consumers -> SUBSET Updates] /\ phase' \in [Consumers -> Phases]
        BY <2>0 DEF TypeOK, Phases
      <3>3. seen' \in [Consumers -> [Updates -> 0..(MAX_ATTEMPTS - 1)]]
        BY <3>1 DEF TypeOK
      <3> QED
        BY <3>2, <3>3 DEF TypeOK
    <2>2. DeliveriesCover' /\ ReplaysRun'
      BY DEF TypeOK, DeliveriesCover, ReplaysRun
    <2>3. AttemptsCount'
      BY DEF TypeOK, AttemptsCount, SeenCount, NextStatus, ReplaysRun
    <2>4. SeenCount'
      BY <2>0 DEF TypeOK, AttemptsCount, SeenCount
    <2>5. FailedOnlyAfterMaxAttempts'
      BY DEF TypeOK, AttemptsCount, SeenCount, NextStatus, ReplaysRun, FailedOnlyAfterMaxAttempts
    <2> QED
      BY <2>1, <2>2, <2>3, <2>4, <2>5
  <1>5. ASSUME NEW c \in Consumers, ClaimBatch(c)
        PROVE  Inv'
    <2> USE <1>5 DEF ClaimBatch, SetProcessing, Hold
    <2>1. TypeOK'
      <3>1. Won(c) \in SUBSET Updates
        BY DEF TypeOK, Won
      <3>2. status' \in [Updates -> Statuses] /\ execs' \in [Updates -> Nat]
        BY DEF TypeOK, Statuses
      <3>3. Hold(c, Won(c))
        OBVIOUS
      <3>4. /\ batch' \in [Consumers -> SUBSET Updates]
            /\ phase' \in [Consumers -> Phases]
            /\ seen' \in [Consumers -> [Updates -> 0..(MAX_ATTEMPTS - 1)]]
        BY <3>1, <3>3, HoldType DEF TypeOK
      <3> QED
        BY <3>2, <3>4 DEF TypeOK
    <2>2. DeliveriesCover' /\ ReplaysRun'
      BY DEF TypeOK, DeliveriesCover, ReplaysRun
    <2>3. AttemptsCount'
      BY DEF TypeOK, AttemptsCount, SeenCount, NextStatus, ReplaysRun
    <2>4. SeenCount'
      BY DEF TypeOK, AttemptsCount, SeenCount, Won, Claimable
    <2>5. FailedOnlyAfterMaxAttempts'
      BY DEF TypeOK, AttemptsCount, SeenCount, NextStatus, ReplaysRun, FailedOnlyAfterMaxAttempts
    <2> QED
      BY <2>1, <2>2, <2>3, <2>4, <2>5
  <1>6. ASSUME NEW c \in Consumers, ClaimAnswerLost(c)
        PROVE  Inv'
    <2> USE <1>6 DEF ClaimAnswerLost, SetProcessing, Hold
    <2>1. TypeOK'
      <3>1. status' \in [Updates -> Statuses] /\ tried' \in [Consumers -> BOOLEAN]
        BY DEF TypeOK, Statuses
      <3>2. /\ batch' \in [Consumers -> SUBSET Updates]
            /\ phase' \in [Consumers -> Phases]
            /\ seen' \in [Consumers -> [Updates -> 0..(MAX_ATTEMPTS - 1)]]
        <4> HIDE DEF Hold
        <4>1. CASE Hold(c, {})
          BY <4>1, HoldType
        <4>2. CASE UNCHANGED <<phase, batch, seen>>
          BY <4>2 DEF TypeOK
        <4> QED
          BY <4>1, <4>2
      <3> QED
        BY <3>1, <3>2 DEF TypeOK
    <2>2. DeliveriesCover' /\ ReplaysRun'
      BY DEF TypeOK, DeliveriesCover, ReplaysRun
    <2>3. AttemptsCount'
      BY DEF TypeOK, AttemptsCount, SeenCount, NextStatus, ReplaysRun
    <2>4. SeenCount'
      BY DEF TypeOK, AttemptsCount, SeenCount, Won, Claimable
    <2>5. FailedOnlyAfterMaxAttempts'
      BY DEF TypeOK, AttemptsCount, SeenCount, NextStatus, ReplaysRun, FailedOnlyAfterMaxAttempts
    <2> QED
      BY <2>1, <2>2, <2>3, <2>4, <2>5
  <1>7. ASSUME NEW c \in Consumers, ClaimFails(c)
        PROVE  Inv'
    <2> USE <1>7 DEF ClaimFails, Hold
    <2>1. TypeOK'
      BY DEF TypeOK, Statuses, Phases, NextStatus, AttemptsCount, DeliveriesCover, ReplaysRun
    <2>2. DeliveriesCover' /\ ReplaysRun'
      BY DEF TypeOK, DeliveriesCover, ReplaysRun
    <2>3. AttemptsCount'
      BY DEF TypeOK, AttemptsCount, SeenCount, NextStatus, ReplaysRun
    <2>4. SeenCount'
      BY DEF TypeOK, AttemptsCount, SeenCount, Won, Claimable
    <2>5. FailedOnlyAfterMaxAttempts'
      BY DEF TypeOK, AttemptsCount, SeenCount, NextStatus, ReplaysRun, FailedOnlyAfterMaxAttempts
    <2> QED
      BY <2>1, <2>2, <2>3, <2>4, <2>5
  <1>8. ASSUME NEW c \in Consumers, Crash(c)
        PROVE  Inv'
    <2> USE <1>8 DEF Crash, Hold
    <2>1. TypeOK'
      BY DEF TypeOK, Statuses, Phases, NextStatus, AttemptsCount, DeliveriesCover, ReplaysRun
    <2>2. DeliveriesCover' /\ ReplaysRun'
      BY DEF TypeOK, DeliveriesCover, ReplaysRun
    <2>3. AttemptsCount'
      BY DEF TypeOK, AttemptsCount, SeenCount, NextStatus, ReplaysRun
    <2>4. SeenCount'
      BY DEF TypeOK, AttemptsCount, SeenCount, Won, Claimable
    <2>5. FailedOnlyAfterMaxAttempts'
      BY DEF TypeOK, AttemptsCount, SeenCount, NextStatus, ReplaysRun, FailedOnlyAfterMaxAttempts
    <2> QED
      BY <2>1, <2>2, <2>3, <2>4, <2>5
  <1>9. ASSUME NEW c \in Consumers, NEW u \in Updates, MarkDone(c, u)
        PROVE  Inv'
    <2> USE <1>9 DEF MarkDone, MayStep, DoneStatus, Hold
    <2>1. TypeOK'
      BY DEF TypeOK, Statuses, Phases, NextStatus, AttemptsCount, DeliveriesCover, ReplaysRun
    <2>2. DeliveriesCover' /\ ReplaysRun'
      BY DEF TypeOK, DeliveriesCover, ReplaysRun
    <2>3. AttemptsCount'
      BY DEF TypeOK, AttemptsCount, SeenCount, NextStatus, ReplaysRun
    <2>4. SeenCount'
      BY DEF TypeOK, AttemptsCount, SeenCount, Won, Claimable
    <2>5. FailedOnlyAfterMaxAttempts'
      BY DEF TypeOK, AttemptsCount, SeenCount, NextStatus, ReplaysRun, FailedOnlyAfterMaxAttempts
    <2> QED
      BY <2>1, <2>2, <2>3, <2>4, <2>5
  <1>10. ASSUME NEW c \in Consumers, NEW u \in Updates, MarkFailed(c, u)
        PROVE  Inv'
    <2> USE <1>10 DEF MarkFailed, MayStep, WriteFailure, Hold
    <2>1. TypeOK'
      BY DEF TypeOK, Statuses, Phases, NextStatus, AttemptsCount, DeliveriesCover, ReplaysRun
    <2>2. DeliveriesCover' /\ ReplaysRun'
      BY DEF TypeOK, DeliveriesCover, ReplaysRun
    <2>3. AttemptsCount'
      BY DEF TypeOK, AttemptsCount, SeenCount, NextStatus, ReplaysRun
    <2>4. SeenCount'
      BY DEF TypeOK, AttemptsCount, SeenCount, Won, Claimable
    <2>5. FailedOnlyAfterMaxAttempts'
      BY DEF TypeOK, AttemptsCount, SeenCount, NextStatus, ReplaysRun, FailedOnlyAfterMaxAttempts
    <2> QED
      BY <2>1, <2>2, <2>3, <2>4, <2>5
  <1>11. ASSUME NEW c \in Consumers, NEW u \in Updates, ReplayMarkFailed(c, u)
        PROVE  Inv'
    <2> USE <1>11 DEF ReplayMarkFailed, WriteFailure, Hold
    <2>1. TypeOK'
      BY DEF TypeOK, Statuses, Phases, NextStatus, AttemptsCount, DeliveriesCover, ReplaysRun
    <2>2. DeliveriesCover' /\ ReplaysRun'
      BY DEF TypeOK, DeliveriesCover, ReplaysRun
    <2>3. AttemptsCount'
      BY DEF TypeOK, AttemptsCount, SeenCount, NextStatus, ReplaysRun
    <2>4. SeenCount'
      <3>1. /\ phase[c] = "running" /\ execs' = execs
            /\ batch' = [batch EXCEPT ![c] = batch[c] \ {u}]
            /\ phase'[c] \in {"idle", "running"}
            /\ \A d \in Consumers \ {c} : phase'[d] = phase[d] /\ seen'[d] = seen[d]
            /\ \A v \in batch'[c] : seen'[c][v] = seen[c][v]
        BY DEF TypeOK, ReplaysRun
      <3>2. SUFFICES ASSUME NEW d \in Consumers, NEW v \in batch'[d]
                     PROVE  /\ phase'[d] = "claiming" => seen'[d][v] <= execs'[v]
                            /\ phase'[d] = "running" => seen'[d][v] < execs'[v]
        BY DEF SeenCount
      <3>3. v \in batch[d]
        BY <3>1 DEF TypeOK
      <3>4. CASE d = c
        BY <3>1, <3>3, <3>4 DEF SeenCount
      <3>5. CASE d # c
        BY <3>1, <3>3, <3>5 DEF SeenCount
      <3> QED
        BY <3>4, <3>5
    <2>5. FailedOnlyAfterMaxAttempts'
      <3>1. seen[c][u] + 1 <= execs[u] /\ seen[c][u] \in Nat /\ execs[u] \in Nat
        <4>1. u \in batch[c] /\ phase[c] = "running"
          BY DEF ReplaysRun
        <4>2. seen[c][u] < execs[u]
          BY <4>1 DEF SeenCount
        <4>3. seen[c][u] \in Nat /\ execs[u] \in Nat
          BY DEF TypeOK
        <4> QED
          BY <4>2, <4>3
      <3>2. status' = [status EXCEPT ![u] = NextStatus(seen[c][u])] /\ execs' = execs
        OBVIOUS
      <3> QED
        BY <3>1, <3>2 DEF TypeOK, NextStatus, FailedOnlyAfterMaxAttempts
    <2> QED
      BY <2>1, <2>2, <2>3, <2>4, <2>5
  <1>12. ASSUME NEW c \in Consumers, NEW u \in Updates, MarkLost(c, u)
        PROVE  Inv'
    <2> USE <1>12 DEF MarkLost, MayStep, Hold
    <2>1. TypeOK'
      BY DEF TypeOK, Statuses, Phases, NextStatus, AttemptsCount, DeliveriesCover, ReplaysRun
    <2>2. DeliveriesCover' /\ ReplaysRun'
      BY DEF TypeOK, DeliveriesCover, ReplaysRun
    <2>3. AttemptsCount'
      BY DEF TypeOK, AttemptsCount, SeenCount, NextStatus, ReplaysRun
    <2>4. SeenCount'
      BY DEF TypeOK, AttemptsCount, SeenCount, Won, Claimable
    <2>5. FailedOnlyAfterMaxAttempts'
      BY DEF TypeOK, AttemptsCount, SeenCount, NextStatus, ReplaysRun, FailedOnlyAfterMaxAttempts
    <2> QED
      BY <2>1, <2>2, <2>3, <2>4, <2>5
  <1>13. ASSUME NEW c \in Consumers, NEW u \in Updates, MarkFailedAnswerLost(c, u)
        PROVE  Inv'
    <2> USE <1>13 DEF MarkFailedAnswerLost, MayStep, WriteFailure
    <2>1. TypeOK'
      BY DEF TypeOK, Statuses, Phases, NextStatus, AttemptsCount, DeliveriesCover, ReplaysRun
    <2>2. DeliveriesCover' /\ ReplaysRun'
      BY DEF TypeOK, DeliveriesCover, ReplaysRun
    <2>3. AttemptsCount'
      BY DEF TypeOK, AttemptsCount, SeenCount, NextStatus, ReplaysRun
    <2>4. SeenCount'
      BY DEF TypeOK, AttemptsCount, SeenCount, Won, Claimable
    <2>5. FailedOnlyAfterMaxAttempts'
      BY DEF TypeOK, AttemptsCount, SeenCount, NextStatus, ReplaysRun, FailedOnlyAfterMaxAttempts
    <2> QED
      BY <2>1, <2>2, <2>3, <2>4, <2>5
  <1>14. CASE UNCHANGED vars
    BY <1>14
    DEF vars, TypeOK, DeliveriesCover, AttemptsCount, SeenCount, ReplaysRun,
        FailedOnlyAfterMaxAttempts
  <1> QED
    BY <1>1, <1>2, <1>3, <1>4, <1>5, <1>6, <1>7, <1>8, <1>9, <1>10, <1>11, <1>12, <1>13, <1>14
    DEF Next, WorkerStep, Claiming, Fault, TaskEnds

\* The invariant holds in every reachable state.
THEOREM InvAlways == Spec => []Inv
  BY InitInv, NextInv, PTL DEF Spec

(***************************************************************************)
(* The queue's state is typed for any number of updates and consumers:     *)
(* above all attempts never exceeds MAX_ATTEMPTS, however often two        *)
(* consumers write it from stale reads.                                    *)
(***************************************************************************)
THEOREM TypeCorrect == Spec => []TypeOK
  <1>1. Inv => TypeOK
    BY DEF Inv
  <1> QED
    BY <1>1, InvAlways, PTL

(***************************************************************************)
(* No update is given up before it was executed MAX_ATTEMPTS times, for    *)
(* any consumers, crashes, lost writes and replays.                        *)
(***************************************************************************)
THEOREM FailedOnlyAfterMaxAttemptsAlways == Spec => []FailedOnlyAfterMaxAttempts
  <1>1. Inv => FailedOnlyAfterMaxAttempts
    BY DEF Inv
  <1> QED
    BY <1>1, InvAlways, PTL
-----------------------------------------------------------------------------
\* LIMIT n on rows ordered by created_at answers at most n rows when no two
\* have the same created_at: each is mapped to the number of rows before it.
LEMMA LimitBounds ==
  ASSUME NEW S, IsFiniteSet(S), NEW key \in [S -> Nat], NEW n \in Nat,
         \A x, y \in S : key[x] = key[y] => x = y
  PROVE  LET T == {x \in S : Cardinality({y \in S : key[y] < key[x]}) < n}
         IN IsFiniteSet(T) /\ Cardinality(T) <= n
  <1> DEFINE Below(x) == {y \in S : key[y] < key[x]}
             T == {x \in S : Cardinality(Below(x)) < n}
             rank == [x \in T |-> Cardinality(Below(x))]
  <1>1. \A x \in S : IsFiniteSet(Below(x)) /\ Cardinality(Below(x)) \in Nat
    <2> TAKE x \in S
    <2>1. Below(x) \subseteq S
      OBVIOUS
    <2> HIDE DEF Below
    <2> QED
      BY <2>1, FS_Subset, FS_CardinalityType
  <1>2. \A x, y \in S : key[x] < key[y] => Cardinality(Below(x)) # Cardinality(Below(y))
    <2> SUFFICES ASSUME NEW x \in S, NEW y \in S, key[x] < key[y]
                 PROVE  Cardinality(Below(x)) # Cardinality(Below(y))
      OBVIOUS
    <2>1. Below(x) \subseteq Below(y) /\ x \in Below(y) /\ x \notin Below(x)
      OBVIOUS
    <2>2. IsFiniteSet(Below(y))
      BY <1>1
    <2> HIDE DEF Below
    <2> QED
      BY <2>1, <2>2, FS_Subset
  <1>3. \A x, y \in S : x # y => Cardinality(Below(x)) # Cardinality(Below(y))
    <2> SUFFICES ASSUME NEW x \in S, NEW y \in S, x # y
                 PROVE  Cardinality(Below(x)) # Cardinality(Below(y))
      OBVIOUS
    <2>1. key[x] < key[y] \/ key[y] < key[x]
      OBVIOUS
    <2> HIDE DEF Below
    <2> QED
      BY <1>2, <2>1
  <1> HIDE DEF Below
  <1>4. rank \in Injection(T, 0..(n - 1))
    <2>1. rank \in [T -> 0..(n - 1)]
      BY <1>1
    <2>2. \A x, y \in T : rank[x] = rank[y] => x = y
      BY <1>3
    <2> QED
      BY <2>1, <2>2 DEF Injection, IsInjective
  <1>5. IsFiniteSet(0..(n - 1)) /\ Cardinality(0..(n - 1)) = n
    BY FS_Interval
  <1> HIDE DEF T, rank
  <1>6. IsFiniteSet(T) /\ Cardinality(T) <= n
    BY <1>4, <1>5, FS_Injection
  <1> QED
    BY <1>6 DEF T, Below

\* Rows are numbered in the order of their inserts, each with a number of its own.
Inserted == {v \in Updates : created[v] # 0}

CreatedInOrder ==
  /\ \A u \in Updates : created[u] <= Cardinality(Inserted)
  /\ \A u \in Updates : created[u] = 0 <=> status[u] = "absent"
  /\ \A u, v \in Inserted : created[u] = created[v] => u = v

\* A consumer holds rows that exist, and never more than it may read at once.
BatchLimited ==
  \A c \in Consumers :
    batch[c] \subseteq Inserted /\ Cardinality(batch[c]) <= BATCH_SIZE

StrandedRows == {u \in Updates : Stranded(u)}

SInv == Inv /\ CreatedInOrder /\ BatchLimited /\ StrandedBounded

\* Every set of updates can be counted.
LEMMA UpdatesFinite ==
  ASSUME NEW S \in SUBSET Updates
  PROVE  IsFiniteSet(S) /\ Cardinality(S) \in Nat
  BY ConstantsAssumption, FS_Subset, FS_CardinalityType

\* With no row there is nothing to number, to hold or to strand.
LEMMA InitSInv == Init => SInv
  <1> SUFFICES ASSUME Init PROVE SInv
    OBVIOUS
  <1>1. Inv
    BY InitInv
  <1>2. Cardinality({}) = 0 /\ IsFiniteSet({})
    BY FS_EmptySet
  <1>3. Inserted = {} /\ StrandedRows = {}
    BY DEF Init, Inserted, StrandedRows, Stranded
  <1>4. CreatedInOrder
    BY <1>2, <1>3 DEF Init, CreatedInOrder
  <1>5. BatchLimited
    BY <1>2, ConstantsAssumption DEF Init, BatchLimited
  <1>6. StrandedBounded
    BY <1>2, <1>3, ConstantsAssumption DEF Init, StrandedBounded, StrandedRows
  <1> QED
    BY <1>1, <1>4, <1>5, <1>6 DEF SInv

\* The oldest pending rows fit in a batch.
LEMMA OldestLimited ==
  ASSUME SInv
  PROVE  Cardinality(Oldest(Pending)) <= BATCH_SIZE
  <1>1. Pending \in SUBSET Updates /\ IsFiniteSet(Pending)
    BY UpdatesFinite DEF Pending
  <1> DEFINE key == [u \in Pending |-> created[u]]
  <1>2. key \in [Pending -> Nat]
    BY <1>1 DEF SInv, Inv, TypeOK
  <1>3. \A u, v \in Pending : key[u] = key[v] => u = v
    <2>1. Pending \subseteq Inserted
      BY DEF SInv, CreatedInOrder, Pending, Inserted
    <2> QED
      BY <2>1 DEF SInv, CreatedInOrder
  <1>4. \A u \in Pending : {v \in Pending : key[v] < key[u]} = {v \in Pending : created[v] < created[u]}
    OBVIOUS
  <1> HIDE DEF key
  <1> DEFINE T == {u \in Pending : Cardinality({v \in Pending : key[v] < key[u]}) < BATCH_SIZE}
  <1>5. Cardinality(T) <= BATCH_SIZE
    BY <1>1, <1>2, <1>3, LimitBounds, ConstantsAssumption
  <1>6. T = Oldest(Pending)
    BY <1>4 DEF Oldest
  <1> QED
    BY <1>5, <1>6

\* Inserts number their rows in order, and nothing else numbers them.
LEMMA NextCreated ==
  ASSUME SInv, [Next]_vars
  PROVE  CreatedInOrder'
  <1> USE DEF table, worker, consumer, counters
  <1>0. TypeOK /\ CreatedInOrder
    BY DEF SInv, Inv
  <1>1. ASSUME UNCHANGED created,
               \A u \in Updates : status[u] = "absent" <=> status'[u] = "absent"
        PROVE  CreatedInOrder'
    BY <1>0, <1>1 DEF CreatedInOrder, Inserted
  <1>2. ASSUME NEW u \in Updates, EnqueueUpdate(u)
        PROVE  CreatedInOrder'
    <2> USE DEF EnqueueUpdate, InsertRow
    <2>1. CASE status[u] # "absent"
      BY <1>1, <1>2, <2>1
    <2>2. CASE status[u] = "absent"
      <3> DEFINE n == Cardinality(Inserted)
      <3>1. /\ IsFiniteSet(Inserted) /\ n \in Nat
        BY UpdatesFinite DEF Inserted
      <3>2. /\ status' = [status EXCEPT ![u] = "pending"]
            /\ created' = [created EXCEPT ![u] = 1 + n]
        BY <1>2, <2>2 DEF Inserted
      <3> HIDE DEF n
      <3>3. u \notin Inserted /\ Inserted' = Inserted \cup {u}
        BY <1>0, <2>2, <3>1, <3>2 DEF CreatedInOrder, Inserted, TypeOK
      <3>4. Cardinality(Inserted') = n + 1
        BY <3>1, <3>3, FS_AddElement DEF n
      <3>5. \A v \in Updates : created'[v] <= n + 1
        BY <1>0, <3>1, <3>2 DEF CreatedInOrder, TypeOK, n
      <3>6. \A v \in Updates : created'[v] = 0 <=> status'[v] = "absent"
        BY <1>0, <3>1, <3>2 DEF CreatedInOrder, TypeOK
      <3>7. \A v \in Inserted : created'[v] = created[v] /\ created[v] <= n
        BY <1>0, <3>2, <3>3 DEF CreatedInOrder, TypeOK, Inserted, n
      <3>8. created'[u] = 1 + n
        BY <1>0, <3>2 DEF TypeOK
      <3>9. \A v, w \in Inserted' : created'[v] = created'[w] => v = w
        <4> SUFFICES ASSUME NEW v \in Inserted', NEW w \in Inserted', created'[v] = created'[w]
                     PROVE  v = w
          OBVIOUS
        <4>1. CASE v \in Inserted /\ w \in Inserted
          BY <1>0, <3>7, <4>1 DEF CreatedInOrder
        <4>2. \A x \in Inserted : created'[x] \in Nat /\ created'[x] < 1 + n
          BY <1>0, <3>1, <3>7 DEF TypeOK, Inserted
        <4> QED
          BY <3>3, <3>8, <4>1, <4>2
      <3> QED
        BY <3>4, <3>5, <3>6, <3>9 DEF CreatedInOrder
    <2> QED
      BY <2>1, <2>2
  <1>3. ASSUME NEW u \in Updates, HandleWebhook(u) \/ EnqueueLost(u)
        PROVE  CreatedInOrder'
    BY <1>1, <1>3 DEF HandleWebhook, EnqueueLost
  <1>4. ASSUME NEW c \in Consumers, ReadCandidates(c) \/ ClaimFails(c) \/ Crash(c)
        PROVE  CreatedInOrder'
    BY <1>1, <1>4 DEF ReadCandidates, ClaimFails, Crash
  <1>5. ASSUME NEW c \in Consumers, ClaimBatch(c) \/ ClaimAnswerLost(c)
        PROVE  CreatedInOrder'
    <2>1. SetProcessing(Won(c)) /\ UNCHANGED created
      BY <1>5 DEF ClaimBatch, ClaimAnswerLost
    <2>2. \A u \in Updates : status[u] = "absent" <=> status'[u] = "absent"
      BY <2>1 DEF SetProcessing, Won, Claimable
    <2> QED
      BY <1>1, <2>1, <2>2
  <1>6. ASSUME NEW c \in Consumers, NEW u \in Updates, MarkLost(c, u)
        PROVE  CreatedInOrder'
    BY <1>1, <1>6 DEF MarkLost
  <1>7. ASSUME NEW c \in Consumers, NEW u \in Updates,
               MarkDone(c, u) \/ MarkFailed(c, u) \/ MarkFailedAnswerLost(c, u)
                 \/ ReplayMarkFailed(c, u)
        PROVE  CreatedInOrder'
    <2>1. u \in batch[c] /\ phase[c] = "running"
      BY <1>7 DEF MarkDone, MarkFailed, MarkFailedAnswerLost, ReplayMarkFailed, MayStep,
                  SInv, Inv, ReplaysRun
    <2>2. status[u] # "absent"
      BY <2>1 DEF SInv, BatchLimited, CreatedInOrder, Inserted
    <2>3. UNCHANGED created /\ \E s \in {"done", "failed", "pending"} : status' = [status EXCEPT ![u] = s]
      BY <1>7 DEF MarkDone, MarkFailed, MarkFailedAnswerLost, ReplayMarkFailed, WriteFailure,
                  DoneStatus, NextStatus
    <2> QED
      BY <1>0, <1>1, <2>2, <2>3 DEF TypeOK
  <1>8. CASE UNCHANGED vars
    BY <1>1, <1>8 DEF vars
  <1> QED
    BY <1>2, <1>3, <1>4, <1>5, <1>6, <1>7, <1>8 DEF Next, WorkerStep, Claiming, Fault, TaskEnds

\* Only a SELECT fills a batch, and a row that was inserted stays.
LEMMA NextBatch ==
  ASSUME SInv, [Next]_vars
  PROVE  BatchLimited'
  <1> USE DEF table, worker, consumer, counters
  <1>0. TypeOK /\ BatchLimited
    BY DEF SInv, Inv
  <1>1. Inserted \subseteq Inserted'
    <2>1. ASSUME NEW u \in Updates, EnqueueUpdate(u)
          PROVE  \A v \in Inserted : created'[v] # 0
      <3>1. InsertRow(u) => created[u] = 0
        BY DEF InsertRow, SInv, CreatedInOrder
      <3> QED
        BY <1>0, <2>1, <3>1 DEF EnqueueUpdate, Inserted, TypeOK
    <2>2. CASE UNCHANGED created
      BY <2>2 DEF Inserted
    <2>3. UNCHANGED created \/ \E u \in Updates : EnqueueUpdate(u)
      BY DEF Next, WorkerStep, HandleWebhook, EnqueueLost, Claiming, ReadCandidates, ClaimBatch,
             Fault, ClaimAnswerLost, ClaimFails, Crash, MarkLost, MarkFailedAnswerLost,
             TaskEnds, MarkDone, MarkFailed, ReplayMarkFailed, WriteFailure, vars
    <2> QED
      BY <2>1, <2>2, <2>3 DEF Inserted
  <1>2. ASSUME \A c \in Consumers : batch'[c] \subseteq batch[c]
        PROVE  BatchLimited'
    <2> SUFFICES ASSUME NEW c \in Consumers
                 PROVE  batch'[c] \subseteq Inserted' /\ Cardinality(batch'[c]) <= BATCH_SIZE
      BY DEF BatchLimited
    <2>1. /\ batch[c] \subseteq Inserted /\ Cardinality(batch[c]) <= BATCH_SIZE
          /\ batch[c] \in SUBSET Updates
      BY <1>0 DEF BatchLimited, TypeOK
    <2>2. /\ IsFiniteSet(batch[c]) /\ batch'[c] \in SUBSET batch[c]
          /\ Cardinality(batch[c]) \in Nat /\ Cardinality(batch'[c]) \in Nat
      BY <1>2, <2>1, UpdatesFinite
    <2>3. Cardinality(batch'[c]) <= Cardinality(batch[c])
      BY <2>2, FS_Subset
    <2> QED
      BY <1>1, <2>1, <2>2, <2>3, ConstantsAssumption
  <1>3. ASSUME NEW c \in Consumers, NEW rows \in SUBSET batch[c], Hold(c, rows)
        PROVE  BatchLimited'
    BY <1>0, <1>2, <1>3 DEF Hold, TypeOK
  <1>4. ASSUME NEW c \in Consumers, ReadCandidates(c)
        PROVE  BatchLimited'
    <2>1. Oldest(Pending) \subseteq Inserted
      BY DEF Oldest, Pending, SInv, CreatedInOrder, Inserted
    <2>2. batch' = [batch EXCEPT ![c] = Oldest(Pending)]
      BY <1>4 DEF ReadCandidates
    <2> QED
      BY <1>0, <1>1, <2>1, <2>2, OldestLimited DEF BatchLimited, TypeOK
  <1>5. ASSUME NEW c \in Consumers, Fault(c) \/ ClaimBatch(c) \/ \E u \in Updates : TaskEnds(c, u)
        PROVE  BatchLimited'
    <2>1. {} \in SUBSET batch[c] /\ Won(c) \in SUBSET batch[c]
          /\ \A u \in Updates : batch[c] \ {u} \in SUBSET batch[c]
      BY DEF Won
    <2>2. UNCHANGED batch \/ \E rows \in SUBSET batch[c] : Hold(c, rows)
      BY <1>5, <2>1 DEF Fault, ClaimBatch, ClaimAnswerLost, ClaimFails, Crash, MarkLost,
                        MarkFailedAnswerLost, TaskEnds, MarkDone, MarkFailed, ReplayMarkFailed
    <2> QED
      BY <1>2, <1>3, <2>2
  <1>6. ASSUME NEW u \in Updates, WorkerStep(u)
        PROVE  BatchLimited'
    BY <1>2, <1>6 DEF WorkerStep, HandleWebhook, EnqueueUpdate, EnqueueLost
  <1>7. CASE UNCHANGED vars
    BY <1>2, <1>7 DEF vars
  <1> QED
    BY <1>4, <1>5, <1>6, <1>7 DEF Next, Claiming

\* Only a fault strands rows, and only those of one batch.
LEMMA NextStranded ==
  ASSUME SInv, [Next]_vars
  PROVE  StrandedBounded'
  <1> USE DEF table, worker, consumer, counters
  <1>0. TypeOK /\ BatchLimited /\ ReplaysRun
    BY DEF SInv, Inv
  <1>1. /\ IsFiniteSet(StrandedRows) /\ Cardinality(StrandedRows) \in Nat
        /\ Cardinality(StrandedRows) <= BATCH_SIZE * faults
        /\ faults \in Nat /\ BATCH_SIZE \in Nat
        /\ Cardinality(StrandedRows') \in Nat
    BY <1>0, UpdatesFinite, ConstantsAssumption
    DEF StrandedRows, SInv, StrandedBounded, TypeOK
  <1>2. ASSUME StrandedRows' \subseteq StrandedRows, faults' = faults
        PROVE  StrandedBounded'
    <2>1. Cardinality(StrandedRows') <= Cardinality(StrandedRows)
      BY <1>1, <1>2, FS_Subset
    <2> QED
      BY <1>1, <1>2, <2>1 DEF StrandedBounded, StrandedRows
  <1>3. ASSUME NEW c \in Consumers, faults' = faults + 1,
               StrandedRows' \subseteq StrandedRows \cup batch[c]
        PROVE  StrandedBounded'
    <2>1. /\ IsFiniteSet(batch[c]) /\ Cardinality(batch[c]) \in Nat
          /\ Cardinality(batch[c]) <= BATCH_SIZE
      BY <1>0, UpdatesFinite DEF TypeOK, BatchLimited
    <2>2. StrandedRows \cap batch[c] \in SUBSET Updates
      BY DEF StrandedRows
    <2>3. /\ IsFiniteSet(StrandedRows \cup batch[c])
          /\ Cardinality(StrandedRows \cup batch[c])
               = Cardinality(StrandedRows) + Cardinality(batch[c])
                   - Cardinality(StrandedRows \cap batch[c])
      BY <1>1, <2>1, FS_Union
    <2>4. Cardinality(StrandedRows') <= Cardinality(StrandedRows \cup batch[c])
      BY <1>3, <2>3, FS_Subset
    <2>5. Cardinality(StrandedRows \cap batch[c]) \in Nat
      BY <2>2, UpdatesFinite
    <2>6. Cardinality(StrandedRows') <= BATCH_SIZE * faults + BATCH_SIZE
      <3> DEFINE bound == BATCH_SIZE * faults
      <3>1. Cardinality(StrandedRows) <= bound /\ bound \in Nat
        BY <1>1
      <3> HIDE DEF bound
      <3>2. Cardinality(StrandedRows') <= bound + BATCH_SIZE
        BY <1>1, <2>1, <2>3, <2>4, <2>5, <3>1
      <3> QED
        BY <3>2 DEF bound
    <2>7. BATCH_SIZE * (faults + 1) = BATCH_SIZE * faults + BATCH_SIZE
      BY <1>1
    <2> QED
      BY <1>3, <2>6, <2>7 DEF StrandedBounded, StrandedRows
  <1>4. ASSUME NEW c \in Consumers, NEW rows \in SUBSET Updates, Hold(c, rows),
               replay' = [replay EXCEPT ![c] = {}] \/ UNCHANGED replay
        PROVE  /\ \A d \in Consumers, u \in Updates :
                    d # c => (Runs(d, u)' <=> Runs(d, u))
               /\ \A u \in rows : u \notin replay[c] => Runs(c, u)'
    BY <1>0, <1>4 DEF Hold, TypeOK, Runs
  <1>5. ASSUME NEW u \in Updates, WorkerStep(u)
        PROVE  StrandedBounded'
    <2>1. \A v \in Updates : status'[v] = "processing" => status[v] = "processing"
      BY <1>0, <1>5
      DEF WorkerStep, HandleWebhook, EnqueueUpdate, InsertRow, EnqueueLost, TypeOK
    <2>2. \A v \in Updates : Held(v)' <=> Held(v)
      BY <1>5 DEF WorkerStep, HandleWebhook, EnqueueUpdate, EnqueueLost, Held, Runs
    <2>3. faults' = faults
      BY <1>5 DEF WorkerStep, HandleWebhook, EnqueueUpdate, EnqueueLost
    <2> QED
      BY <1>2, <2>1, <2>2, <2>3 DEF StrandedRows, Stranded
  <1>6. ASSUME NEW c \in Consumers, ReadCandidates(c)
        PROVE  StrandedBounded'
    <2>1. \A v \in Updates : Held(v) => Held(v)'
      BY <1>0, <1>6 DEF ReadCandidates, Held, Runs, TypeOK
    <2>2. UNCHANGED <<status, faults>>
      BY <1>6 DEF ReadCandidates
    <2> QED
      BY <1>2, <2>1, <2>2 DEF StrandedRows, Stranded
  <1>7. ASSUME NEW c \in Consumers, ClaimBatch(c)
        PROVE  StrandedBounded'
    <2>1. /\ Won(c) \in SUBSET Updates /\ Hold(c, Won(c)) /\ UNCHANGED <<replay, faults>>
          /\ replay[c] = {} /\ phase[c] = "claiming"
      BY <1>0, <1>7 DEF ClaimBatch, Won, TypeOK, ReplaysRun
    <2>2. /\ \A d \in Consumers, u \in Updates : d # c => (Runs(d, u)' <=> Runs(d, u))
          /\ \A u \in Won(c) : Runs(c, u)'
      BY <1>4, <2>1
    <2>3. \A u \in Updates : Held(u) => Held(u)'
      BY <2>1, <2>2 DEF Held, Runs
    <2>4. \A u \in Updates :
            status'[u] = "processing" => u \in Won(c) \/ status[u] = "processing"
      BY <1>7 DEF ClaimBatch, SetProcessing
    <2>5. \A u \in Won(c) : Held(u)'
      BY <2>2 DEF Held
    <2> QED
      BY <1>2, <2>1, <2>3, <2>4, <2>5 DEF StrandedRows, Stranded
  <1>8. ASSUME NEW c \in Consumers, ClaimAnswerLost(c) \/ ClaimFails(c) \/ Crash(c)
                                     \/ \E u \in Updates : MarkLost(c, u)
        PROVE  StrandedBounded'
    <2>1. /\ faults' = faults + 1
          /\ replay' = [replay EXCEPT ![c] = {}] \/ UNCHANGED replay
      BY <1>8 DEF ClaimAnswerLost, ClaimFails, Crash, MarkLost
    <2>2. \/ UNCHANGED <<phase, batch>>
          \/ \E rows \in SUBSET Updates : Hold(c, rows)
      <3>1. {} \in SUBSET Updates /\ \A u \in Updates : batch[c] \ {u} \in SUBSET Updates
        BY <1>0 DEF TypeOK
      <3> QED
        BY <1>8, <3>1 DEF ClaimAnswerLost, ClaimFails, Crash, MarkLost
    <2>3. \A d \in Consumers, u \in Updates : d # c /\ Runs(d, u) => Runs(d, u)'
      <3>1. CASE UNCHANGED <<phase, batch>>
        BY <1>0, <2>1, <3>1 DEF Runs, TypeOK
      <3>2. CASE \E rows \in SUBSET Updates : Hold(c, rows)
        BY <1>4, <2>1, <3>2
      <3> QED
        BY <2>2, <3>1, <3>2
    <2>4. \A u \in Updates : u \notin batch[c] /\ Held(u) => Held(u)'
      BY <2>3 DEF Held, Runs
    <2>5. \A u \in Updates :
            u \notin batch[c] /\ status'[u] = "processing" => status[u] = "processing"
      BY <1>8 DEF ClaimAnswerLost, ClaimFails, Crash, MarkLost, SetProcessing, Won
    <2> QED
      BY <1>3, <2>1, <2>4, <2>5 DEF StrandedRows, Stranded
  <1>9. ASSUME NEW c \in Consumers, NEW u \in Updates,
               MarkDone(c, u) \/ MarkFailed(c, u) \/ ReplayMarkFailed(c, u)
        PROVE  StrandedBounded'
    <2>1. /\ batch[c] \ {u} \in SUBSET Updates /\ Hold(c, batch[c] \ {u})
          /\ replay' = [replay EXCEPT ![c] = {}] \/ UNCHANGED replay
          /\ faults' = faults /\ status'[u] # "processing"
          /\ \A v \in Updates : v # u => status'[v] = status[v]
      BY <1>0, <1>9
      DEF MarkDone, MarkFailed, ReplayMarkFailed, WriteFailure, DoneStatus, NextStatus, TypeOK
    <2>2. /\ \A d \in Consumers, v \in Updates : d # c => (Runs(d, v)' <=> Runs(d, v))
          /\ \A v \in batch[c] \ {u} : v \notin replay[c] => Runs(c, v)'
      BY <1>4, <2>1
    <2>3. \A v \in Updates : v # u /\ Held(v) => Held(v)'
      BY <2>2 DEF Held, Runs
    <2> QED
      BY <1>2, <2>1, <2>3 DEF StrandedRows, Stranded
  <1>10. ASSUME NEW c \in Consumers, NEW u \in Updates, MarkFailedAnswerLost(c, u)
         PROVE  StrandedBounded'
    <2>1. /\ faults' = faults /\ status'[u] # "processing"
          /\ \A v \in Updates : v # u => status'[v] = status[v]
      BY <1>0, <1>10 DEF MarkFailedAnswerLost, WriteFailure, NextStatus, TypeOK
    <2>2. \A v \in Updates : v # u /\ Held(v) => Held(v)'
      BY <1>0, <1>10 DEF MarkFailedAnswerLost, Held, Runs, TypeOK
    <2> QED
      BY <1>2, <2>1, <2>2 DEF StrandedRows, Stranded
  <1>11. CASE UNCHANGED vars
    BY <1>2, <1>11 DEF vars, StrandedRows, Stranded, Held, Runs
  <1> QED
    BY <1>5, <1>6, <1>7, <1>8, <1>9, <1>10, <1>11 DEF Next, Claiming, Fault, TaskEnds

\* A crash or a lost write strands at most one batch, and nothing else strands
\* a row: not even replayed writes and overlapping claims.
THEOREM StrandedBoundedAlways == Spec => []StrandedBounded
  <1>1. SInv /\ [Next]_vars => SInv'
    BY NextInv, NextCreated, NextBatch, NextStranded DEF SInv
  <1>2. SInv => StrandedBounded
    BY DEF SInv
  <1> QED
    BY <1>1, <1>2, InitSInv, PTL DEF Spec
=============================================================================
