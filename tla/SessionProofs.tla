---------------------------- MODULE SessionProofs ----------------------------
(***************************************************************************)
(* What holds of the session of a user for any updates, batches, limits    *)
(* and numbers of payments and faults.                                     *)
(***************************************************************************)
EXTENDS Session, SequenceTheorems, FiniteSetTheorems, TLAPS

\* WarnedAgain needs of the types only that the background handlers are counted.
WInv == tasks \in Nat /\ WarnedAgain

\* No step of a batch's tasks but SetFlag touches what WarnedAgain speaks of.
LEMMA OtherStepsKeepFlag ==
  ASSUME NEW u \in Updates,
         RunPipeline(u) \/ GetHistory(u) \/ AppendTurns(u) \/ Clear(u) \/ Bill(u) \/ Warn(u)
  PROVE  UNCHANGED <<flag, tasks, paid, uncleared>>
  BY DEF RunPipeline, GetHistory, AppendTurns, Clear, Bill, Warn, money

\* The flag that goes up for an old balance is marked late.
LEMMA SetFlagKeeps ==
  ASSUME WInv, NEW u \in Updates, SetFlag(u)
  PROVE  WInv'
  <1>1. UNCHANGED <<tasks, paid, uncleared>>
    BY DEF SetFlag
  <1>2. flag' = flag \/ flag' = Raised(u)
    BY DEF SetFlag
  <1>3. CASE flag' = flag
    BY <1>1, <1>3 DEF WInv, WarnedAgain
  <1>4. CASE flag' = Raised(u)
    <2>1. flag'.asof < paid => flag'.late
      BY <1>4 DEF Raised
    <2> QED
      BY <1>1, <2>1 DEF WInv, WarnedAgain
  <1> QED
    BY <1>2, <1>3, <1>4

\* Every step keeps it: a payment adds a handler, and a handler deletes the
\* flag or is known to have failed.
LEMMA WInvInductive ==
  ASSUME WInv, [Next]_vars
  PROVE  WInv'
  <1>1. CASE ClaimBatch \/ Tick
    BY <1>1 DEF ClaimBatch, Tick, money, WInv, WarnedAgain
  <1>2. CASE FlagExpires
    BY <1>2 DEF FlagExpires, NoFlag, WInv, WarnedAgain
  <1>3. CASE CreditPayment
    BY <1>3 DEF CreditPayment, Publish, WInv, WarnedAgain
  <1>4. CASE ClearLowBalanceWarning
    BY <1>4 DEF ClearLowBalanceWarning, NoFlag, WInv, WarnedAgain
  <1>5. ASSUME NEW u \in Updates, Task(u)
        PROVE  WInv'
    <2>1. CASE SetFlag(u)
      BY <2>1, SetFlagKeeps
    <2>2. CASE ~SetFlag(u)
      <3>1. UNCHANGED <<flag, tasks, paid, uncleared>>
        BY <1>5, <2>2, OtherStepsKeepFlag DEF Task
      <3> QED
        BY <3>1 DEF WInv, WarnedAgain
    <2> QED
      BY <2>1, <2>2
  <1>6. CASE UNCHANGED vars
    BY <1>6 DEF vars, money, WInv, WarnedAgain
  <1> QED
    BY <1>1, <1>2, <1>3, <1>4, <1>5, <1>6 DEF Next

\* For any updates, payments and faults the low-balance flag outlives a payment
\* only while its deletion is under way, when that failed, or when it was
\* raised late (event_dispatcher.py, webhook.py 832-856).
THEOREM WarnedAgainAlways == Spec => []WarnedAgain
  <1>1. Init => WInv
    BY DEF Init, NoFlag, WInv, WarnedAgain
  <1>2. WInv /\ [Next]_vars => WInv'
    BY WInvInductive
  <1>3. WInv => WarnedAgain
    BY DEF WInv
  <1> QED
    BY <1>1, <1>2, <1>3, PTL DEF Spec
-----------------------------------------------------------------------------
\* How much the payments so far can have brought, and how many handlers.
Counts == balance <= 2 + paid /\ tasks <= paid

\* The history and what the prompts hold of it are sequences of turns.
Recorded == store \in Seq(Turns) /\ context \in [Updates -> Seq(Turns)]

\* What the place of an update tells of it.
Placed(u) ==
  /\ batch[u] = 0 <=> phase[u] = "queued"
  /\ verdict[u] = "none" <=> phase[u] \in {"queued", "limit"}
  /\ verdict[u] = "denied" => phase[u] = "done"
  /\ phase[u] \in {"message", "answer", "bill", "flag", "warn"} => Kinds[u] = "message"
  /\ phase[u] = "clear" => Kinds[u] = "clear"
  /\ u \in wrong => phase[u] \notin {"queued", "limit", "message", "clear"}

\* Batches are claimed in the order of the updates, each when the one before it
\* has ended.
InBatches ==
  /\ Cardinality(Batches) \in Nat /\ Batches = 1 .. Cardinality(Batches)
  /\ \A u, v \in Updates :
       /\ batch[u] # 0 /\ batch[u] < batch[v] => phase[u] = "done"
       /\ u < v /\ batch[v] # 0 => batch[u] # 0 /\ batch[u] <= batch[v]

SInv == TypeOK /\ Counts /\ Recorded /\ (\A u \in Updates : Placed(u)) /\ InBatches

\* The updates are numbered.
LEMMA UpdatesAreNumbered ==
  /\ Len(Kinds) \in Nat /\ Updates = 1 .. Len(Kinds)
  /\ \A u \in Updates : u \in Nat /\ Kinds[u] \in {"message", "clear"}
  /\ IsFiniteSet(Updates) /\ Cardinality(Updates) = Len(Kinds)
  <1>1. Len(Kinds) \in Nat /\ Updates = 1 .. Len(Kinds)
    BY ConstantsAssumption DEF Updates
  <1>2. \A u \in Updates : u \in Nat /\ Kinds[u] \in {"message", "clear"}
    BY ConstantsAssumption, <1>1 DEF Updates
  <1>3. IsFiniteSet(Updates) /\ Cardinality(Updates) = Len(Kinds)
    <2> DEFINE n == Len(Kinds)
    <2>1. 1 \in Int /\ n \in Int /\ n \in Nat
      BY <1>1
    <2> HIDE DEF n
    <2>2. IsFiniteSet(1 .. n) /\ Cardinality(1 .. n) = IF 1 > n THEN 0 ELSE n - 1 + 1
      BY <2>1, FS_Interval
    <2>3. Cardinality(1 .. n) = n
      BY <2>1, <2>2
    <2> QED
      BY <1>1, <2>2, <2>3 DEF n
  <1> QED
    BY <1>1, <1>2, <1>3

\* What a claim does: the next batch is numbered one higher than all before it,
\* is not empty, and takes the oldest unclaimed updates.
LEMMA ClaimFacts ==
  ASSUME SInv, ClaimBatch
  PROVE  \E rows \in SUBSET Unclaimed :
           /\ rows # {}
           /\ \A v \in rows : \A w \in Unclaimed : w < v => w \in rows
           /\ phase' = [u \in Updates |-> IF u \in rows THEN "limit" ELSE phase[u]]
           /\ batch' = [u \in Updates |-> IF u \in rows THEN Cardinality(Batches) + 1 ELSE batch[u]]
           /\ stamp' = [u \in Updates |-> IF u \in rows THEN now ELSE stamp[u]]
  <1>1. PICK n \in 1 .. BATCH_SIZE :
          LET rows == {u \in Unclaimed : Cardinality({v \in Unclaimed : v < u}) < n}
          IN /\ Cardinality(rows) = n
             /\ phase' = [u \in Updates |-> IF u \in rows THEN "limit" ELSE phase[u]]
             /\ batch' = [u \in Updates |-> IF u \in rows THEN Cardinality(Batches) + 1 ELSE batch[u]]
             /\ stamp' = [u \in Updates |-> IF u \in rows THEN now ELSE stamp[u]]
    BY DEF ClaimBatch
  <1> DEFINE rows == {u \in Unclaimed : Cardinality({v \in Unclaimed : v < u}) < n}
  <1>2. rows # {}
    <2>1. n \in Nat /\ n # 0 /\ Cardinality(rows) = n
      BY <1>1, ConstantsAssumption
    <2> QED
      BY <2>1, FS_EmptySet
  <1>3. ASSUME NEW v \in rows, NEW w \in Unclaimed, w < v
        PROVE  w \in rows
    <2> DEFINE V == {x \in Unclaimed : x < v}
    <2> DEFINE W == {x \in Unclaimed : x < w}
    <2>1. v \in Unclaimed /\ Cardinality(V) < n /\ n \in Nat
      BY <1>3, ConstantsAssumption
    <2>2. Unclaimed \subseteq Updates
      BY DEF Unclaimed
    <2>3. IsFiniteSet(Unclaimed) /\ \A x \in Unclaimed : x \in Nat
      BY <2>2, UpdatesAreNumbered, FS_Subset
    <2>4. W \subseteq V /\ V \subseteq Unclaimed
      BY <1>3, <2>1, <2>3
    <2> HIDE DEF V, W
    <2>5. IsFiniteSet(V) /\ IsFiniteSet(W) /\ Cardinality(W) <= Cardinality(V)
      BY <2>3, <2>4, FS_Subset
    <2>6. Cardinality(V) \in Nat /\ Cardinality(W) \in Nat
      BY <2>5, FS_CardinalityType
    <2>7. Cardinality(W) < n
      BY <2>1, <2>5, <2>6
    <2> QED
      BY <1>3, <2>7 DEF W
  <1> HIDE DEF rows
  <1>4. rows \in SUBSET Unclaimed
    BY DEF rows
  <1>5. /\ phase' = [u \in Updates |-> IF u \in rows THEN "limit" ELSE phase[u]]
        /\ batch' = [u \in Updates |-> IF u \in rows THEN Cardinality(Batches) + 1 ELSE batch[u]]
        /\ stamp' = [u \in Updates |-> IF u \in rows THEN now ELSE stamp[u]]
    BY <1>1 DEF rows
  <1> QED
    BY <1>2, <1>3, <1>4, <1>5

\* There are fewer batches than updates as long as an update is unclaimed.
LEMMA BatchesBounded ==
  ASSUME SInv, NEW w \in Unclaimed
  PROVE  Cardinality(Batches) + 1 \in 0 .. Len(Kinds)
  <1> DEFINE Claimed == Updates \ {w}
  <1> DEFINE Taken == {u \in Updates : batch[u] # 0}
  <1>1. Taken \in SUBSET Claimed /\ w \in Updates
    BY DEF SInv, Placed, Unclaimed
  <1>2. IsFiniteSet(Claimed) /\ Cardinality(Claimed) = Len(Kinds) - 1
    <2>1. /\ IsFiniteSet(Updates \ {w})
          /\ Cardinality(Updates \ {w}) =
               IF w \in Updates THEN Cardinality(Updates) - 1 ELSE Cardinality(Updates)
      BY UpdatesAreNumbered, FS_RemoveElement
    <2> QED
      BY <1>1, <2>1, UpdatesAreNumbered
  <1>3. IsFiniteSet(Taken) /\ Cardinality(Taken) <= Len(Kinds) - 1
    BY <1>1, <1>2, FS_Subset
  <1>4. [u \in Taken |-> batch[u]] \in Surjection(Taken, Batches)
    <2>1. \A u \in Taken : batch[u] \in Batches
      BY DEF Batches
    <2>2. \A b \in Batches : \E u \in Taken : b = batch[u]
      BY DEF Batches
    <2> QED
      BY <2>1, <2>2 DEF Surjection
  <1> HIDE DEF Taken, Claimed
  <1>5. Cardinality(Batches) <= Cardinality(Taken) /\ Cardinality(Taken) \in Nat
    BY <1>3, <1>4, FS_Surjection, FS_CardinalityType
  <1> QED
    BY <1>3, <1>5, UpdatesAreNumbered DEF SInv, InBatches

\* A task moves one update, which is claimed and not done, and no batch.
LEMMA TaskFacts ==
  ASSUME SInv, NEW u \in Updates, Task(u)
  PROVE  /\ phase[u] \notin {"queued", "done"} /\ UNCHANGED <<batch, now, stamp>>
         /\ \E q \in {"message", "clear", "answer", "bill", "flag", "warn", "done"} :
              phase' = [phase EXCEPT ![u] = q]
  <1>1. Kinds[u] \in {"message", "clear"}
    BY UpdatesAreNumbered
  <1>2. CASE RunPipeline(u)
    BY <1>1, <1>2 DEF RunPipeline, Admits, At, Goto
  <1>3. CASE GetHistory(u) \/ AppendTurns(u) \/ Clear(u) \/ Bill(u) \/ SetFlag(u) \/ Warn(u)
    BY <1>3 DEF GetHistory, AppendTurns, Clear, Bill, SetFlag, Warn, At, Goto, limiter
  <1> QED
    BY <1>2, <1>3 DEF Task

\* The turns that an answer may leave behind are turns of its update.
LEMMA StoredFacts ==
  ASSUME NEW u \in Updates,
         NEW stored \in {<<>>, TurnsOf(u)} \cup {<<TurnsOf(u)[i]>> : i \in {1, 2}}
  PROVE  stored \in Seq(Turns) /\ \A t \in ToSet(stored) : t.of = u
  <1> DEFINE a == [of |-> u, role |-> "user"]
  <1> DEFINE b == [of |-> u, role |-> "assistant"]
  <1>1. TurnsOf(u) = <<a, b>> /\ TurnsOf(u)[1] = a /\ TurnsOf(u)[2] = b
    BY DEF TurnsOf
  <1>2. a \in ToSet(TurnsOf(u)) /\ b \in ToSet(TurnsOf(u))
    BY <1>1 DEF ToSet
  <1>3. a \in Turns /\ b \in Turns
    BY <1>2 DEF Turns
  <1>4. a.of = u /\ b.of = u
    OBVIOUS
  <1> HIDE DEF a, b
  <1>5. stored \in {<<>>, <<a, b>>, <<a>>, <<b>>}
    BY <1>1
  <1>6. stored \in Seq(Turns)
    <2>1. <<>> \in Seq(Turns) /\ <<a>> \in Seq(Turns) /\ <<b>> \in Seq(Turns)
      BY <1>3
    <2>2. <<a, b>> \in Seq(Turns)
      BY <1>3
    <2> QED
      BY <1>5, <2>1, <2>2
  <1>7. ToSet(stored) \subseteq {a, b}
    BY <1>5 DEF ToSet
  <1> QED
    BY <1>4, <1>6, <1>7

\* The turns of an extended history are those of both parts.
LEMMA TurnsOfBoth ==
  ASSUME NEW s \in Seq(Turns), NEW t \in Seq(Turns)
  PROVE  s \o t \in Seq(Turns) /\ ToSet(s \o t) = ToSet(s) \cup ToSet(t)
  <1>1. s \o t \in Seq(Turns) /\ Len(s \o t) = Len(s) + Len(t)
    OBVIOUS
  <1>2. ToSet(s \o t) \subseteq ToSet(s) \cup ToSet(t)
    BY DEF ToSet
  <1>3. ToSet(s) \subseteq ToSet(s \o t)
    BY DEF ToSet
  <1>4. ASSUME NEW i \in DOMAIN t
        PROVE  t[i] \in ToSet(s \o t)
    <2>1. Len(s) + i \in DOMAIN (s \o t) /\ (s \o t)[Len(s) + i] = t[i]
      OBVIOUS
    <2> QED
      BY <2>1 DEF ToSet
  <1>5. ToSet(t) \subseteq ToSet(s \o t)
    BY <1>4 DEF ToSet
  <1> QED
    BY <1>1, <1>2, <1>3, <1>5

\* A prompt has room for BUDGET turns; what it drops it drops for want of room.
LEMMA TrimFacts ==
  ASSUME NEW s \in Seq(Turns)
  PROVE  /\ Trim(s) \in Seq(Turns) /\ Len(Trim(s)) <= BUDGET
         /\ ToSet(Trim(s)) \subseteq ToSet(s)
         /\ Trim(s) = s \/ Len(Trim(s)) = BUDGET
  <1>1. BUDGET \in Nat \ {0} /\ Len(s) \in Nat
    BY ConstantsAssumption
  <1>2. CASE Len(s) <= BUDGET
    BY <1>1, <1>2 DEF Trim
  <1>3. CASE Len(s) > BUDGET
    <2> DEFINE m == Len(s) - BUDGET + 1
    <2>1. m \in 1 .. Len(s) /\ Trim(s) = SubSeq(s, m, Len(s))
      BY <1>1, <1>3 DEF Trim
    <2>2. /\ Trim(s) \in Seq(Turns) /\ Len(Trim(s)) = BUDGET
          /\ \A i \in 1 .. BUDGET : Trim(s)[i] = s[m + i - 1] /\ m + i - 1 \in 1 .. Len(s)
      BY <1>1, <1>3, <2>1
    <2>3. ToSet(Trim(s)) \subseteq ToSet(s)
      BY <1>1, <2>2 DEF ToSet
    <2> QED
      BY <1>1, <2>2, <2>3
  <1> QED
    BY <1>1, <1>2, <1>3

\* At the start every update is queued and nothing is stored.
LEMMA InitSInv == Init => SInv
  <1> SUFFICES ASSUME Init PROVE SInv
    OBVIOUS
  <1> USE ConstantsAssumption
  <1>1. TypeOK
    <2>1. /\ now \in 0 .. MaxTime /\ tasks \in 0 .. MaxPayments /\ paid \in 0 .. MaxPayments
          /\ balance \in 0 .. (2 + MaxPayments) /\ faults \in 0 .. MaxFaults
      BY DEF Init
    <2>4. uncleared \in BOOLEAN /\ flag \in [asof : 0 .. MaxPayments, late : BOOLEAN, set : BOOLEAN]
      <3>1. uncleared \in BOOLEAN /\ flag = NoFlag
        BY DEF Init
      <3>2. 0 \in 0 .. MaxPayments /\ FALSE \in BOOLEAN
        OBVIOUS
      <3>3. NoFlag \in [asof : 0 .. MaxPayments, late : BOOLEAN, set : BOOLEAN]
        BY <3>2, Zenon DEF NoFlag
      <3> QED
        BY <3>1, <3>3
    <2>2. /\ phase \in [Updates -> {"queued", "limit", "message", "clear", "answer",
                                    "bill", "flag", "warn", "done"}]
          /\ batch \in [Updates -> 0 .. Len(Kinds)] /\ stamp \in [Updates -> 0 .. MaxTime]
          /\ verdict \in [Updates -> {"none", "denied", "allowed", "open"}]
          /\ asof \in [Updates -> 0 .. MaxPayments]
          /\ entries \cup wrong \subseteq Updates
      BY UpdatesAreNumbered DEF Init
    <2>3. /\ ToSet(store) \subseteq saved /\ saved \subseteq Turns
          /\ \A u \in Updates : ToSet(context[u]) \subseteq saved /\ Len(context[u]) <= BUDGET
      BY DEF Init, ToSet
    <2> QED
      BY <2>1, <2>2, <2>3, <2>4 DEF TypeOK
  <1>2. Counts /\ Recorded /\ \A u \in Updates : Placed(u)
    BY DEF Init, Counts, Recorded, Placed
  <1>3. InBatches
    <2>1. Batches = {} /\ 1 .. 0 = {}
      BY DEF Init, Batches
    <2>2. Cardinality(Batches) = 0
      BY <2>1, FS_EmptySet
    <2> QED
      BY <2>1, <2>2, UpdatesAreNumbered DEF Init, InBatches
  <1> QED
    BY <1>1, <1>2, <1>3 DEF SInv

\* Every step leaves each update where the rest of its state says.
LEMMA NextPlaced ==
  ASSUME SInv, [Next]_vars
  PROVE  \A u \in Updates : Placed(u)'
  <1>0. TypeOK /\ \A u \in Updates : Placed(u) /\ Kinds[u] \in {"message", "clear"}
    BY UpdatesAreNumbered DEF SInv
  <1>1. CASE ClaimBatch
    <2>1. PICK rows \in SUBSET Unclaimed :
            /\ phase' = [u \in Updates |-> IF u \in rows THEN "limit" ELSE phase[u]]
            /\ batch' = [u \in Updates |-> IF u \in rows THEN Cardinality(Batches) + 1 ELSE batch[u]]
      BY <1>1, ClaimFacts
    <2>2. UNCHANGED <<verdict, wrong>>
      BY <1>1 DEF ClaimBatch, memory
    <2>3. Cardinality(Batches) + 1 # 0
      BY DEF SInv, InBatches
    <2> QED
      BY <1>0, <2>1, <2>2, <2>3 DEF Unclaimed, Placed
  <1>2. CASE Tick \/ FlagExpires \/ CreditPayment \/ ClearLowBalanceWarning \/ UNCHANGED vars
    BY <1>0, <1>2 DEF Tick, FlagExpires, CreditPayment, ClearLowBalanceWarning, vars,
                      limiter, memory, Placed
  <1>3. ASSUME NEW u \in Updates, RunPipeline(u)
        PROVE  \A v \in Updates : Placed(v)'
    <2>1. /\ phase[u] = "limit" /\ UNCHANGED <<batch, wrong>>
          /\ \E answer \in {"denied", "allowed", "open"} :
               /\ verdict' = [verdict EXCEPT ![u] = answer]
               /\ phase' = [phase EXCEPT ![u] = IF answer = "denied" THEN "done" ELSE Kinds[u]]
      BY <1>3 DEF RunPipeline, Admits, At, Goto, memory
    <2> QED
      BY <1>0, <2>1 DEF TypeOK, Placed
  <1>4. ASSUME NEW u \in Updates, GetHistory(u)
        PROVE  \A v \in Updates : Placed(v)'
    <2>1. /\ phase[u] = "message" /\ UNCHANGED <<batch, verdict>>
          /\ wrong' = wrong \/ wrong' = wrong \cup {u}
          /\ phase' = [phase EXCEPT ![u] = "answer"]
      BY <1>4 DEF GetHistory, At, Goto, limiter
    <2> QED
      BY <1>0, <2>1 DEF TypeOK, Placed
  <1>5. ASSUME NEW u \in Updates, Clear(u)
        PROVE  \A v \in Updates : Placed(v)'
    <2>1. /\ phase[u] = "clear" /\ UNCHANGED <<batch, verdict>>
          /\ wrong' = wrong \/ wrong' = wrong \cup {u}
          /\ phase' = [phase EXCEPT ![u] = "done"]
      BY <1>5 DEF Clear, At, Goto, limiter
    <2> QED
      BY <1>0, <2>1 DEF TypeOK, Placed
  <1>6. ASSUME NEW u \in Updates, AppendTurns(u) \/ Bill(u) \/ SetFlag(u) \/ Warn(u)
        PROVE  \A v \in Updates : Placed(v)'
    <2>1. /\ UNCHANGED <<batch, verdict, wrong>> /\ phase[u] \in {"answer", "bill", "flag", "warn"}
          /\ \E q \in {"bill", "flag", "warn", "done"} : phase' = [phase EXCEPT ![u] = q]
      BY <1>6 DEF AppendTurns, Bill, SetFlag, Warn, At, Goto, limiter, memory
    <2> QED
      BY <1>0, <2>1 DEF TypeOK, Placed
  <1> QED
    BY <1>1, <1>2, <1>3, <1>4, <1>5, <1>6 DEF Next, Task

\* Every step keeps the batches in order.
LEMMA NextInBatches ==
  ASSUME SInv, [Next]_vars
  PROVE  InBatches'
  <1>0. /\ TypeOK /\ InBatches /\ \A u \in Updates : Placed(u) /\ batch[u] \in Nat /\ u \in Nat
    <2>1. TypeOK /\ InBatches /\ \A u \in Updates : Placed(u) /\ u \in Nat
      BY UpdatesAreNumbered DEF SInv
    <2>2. batch \in [Updates -> 0 .. Len(Kinds)] /\ Len(Kinds) \in Nat
      BY <2>1, UpdatesAreNumbered DEF TypeOK
    <2> QED
      BY <2>1, <2>2
  <1>1. CASE ClaimBatch
    <2> DEFINE k == Cardinality(Batches)
    <2>1. PICK rows \in SUBSET Unclaimed :
            /\ rows # {}
            /\ \A v \in rows : \A w \in Unclaimed : w < v => w \in rows
            /\ phase' = [u \in Updates |-> IF u \in rows THEN "limit" ELSE phase[u]]
            /\ batch' = [u \in Updates |-> IF u \in rows THEN k + 1 ELSE batch[u]]
      BY <1>1, ClaimFacts
    <2>2. k \in Nat /\ Batches = 1 .. k /\ rows \subseteq Updates /\ BatchEnded
      BY <1>0, <1>1, <2>1 DEF InBatches, Unclaimed, ClaimBatch
    <2>3. \A u \in Updates : /\ batch[u] <= k
                             /\ batch[u] # 0 => phase[u] = "done"
                             /\ u \in rows => batch[u] = 0
                             /\ batch[u] = 0 <=> u \in Unclaimed
      <3>1. \A u \in Updates : batch[u] # 0 => batch[u] \in Batches
        BY DEF Batches
      <3>2. \A u \in Updates : batch[u] <= k
        BY <1>0, <2>2, <3>1
      <3> QED
        BY <1>0, <2>1, <2>2, <3>2 DEF Placed, BatchEnded, Unclaimed
    <2> HIDE DEF k
    <2>4. Batches' = 1 .. k + 1
      <3>1. Batches' \subseteq 1 .. k + 1
        BY <1>0, <2>1, <2>2, <2>3 DEF Batches
      <3>2. k + 1 \in Batches'
        BY <2>1, <2>2 DEF Batches
      <3>3. \A b \in 1 .. k : b \in Batches'
        BY <2>1, <2>2, <2>3 DEF Batches
      <3>4. \A b \in 1 .. k + 1 : b = k + 1 \/ b \in 1 .. k
        BY <2>2
      <3> QED
        BY <3>1, <3>2, <3>3, <3>4
    <2>5. Cardinality(Batches)' = k + 1
      <3>1. 1 \in Int /\ k + 1 \in Int /\ ~(1 > k + 1) /\ k + 1 - 1 + 1 = k + 1
        BY <2>2
      <3>2. Cardinality(1 .. k + 1) = k + 1
        BY <3>1, FS_Interval
      <3> QED
        BY <2>4, <3>2
    <2>6. ASSUME NEW u \in Updates, NEW v \in Updates, batch'[u] # 0, batch'[u] < batch'[v]
          PROVE  phase'[u] = "done"
      <3>1. u \notin rows
        BY <1>0, <2>1, <2>2, <2>3, <2>6
      <3> QED
        BY <2>1, <2>3, <2>6, <3>1
    <2>7. ASSUME NEW u \in Updates, NEW v \in Updates, u < v, batch'[v] # 0
          PROVE  batch'[u] # 0 /\ batch'[u] <= batch'[v]
      <3>1. CASE v \in rows
        BY <1>0, <2>1, <2>2, <2>3, <2>7, <3>1
      <3>2. CASE v \notin rows
        BY <1>0, <2>1, <2>2, <2>3, <2>7, <3>2 DEF InBatches
      <3> QED
        BY <3>1, <3>2
    <2> QED
      BY <2>2, <2>4, <2>5, <2>6, <2>7 DEF InBatches
  <1>2. CASE Tick \/ FlagExpires \/ CreditPayment \/ ClearLowBalanceWarning \/ UNCHANGED vars
    <2>1. UNCHANGED <<phase, batch>>
      BY <1>2 DEF Tick, FlagExpires, CreditPayment, ClearLowBalanceWarning, vars
    <2>2. Batches' = Batches
      BY <2>1 DEF Batches
    <2> QED
      BY <1>0, <2>1, <2>2 DEF InBatches
  <1>3. ASSUME NEW u \in Updates, Task(u)
        PROVE  InBatches'
    <2>1. /\ phase[u] # "done" /\ batch' = batch
          /\ \E q \in {"message", "clear", "answer", "bill", "flag", "warn", "done"} :
               phase' = [phase EXCEPT ![u] = q]
      BY <1>3, TaskFacts
    <2>2. Batches' = Batches
      BY <2>1 DEF Batches
    <2>3. \A v \in Updates : phase[v] = "done" => phase'[v] = "done"
      BY <1>0, <2>1 DEF TypeOK
    <2> QED
      BY <1>0, <2>1, <2>2, <2>3 DEF InBatches
  <1> QED
    BY <1>1, <1>2, <1>3 DEF Next

\* The part of the types that each group of variables has.
TypeControl ==
  /\ now \in 0 .. MaxTime
  /\ phase \in [Updates -> {"queued", "limit", "message", "clear", "answer",
                            "bill", "flag", "warn", "done"}]
  /\ batch \in [Updates -> 0 .. Len(Kinds)]
  /\ stamp \in [Updates -> 0 .. MaxTime]
  /\ entries \cup wrong \subseteq Updates
  /\ verdict \in [Updates -> {"none", "denied", "allowed", "open"}]
  /\ faults \in 0 .. MaxFaults

TypeMemory ==
  /\ ToSet(store) \subseteq saved /\ saved \subseteq Turns
  /\ \A u \in Updates : ToSet(context[u]) \subseteq saved /\ Len(context[u]) <= BUDGET
  /\ Recorded

TypeMoney ==
  /\ balance \in 0 .. (2 + MaxPayments)
  /\ paid \in 0 .. MaxPayments
  /\ asof \in [Updates -> 0 .. MaxPayments]
  /\ flag \in [asof : 0 .. MaxPayments, late : BOOLEAN, set : BOOLEAN]
  /\ tasks \in 0 .. MaxPayments
  /\ uncleared \in BOOLEAN
  /\ Counts

\* Together they are the types.
LEMMA TypesSplit == TypeOK /\ Counts /\ Recorded <=> TypeControl /\ TypeMemory /\ TypeMoney
  BY DEF TypeOK, TypeControl, TypeMemory, TypeMoney

\* Every step keeps the types of the control state.
LEMMA NextTypeControl ==
  ASSUME SInv, [Next]_vars
  PROVE  TypeControl'
  <1>0. TypeControl /\ \A u \in Updates : Kinds[u] \in {"message", "clear"}
    BY TypesSplit, UpdatesAreNumbered DEF SInv
  <1>1. CASE ClaimBatch
    <2>1. PICK rows \in SUBSET Unclaimed :
            /\ rows # {}
            /\ phase' = [u \in Updates |-> IF u \in rows THEN "limit" ELSE phase[u]]
            /\ batch' = [u \in Updates |-> IF u \in rows THEN Cardinality(Batches) + 1 ELSE batch[u]]
            /\ stamp' = [u \in Updates |-> IF u \in rows THEN now ELSE stamp[u]]
      BY <1>1, ClaimFacts
    <2>2. Cardinality(Batches) + 1 \in 0 .. Len(Kinds)
      BY <2>1, BatchesBounded
    <2>3. UNCHANGED <<now, entries, wrong, verdict, faults>>
      BY <1>1 DEF ClaimBatch, memory
    <2> QED
      BY <1>0, <2>1, <2>2, <2>3 DEF TypeControl
  <1>2. ASSUME UNCHANGED <<phase, batch, stamp, entries, wrong, verdict>>,
               now' \in 0 .. MaxTime, faults' \in 0 .. MaxFaults
        PROVE  TypeControl'
    BY <1>0, <1>2 DEF TypeControl
  <1>3. Works \/ Fails => faults' \in 0 .. MaxFaults
    BY <1>0, ConstantsAssumption DEF Works, Fails, TypeControl
  <1>4. CASE Tick
    <2>1. now' \in 0 .. MaxTime
      BY <1>0, <1>4, ConstantsAssumption DEF Tick, TypeControl
    <2> QED
      BY <1>0, <1>2, <1>4, <2>1 DEF Tick, limiter, memory, TypeControl
  <1>5. CASE FlagExpires \/ CreditPayment \/ ClearLowBalanceWarning \/ UNCHANGED vars
    BY <1>0, <1>2, <1>3, <1>5
    DEF FlagExpires, CreditPayment, ClearLowBalanceWarning, vars, limiter, memory, TypeControl
  <1>6. ASSUME NEW u \in Updates, Task(u)
        PROVE  TypeControl'
    <2>1. /\ UNCHANGED <<batch, now, stamp>>
          /\ \E q \in {"message", "clear", "answer", "bill", "flag", "warn", "done"} :
               phase' = [phase EXCEPT ![u] = q]
      BY <1>6, TaskFacts
    <2>2. phase' \in [Updates -> {"queued", "limit", "message", "clear", "answer",
                                  "bill", "flag", "warn", "done"}]
      BY <1>0, <2>1 DEF TypeControl
    <2>3. verdict' \in [Updates -> {"none", "denied", "allowed", "open"}]
      BY <1>0, <1>6 DEF Task, RunPipeline, GetHistory, AppendTurns, Clear, Bill, SetFlag, Warn,
                        Admits, limiter, TypeControl
    <2>4. entries' \cup wrong' \subseteq Updates
      BY <1>0, <1>6 DEF Task, RunPipeline, GetHistory, AppendTurns, Clear, Bill, SetFlag, Warn,
                        Recent, limiter, memory, TypeControl
    <2>5. faults' \in 0 .. MaxFaults
      <3>1. Works \/ Fails
        BY <1>6 DEF Task, RunPipeline, GetHistory, AppendTurns, Clear, Bill, SetFlag, Warn, Works
      <3> QED
        BY <1>3, <3>1
    <2> QED
      BY <1>0, <2>1, <2>2, <2>3, <2>4, <2>5 DEF TypeControl
  <1> QED
    BY <1>1, <1>4, <1>5, <1>6 DEF Next

\* Every step keeps the histories within what was ever stored.
LEMMA NextTypeMemory ==
  ASSUME SInv, [Next]_vars
  PROVE  TypeMemory'
  <1>0. TypeControl /\ TypeMemory
    BY TypesSplit DEF SInv
  <1>1. CASE UNCHANGED <<store, context, saved>>
    BY <1>0, <1>1 DEF TypeMemory, Recorded
  <1>2. ASSUME NEW u \in Updates, GetHistory(u)
        PROVE  TypeMemory'
    <2>1. /\ UNCHANGED <<store, saved>>
          /\ context' = context \/ context' = [context EXCEPT ![u] = Trim(store)]
      BY <1>2 DEF GetHistory
    <2>2. Trim(store) \in Seq(Turns) /\ Len(Trim(store)) <= BUDGET /\ ToSet(Trim(store)) \subseteq saved
      BY <1>0, TrimFacts DEF TypeMemory, Recorded
    <2>3. \A v \in Updates : context'[v] = context[v] \/ context'[v] = Trim(store)
      BY <1>0, <2>1 DEF TypeMemory, Recorded
    <2> QED
      BY <1>0, <2>1, <2>2, <2>3 DEF TypeMemory, Recorded
  <1>3. ASSUME NEW u \in Updates, AppendTurns(u)
        PROVE  TypeMemory'
    <2>1. PICK stored \in {<<>>, TurnsOf(u)} \cup {<<TurnsOf(u)[i]>> : i \in {1, 2}} :
            store' = store \o stored /\ saved' = saved \cup ToSet(stored)
      BY <1>3 DEF AppendTurns
    <2>2. stored \in Seq(Turns) /\ ToSet(stored) \subseteq Turns
      BY <2>1, StoredFacts DEF ToSet
    <2>3. store \in Seq(Turns)
      BY <1>0 DEF TypeMemory, Recorded
    <2>4. store' \in Seq(Turns) /\ ToSet(store') = ToSet(store) \cup ToSet(stored)
      BY <2>1, <2>2, <2>3, TurnsOfBoth
    <2>5. context' = [context EXCEPT ![u] = <<>>]
      BY <1>3 DEF AppendTurns
    <2>6. <<>> \in Seq(Turns) /\ Len(<<>>) <= BUDGET /\ ToSet(<<>>) = {}
      BY ConstantsAssumption DEF ToSet
    <2>7. \A v \in Updates : context'[v] = context[v] \/ context'[v] = <<>>
      BY <1>0, <2>5 DEF TypeMemory, Recorded
    <2>8. ToSet(store') \subseteq saved' /\ saved' \subseteq Turns /\ saved \subseteq saved'
      BY <1>0, <2>1, <2>2, <2>4 DEF TypeMemory
    <2>9. \A v \in Updates : ToSet(context'[v]) \subseteq saved' /\ Len(context'[v]) <= BUDGET
      <3> SUFFICES ASSUME NEW v \in Updates
                   PROVE  ToSet(context'[v]) \subseteq saved' /\ Len(context'[v]) <= BUDGET
        OBVIOUS
      <3>1. CASE context'[v] = context[v]
        BY <1>0, <2>8, <3>1 DEF TypeMemory
      <3>2. CASE context'[v] = <<>>
        BY <2>6, <3>2
      <3> QED
        BY <2>7, <3>1, <3>2
    <2>10. context' \in [Updates -> Seq(Turns)]
      BY <1>0, <2>5, <2>6 DEF TypeMemory, Recorded
    <2> QED
      BY <2>4, <2>8, <2>9, <2>10 DEF TypeMemory, Recorded
  <1>4. ASSUME NEW u \in Updates, Clear(u)
        PROVE  TypeMemory'
    <2>1. (store' = store \/ store' = <<>>) /\ UNCHANGED <<context, saved>>
      BY <1>4 DEF Clear
    <2>2. <<>> \in Seq(Turns) /\ ToSet(<<>>) = {}
      BY DEF ToSet
    <2> QED
      BY <1>0, <2>1, <2>2 DEF TypeMemory, Recorded
  <1>5. ASSUME \/ ClaimBatch \/ Tick \/ FlagExpires \/ CreditPayment \/ ClearLowBalanceWarning
               \/ UNCHANGED vars
               \/ \E u \in Updates : RunPipeline(u) \/ Bill(u) \/ SetFlag(u) \/ Warn(u)
        PROVE  UNCHANGED <<store, context, saved>>
    BY <1>5 DEF ClaimBatch, Tick, FlagExpires, CreditPayment, ClearLowBalanceWarning,
                RunPipeline, Bill, SetFlag, Warn, vars, memory
  <1> QED
    BY <1>1, <1>2, <1>3, <1>4, <1>5 DEF Next, Task

\* Every step keeps the types of the balance and of its warning.
LEMMA NextTypeMoney ==
  ASSUME SInv, [Next]_vars
  PROVE  TypeMoney'
  <1>0. TypeMoney
    BY TypesSplit DEF SInv
  <1> DEFINE Flags == [asof : 0 .. MaxPayments, late : BOOLEAN, set : BOOLEAN]
  <1>1. 0 \in 0 .. MaxPayments /\ NoFlag \in Flags
    <2>1. 0 \in 0 .. MaxPayments /\ FALSE \in BOOLEAN
      BY ConstantsAssumption
    <2> QED
      BY <2>1, Zenon DEF NoFlag
  <1>2. \A u \in Updates : Raised(u) \in Flags
    <2> SUFFICES ASSUME NEW u \in Updates PROVE Raised(u) \in Flags
      OBVIOUS
    <2>1. asof[u] \in 0 .. MaxPayments
      BY <1>0 DEF TypeMoney
    <2>2. (asof[u] < paid) \in BOOLEAN /\ TRUE \in BOOLEAN
      OBVIOUS
    <2> QED
      BY <2>1, <2>2, Zenon DEF Raised
  <1> HIDE DEF Flags
  <1>3. /\ balance \in 0 .. (2 + MaxPayments) /\ paid \in 0 .. MaxPayments
        /\ tasks \in 0 .. MaxPayments /\ asof \in [Updates -> 0 .. MaxPayments]
        /\ flag \in Flags /\ uncleared \in BOOLEAN /\ balance <= 2 + paid /\ tasks <= paid
        /\ MaxPayments \in Nat
    BY <1>0, ConstantsAssumption DEF TypeMoney, Counts, Flags
  <1> SUFFICES /\ balance' \in 0 .. (2 + MaxPayments) /\ paid' \in 0 .. MaxPayments
               /\ tasks' \in 0 .. MaxPayments /\ asof' \in [Updates -> 0 .. MaxPayments]
               /\ flag' \in Flags /\ uncleared' \in BOOLEAN
               /\ balance' <= 2 + paid' /\ tasks' <= paid'
    BY DEF TypeMoney, Counts, Flags
  <1>4. CASE UNCHANGED money
    BY <1>3, <1>4 DEF money
  <1>5. CASE CreditPayment
    <2>1. /\ paid < MaxPayments /\ paid' = paid + 1 /\ balance' = balance + 1 /\ tasks' = tasks + 1
          /\ UNCHANGED <<asof, flag, uncleared>>
      BY <1>5 DEF CreditPayment, Publish
    <2>2. /\ balance' \in 0 .. (2 + MaxPayments) /\ paid' \in 0 .. MaxPayments
          /\ tasks' \in 0 .. MaxPayments /\ balance' <= 2 + paid' /\ tasks' <= paid'
      BY <1>3, <2>1
    <2> QED
      BY <1>3, <2>1, <2>2
  <1>6. CASE FlagExpires
    BY <1>1, <1>3, <1>6 DEF FlagExpires
  <1>7. CASE ClearLowBalanceWarning
    <2>1. /\ tasks > 0 /\ tasks' = tasks - 1 /\ UNCHANGED <<balance, paid, asof>>
          /\ flag' = flag \/ flag' = NoFlag
      BY <1>7 DEF ClearLowBalanceWarning
    <2>2. uncleared' \in BOOLEAN /\ flag' \in Flags
      BY <1>1, <1>3, <1>7 DEF ClearLowBalanceWarning
    <2>3. tasks' \in 0 .. MaxPayments /\ tasks' <= paid'
      BY <1>3, <2>1
    <2> QED
      BY <1>3, <2>1, <2>2, <2>3
  <1>8. ASSUME NEW u \in Updates, Bill(u)
        PROVE  /\ balance' \in 0 .. (2 + MaxPayments) /\ balance' <= 2 + paid'
               /\ asof' \in [Updates -> 0 .. MaxPayments]
               /\ UNCHANGED <<paid, tasks, flag, uncleared>>
    <2>1. PICK cost \in {0, 1} : balance' = IF cost <= balance THEN balance - cost ELSE balance
      BY <1>8 DEF Bill
    <2>2. UNCHANGED <<paid, tasks, flag, uncleared>> /\ (asof' = asof \/ asof' = [asof EXCEPT ![u] = paid])
      BY <1>8 DEF Bill
    <2>3. balance' \in 0 .. (2 + MaxPayments) /\ balance' <= 2 + paid'
      BY <1>3, <2>1, <2>2
    <2> QED
      BY <1>3, <2>2, <2>3
  <1>9. ASSUME NEW u \in Updates, SetFlag(u)
        PROVE  /\ asof' \in [Updates -> 0 .. MaxPayments] /\ flag' \in Flags
               /\ UNCHANGED <<balance, paid, tasks, uncleared>>
    BY <1>1, <1>2, <1>3, <1>9 DEF SetFlag
  <1>10. ASSUME ClaimBatch \/ Tick \/ UNCHANGED vars
                \/ \E u \in Updates : RunPipeline(u) \/ GetHistory(u) \/ AppendTurns(u) \/ Clear(u) \/ Warn(u)
         PROVE  UNCHANGED money
    BY <1>10 DEF ClaimBatch, Tick, RunPipeline, GetHistory, AppendTurns, Clear, Warn, vars
  <1> QED
    BY <1>3, <1>4, <1>5, <1>6, <1>7, <1>8, <1>9, <1>10 DEF Next, Task

\* Every step keeps the types, the places and the batches.
LEMMA NextSInv == SInv /\ [Next]_vars => SInv'
  <1> SUFFICES ASSUME SInv, [Next]_vars PROVE SInv'
    OBVIOUS
  <1>1. TypeControl' /\ TypeMemory' /\ TypeMoney'
    BY NextTypeControl, NextTypeMemory, NextTypeMoney
  <1>2. TypeOK' /\ Counts' /\ Recorded'
    BY <1>1 DEF TypeOK, TypeControl, TypeMemory, TypeMoney
  <1> QED
    BY <1>2, NextPlaced, NextInBatches DEF SInv

\* For any updates, limits, payments and faults: at most as many handlers are
\* pending as payments were made, no prompt holds more turns than fit, and
\* none that was never stored.
THEOREM TypeCorrect == Spec => []TypeOK
  <1>1. SInv => TypeOK
    BY DEF SInv
  <1> QED
    BY <1>1, InitSInv, NextSInv, PTL DEF Spec
-----------------------------------------------------------------------------
\* What the limiter's entries hold: updates that were counted; all of a window
\* that still matters to an update that has read the time and is not counted
\* yet.  The tasks of a batch have read the same time.
Limited ==
  /\ \A v \in entries : verdict[v] # "none"
  /\ \A u \in Updates : stamp[u] <= now
  /\ \A u, v \in Updates : phase[u] = "limit" /\ phase[v] = "limit" => stamp[u] = stamp[v]
  /\ \A v \in Updates \ entries : verdict[v] = "allowed" =>
       /\ stamp[v] + WINDOW <= now
       /\ \A u \in Updates : phase[u] = "limit" => stamp[v] + WINDOW <= stamp[u]

LInv == SInv /\ Limited /\ RateLimited

\* At the start nothing was asked of the limiter.
LEMMA InitLInv == Init => LInv
  <1> SUFFICES ASSUME Init PROVE LInv
    OBVIOUS
  <1>1. Limited
    BY DEF Init, Limited
  <1>2. \A t \in 0 .. MaxTime : {u \in Within(t) : verdict[u] = "allowed"} = {}
    BY DEF Init, Within
  <1>3. \A u \in Updates : verdict[u] # "denied"
    BY DEF Init
  <1>4. RateLimited
    <2>1. Cardinality({}) = 0 /\ 0 <= RPM
      BY FS_EmptySet, ConstantsAssumption
    <2> QED
      BY <1>2, <1>3, <2>1 DEF RateLimited
  <1> QED
    BY <1>1, <1>4, InitSInv DEF LInv

\* A step that counts no update keeps the limit.
LEMMA RateFrame ==
  ASSUME RateLimited, UNCHANGED verdict,
         \A u \in Updates : verdict[u] # "none" => stamp'[u] = stamp[u]
  PROVE  RateLimited'
  <1>1. \A t : {u \in Within(t) : verdict[u] = "allowed"}' = {u \in Within(t) : verdict[u] = "allowed"}
    BY DEF Within
  <1>2. \A u \in Updates : verdict[u] # "none" =>
          {v \in Updates \ {u} : verdict[v] # "none" /\ stamp[v] + WINDOW > stamp[u]}'
            = {v \in Updates \ {u} : verdict[v] # "none" /\ stamp[v] + WINDOW > stamp[u]}
    OBVIOUS
  <1>3. \A t \in 0 .. MaxTime : Cardinality({u \in Within(t) : verdict[u] = "allowed"}') <= RPM
    BY <1>1 DEF RateLimited
  <1>4. \A u \in Updates : verdict'[u] = "denied" =>
          Cardinality({v \in Updates \ {u} : verdict[v] # "none" /\ stamp[v] + WINDOW > stamp[u]}') >= RPM
    BY <1>2 DEF RateLimited
  <1> QED
    BY <1>3, <1>4 DEF RateLimited

\* The limiter's variables.
LEMMA LimiterTypes ==
  ASSUME SInv
  PROVE  /\ entries \subseteq Updates /\ now \in Nat /\ WINDOW \in Nat /\ RPM \in Nat
         /\ verdict \in [Updates -> {"none", "denied", "allowed", "open"}]
         /\ \A u \in Updates : stamp[u] \in Nat /\ Placed(u)
  <1>1. /\ entries \subseteq Updates
        /\ verdict \in [Updates -> {"none", "denied", "allowed", "open"}]
        /\ stamp \in [Updates -> 0 .. MaxTime] /\ now \in 0 .. MaxTime
        /\ \A u \in Updates : Placed(u)
    BY DEF SInv, TypeOK
  <1>2. WINDOW \in Nat /\ RPM \in Nat /\ MaxTime \in Nat
    BY ConstantsAssumption
  <1> QED
    BY <1>1, <1>2

\* Every step keeps what the entries hold.
LEMMA NextLimited ==
  ASSUME LInv, [Next]_vars
  PROVE  Limited'
  <1>0. /\ SInv /\ Limited /\ entries \subseteq Updates /\ now \in Nat /\ WINDOW \in Nat
        /\ verdict \in [Updates -> {"none", "denied", "allowed", "open"}]
        /\ \A u \in Updates : stamp[u] \in Nat /\ Placed(u)
    BY LimiterTypes DEF LInv
  <1>1. CASE ClaimBatch
    <2>1. PICK rows \in SUBSET Unclaimed :
            /\ phase' = [u \in Updates |-> IF u \in rows THEN "limit" ELSE phase[u]]
            /\ stamp' = [u \in Updates |-> IF u \in rows THEN now ELSE stamp[u]]
      BY <1>0, <1>1, ClaimFacts
    <2>2. UNCHANGED <<now, entries, verdict>> /\ \A u \in Updates : phase[u] # "limit"
      BY <1>1 DEF ClaimBatch, BatchEnded
    <2>3. \A u \in rows : verdict[u] = "none"
      BY <1>0 DEF Unclaimed, Placed
    <2> QED
      BY <1>0, <2>1, <2>2, <2>3 DEF Limited
  <1>2. CASE Tick
    <2>1. now' = now + 1 /\ UNCHANGED <<phase, stamp, entries, verdict>>
      BY <1>2 DEF Tick, limiter
    <2> QED
      BY <1>0, <2>1 DEF Limited
  <1>3. ASSUME NEW u \in Updates, RunPipeline(u)
        PROVE  Limited'
    <2>1. /\ phase[u] = "limit" /\ UNCHANGED <<now, stamp>>
          /\ \E answer \in {"denied", "allowed", "open"} : verdict' = [verdict EXCEPT ![u] = answer]
          /\ \E q \in {"done", "message", "clear"} : phase' = [phase EXCEPT ![u] = q]
          /\ entries' = entries \/ entries' = Recent(u) \cup {u}
      BY <1>3, UpdatesAreNumbered DEF RunPipeline, Admits, At, Goto
    <2>2. \A v \in Updates : v # u => verdict'[v] = verdict[v]
      BY <1>0, <2>1
    <2>3. verdict'[u] # "none" /\ (entries' = entries => verdict'[u] = "open")
      BY <1>0, <1>3, <2>1 DEF RunPipeline, Admits, Limited, Placed
    <2>4. \A v \in Updates : phase'[v] = "limit" => phase[v] = "limit"
      BY <1>0, <2>1 DEF SInv, TypeOK
    <2>5. \A v \in entries' : verdict'[v] # "none"
      BY <1>0, <2>1, <2>2, <2>3 DEF Limited, Recent
    <2>6. ASSUME NEW v \in Updates, v \notin entries', verdict'[v] = "allowed"
          PROVE  /\ stamp[v] + WINDOW <= now
                 /\ \A w \in Updates : phase[w] = "limit" => stamp[v] + WINDOW <= stamp[w]
      <3>1. v # u
        BY <2>1, <2>3, <2>6
      <3>2. CASE v \notin entries
        BY <1>0, <2>2, <2>6, <3>1, <3>2 DEF Limited
      <3>3. CASE v \in entries
        <4>1. stamp[v] + WINDOW <= stamp[u]
          BY <1>0, <2>1, <2>6, <3>3 DEF Recent
        <4>2. stamp[u] <= now /\ \A w \in Updates : phase[w] = "limit" => stamp[w] = stamp[u]
          BY <1>0, <2>1 DEF Limited
        <4>3. stamp[v] + WINDOW <= now
          BY <1>0, <4>1, <4>2
        <4> QED
          BY <4>1, <4>2, <4>3
      <3> QED
        BY <3>2, <3>3
    <2> QED
      BY <1>0, <2>1, <2>4, <2>5, <2>6 DEF Limited
  <1>4. ASSUME UNCHANGED <<now, stamp, entries, verdict>>,
               \A u \in Updates : phase'[u] = "limit" => phase[u] = "limit"
        PROVE  Limited'
    BY <1>0, <1>4 DEF Limited
  <1>5. ASSUME NEW u \in Updates, Task(u), ~RunPipeline(u)
        PROVE  Limited'
    <2>1. UNCHANGED <<now, stamp, entries, verdict>>
      BY <1>5 DEF Task, GetHistory, AppendTurns, Clear, Bill, SetFlag, Warn, limiter
    <2>2. \A v \in Updates : phase'[v] = "limit" => phase[v] = "limit"
      BY <1>0, <1>5, TaskFacts DEF SInv, TypeOK
    <2> QED
      BY <1>4, <2>1, <2>2
  <1>6. CASE FlagExpires \/ CreditPayment \/ ClearLowBalanceWarning \/ UNCHANGED vars
    BY <1>4, <1>6 DEF FlagExpires, CreditPayment, ClearLowBalanceWarning, vars, limiter
  <1> QED
    BY <1>1, <1>2, <1>3, <1>5, <1>6 DEF Next

\* Counting an update keeps the limit: the entries that are not too old are at
\* least all updates that were admitted in any window the update is in, and at
\* most all others that were counted.
LEMMA CountedWithinRate ==
  ASSUME LInv, NEW u \in Updates, RunPipeline(u)
  PROVE  RateLimited'
  <1>0. /\ SInv /\ Limited /\ RateLimited /\ entries \subseteq Updates /\ WINDOW \in Nat /\ RPM \in Nat
        /\ verdict \in [Updates -> {"none", "denied", "allowed", "open"}]
        /\ \A v \in Updates : stamp[v] \in Nat /\ Placed(v)
        /\ IsFiniteSet(Updates)
    BY LimiterTypes, UpdatesAreNumbered DEF LInv
  <1>1. PICK answer \in {"denied", "allowed", "open"} :
          /\ verdict' = [verdict EXCEPT ![u] = answer]
          /\ answer # "open" => answer = IF Cardinality(Recent(u)) >= RPM THEN "denied" ELSE "allowed"
    BY DEF RunPipeline, Admits, Exceeded
  <1>2. /\ phase[u] = "limit" /\ stamp' = stamp /\ verdict[u] = "none"
        /\ verdict'[u] = answer /\ \A v \in Updates : v # u => verdict'[v] = verdict[v]
    BY <1>0, <1>1 DEF RunPipeline, At, Placed
  <1>3. /\ Recent(u) \subseteq Updates \ {u} /\ IsFiniteSet(Recent(u)) /\ Cardinality(Recent(u)) \in Nat
        /\ \A v \in Recent(u) : verdict[v] # "none" /\ stamp[v] + WINDOW > stamp[u]
    <2>1. /\ Recent(u) \subseteq Updates \ {u}
          /\ \A v \in Recent(u) : verdict[v] # "none" /\ stamp[v] + WINDOW > stamp[u]
      BY <1>0, <1>2 DEF Recent, Limited
    <2>2. IsFiniteSet(Recent(u))
      BY <1>0, <2>1, FS_Subset
    <2> QED
      BY <2>1, <2>2, FS_CardinalityType
  <1>4. ASSUME NEW t \in 0 .. MaxTime
        PROVE  Cardinality({v \in Within(t) : verdict[v] = "allowed"}') <= RPM
    <2> DEFINE Old == {v \in Within(t) : verdict[v] = "allowed"}
    <2> DEFINE New == {v \in Within(t) : verdict[v] = "allowed"}'
    <2>1. Cardinality(Old) <= RPM
      BY <1>0 DEF RateLimited
    <2>2. New = {v \in Updates : verdict'[v] = "allowed" /\ stamp[v] <= t /\ stamp[v] + WINDOW > t}
      BY <1>2 DEF Within
    <2>3. Old = {v \in Updates : verdict[v] = "allowed" /\ stamp[v] <= t /\ stamp[v] + WINDOW > t}
      BY DEF Within
    <2>4. CASE u \notin New
      <3>1. New = Old
        BY <1>2, <2>2, <2>3, <2>4
      <3> QED
        BY <2>1, <3>1
    <2>5. CASE u \in New
      <3>1. answer = "allowed" /\ stamp[u] <= t
        BY <1>2, <2>2, <2>5
      <3>2. Cardinality(Recent(u)) < RPM
        BY <1>0, <1>1, <1>3, <3>1
      <3>3. Old \subseteq Recent(u)
        <4> SUFFICES ASSUME NEW v \in Old PROVE v \in Recent(u)
          OBVIOUS
        <4>1. v \in Updates /\ verdict[v] = "allowed" /\ stamp[v] + WINDOW > t
          BY <2>3
        <4>2. stamp[v] + WINDOW > stamp[u]
          BY <1>0, <3>1, <4>1
        <4>3. v \in entries
          BY <1>0, <1>2, <4>1, <4>2 DEF Limited
        <4> QED
          BY <4>2, <4>3 DEF Recent
      <3>4. New \subseteq Recent(u) \cup {u}
        BY <1>2, <2>2, <2>3, <3>3
      <3> HIDE DEF New, Old
      <3>5. IsFiniteSet(Recent(u) \cup {u}) /\ Cardinality(Recent(u) \cup {u}) = Cardinality(Recent(u)) + 1
        BY <1>3, FS_AddElement
      <3>6. IsFiniteSet(New) /\ Cardinality(New) <= Cardinality(Recent(u)) + 1
        BY <3>4, <3>5, FS_Subset
      <3>7. Cardinality(New) \in Nat
        BY <3>6, FS_CardinalityType
      <3>8. Cardinality(New) <= RPM
        BY <1>0, <1>3, <3>2, <3>6, <3>7
      <3> QED
        BY <3>8 DEF New
    <2> QED
      BY <2>4, <2>5
  <1>5. ASSUME NEW w \in Updates, verdict'[w] = "denied"
        PROVE  Cardinality({v \in Updates \ {w} : verdict[v] # "none" /\ stamp[v] + WINDOW > stamp[w]}') >= RPM
    <2> DEFINE New == {v \in Updates \ {w} : verdict'[v] # "none" /\ stamp[v] + WINDOW > stamp[w]}
    <2>1. New \subseteq Updates /\ {v \in Updates \ {w} : verdict[v] # "none" /\ stamp[v] + WINDOW > stamp[w]}' = New
      BY <1>2
    <2> DEFINE Old == {v \in Updates \ {w} : verdict[v] # "none" /\ stamp[v] + WINDOW > stamp[w]}
    <2>2. PICK S \in {Recent(u), Old} : S \subseteq New /\ Cardinality(S) >= RPM
      <3>1. CASE w = u
        <4>1. Cardinality(Recent(u)) >= RPM
          BY <1>0, <1>1, <1>2, <1>3, <1>5, <3>1
        <4>2. Recent(u) \subseteq New
          BY <1>0, <1>2, <1>3, <3>1
        <4> QED
          BY <4>1, <4>2
      <3>2. CASE w # u
        <4>1. Cardinality(Old) >= RPM
          BY <1>0, <1>2, <1>5, <3>2 DEF RateLimited
        <4>2. Old \subseteq New
          BY <1>1, <1>2, <3>2
        <4> QED
          BY <4>1, <4>2
      <3> QED
        BY <3>1, <3>2
    <2> HIDE DEF New, Old
    <2>3. IsFiniteSet(New) /\ Cardinality(New) \in Nat
      BY <1>0, <2>1, FS_Subset, FS_CardinalityType
    <2>4. Cardinality(S) <= Cardinality(New) /\ Cardinality(S) \in Nat
      BY <2>2, <2>3, FS_Subset, FS_CardinalityType
    <2>5. Cardinality(New) >= RPM
      BY <1>0, <2>2, <2>3, <2>4
    <2> QED
      BY <2>1, <2>5
  <1> QED
    BY <1>4, <1>5 DEF RateLimited

\* Every step keeps the limit.
LEMMA NextLInv == LInv /\ [Next]_vars => LInv'
  <1> SUFFICES ASSUME LInv, [Next]_vars PROVE LInv'
    OBVIOUS
  <1>1. SInv' /\ Limited'
    BY NextSInv, NextLimited DEF LInv
  <1>2. RateLimited'
    <2>1. CASE \E u \in Updates : RunPipeline(u)
      BY <2>1, CountedWithinRate
    <2>2. CASE ClaimBatch
      <3>1. PICK rows \in SUBSET Unclaimed :
              stamp' = [u \in Updates |-> IF u \in rows THEN now ELSE stamp[u]]
        BY <2>2, ClaimFacts DEF LInv
      <3>2. verdict' = verdict /\ \A u \in Updates : verdict[u] # "none" => stamp'[u] = stamp[u]
        BY <2>2, <3>1 DEF ClaimBatch, LInv, SInv, Placed, Unclaimed
      <3> QED
        BY <3>2, RateFrame DEF LInv
    <2>3. CASE UNCHANGED <<verdict, stamp>>
      BY <2>3, RateFrame DEF LInv
    <2> QED
      BY <2>1, <2>2, <2>3
      DEF Next, Task, Tick, FlagExpires, CreditPayment, ClearLowBalanceWarning, GetHistory,
          AppendTurns, Clear, Bill, SetFlag, Warn, vars, limiter
  <1> QED
    BY <1>1, <1>2 DEF LInv

(***************************************************************************)
(* For any updates, batches, RPM, window and faults: no window admits more *)
(* than RPM updates while Redis answers, and who is denied had made RPM    *)
(* others (rate_limiter.py), although the entries are pruned by each       *)
(* update at its own time and the tasks of a batch run in any order.       *)
(***************************************************************************)
THEOREM RateLimitedAlways == Spec => []RateLimited
  <1>1. LInv => RateLimited
    BY DEF LInv
  <1> QED
    BY <1>1, InitLInv, NextLInv, PTL DEF Spec
-----------------------------------------------------------------------------
\* Whose turns are stored was answered.
Said == \A t \in saved : t.of \in Updates /\ phase[t.of] \in {"bill", "flag", "warn", "done"}

MInv == SInv /\ Said /\ ConversationInOrder

\* At the start nothing was said.
LEMMA InitMInv == Init => MInv
  <1> SUFFICES ASSUME Init PROVE MInv
    OBVIOUS
  <1>1. saved = {} /\ ToSet(store) = {}
    BY DEF Init, ToSet
  <1> QED
    BY <1>1, InitSInv
    DEF MInv, Said, ConversationInOrder, ClearedStaysCleared, NothingElseForgotten, KnowsTheConversation

\* What no step takes back of an update that is claimed.
LEMMA StepsKeep ==
  ASSUME SInv, [Next]_vars, NEW v \in Updates, phase[v] # "queued"
  PROVE  /\ batch'[v] = batch[v] /\ phase'[v] # "queued"
         /\ phase[v] = "done" => phase'[v] = "done" /\ verdict'[v] = verdict[v] /\ (v \in wrong' => v \in wrong)
  <1>0. TypeControl
    BY TypesSplit DEF SInv
  <1>1. CASE ClaimBatch
    <2>1. PICK rows \in SUBSET Unclaimed :
            /\ phase' = [u \in Updates |-> IF u \in rows THEN "limit" ELSE phase[u]]
            /\ batch' = [u \in Updates |-> IF u \in rows THEN Cardinality(Batches) + 1 ELSE batch[u]]
      BY <1>1, ClaimFacts
    <2>2. v \notin rows /\ UNCHANGED <<verdict, wrong>>
      BY <1>1 DEF Unclaimed, ClaimBatch, memory
    <2> QED
      BY <2>1, <2>2
  <1>2. ASSUME NEW u \in Updates, Task(u)
        PROVE  /\ batch'[v] = batch[v] /\ phase'[v] # "queued"
               /\ phase[v] = "done" => phase'[v] = "done" /\ verdict'[v] = verdict[v] /\ (v \in wrong' => v \in wrong)
    <2>1. /\ phase[u] \notin {"queued", "done"} /\ batch' = batch
          /\ \E q \in {"message", "clear", "answer", "bill", "flag", "warn", "done"} :
               phase' = [phase EXCEPT ![u] = q]
      BY <1>2, TaskFacts
    <2>2. v # u => phase'[v] = phase[v]
      BY <1>0, <2>1 DEF TypeControl
    <2>3. v # u => verdict'[v] = verdict[v] /\ (v \in wrong' => v \in wrong)
      BY <1>0, <1>2 DEF Task, RunPipeline, GetHistory, AppendTurns, Clear, Bill, SetFlag, Warn,
                        Admits, limiter, memory, TypeControl
    <2>4. phase'[v] # "queued"
      BY <1>0, <2>1 DEF TypeControl
    <2> QED
      BY <2>1, <2>2, <2>3, <2>4
  <1>3. CASE Tick \/ FlagExpires \/ CreditPayment \/ ClearLowBalanceWarning \/ UNCHANGED vars
    BY <1>3 DEF Tick, FlagExpires, CreditPayment, ClearLowBalanceWarning, vars, limiter, memory
  <1> QED
    BY <1>1, <1>2, <1>3 DEF Next

\* A /clear that was executed stays so.
LEMMA ForgetsStays ==
  ASSUME SInv, [Next]_vars, NEW c \in Updates, NEW m \in Updates,
         phase[m] # "queued", Forgets(c, m)
  PROVE  Forgets(c, m)'
  BY StepsKeep DEF Forgets, At

\* Only a /clear that deletes the history becomes an executed one.
LEMMA ForgetsNew ==
  ASSUME SInv, [Next]_vars, NEW c \in Updates, NEW m \in Updates,
         phase[m] # "queued", Forgets(c, m)', ~Forgets(c, m)
  PROVE  store' = <<>>
  <1>0. TypeControl /\ Placed(c)
    BY TypesSplit DEF SInv
  <1>1. Kinds[c] = "clear" /\ phase'[c] = "done" /\ verdict'[c] # "denied" /\ c \notin wrong'
    BY DEF Forgets, At
  <1>2. phase[c] # "done"
    <2> SUFFICES ASSUME phase[c] = "done" PROVE FALSE
      OBVIOUS
    <2>1. wrong \subseteq wrong'
      BY DEF Next, Task, RunPipeline, GetHistory, AppendTurns, Clear, Bill, SetFlag, Warn, Tick,
             ClaimBatch, FlagExpires, CreditPayment, ClearLowBalanceWarning, vars, memory
    <2> QED
      BY <1>1, <2>1, StepsKeep DEF Forgets, At
  <1>3. PICK u \in Updates : Task(u)
    <2>1. ~ClaimBatch
      <3> SUFFICES ASSUME ClaimBatch PROVE FALSE
        OBVIOUS
      <3>1. PICK rows \in SUBSET Unclaimed :
              phase' = [v \in Updates |-> IF v \in rows THEN "limit" ELSE phase[v]]
        BY ClaimFacts
      <3> QED
        BY <1>1, <1>2, <3>1
    <2>2. phase' # phase
      BY <1>1, <1>2
    <2> QED
      BY <2>1, <2>2 DEF Next, Tick, FlagExpires, CreditPayment, ClearLowBalanceWarning, vars
  <1>4. u = c
    <2>1. \E q \in {"message", "clear", "answer", "bill", "flag", "warn", "done"} :
            phase' = [phase EXCEPT ![u] = q]
      BY <1>3, TaskFacts
    <2> QED
      BY <1>0, <1>1, <1>2, <2>1 DEF TypeControl
  <1>5. ~RunPipeline(c)
    <2> SUFFICES ASSUME RunPipeline(c) PROVE FALSE
      OBVIOUS
    <2>1. PICK answer \in {"denied", "allowed", "open"} :
            /\ verdict' = [verdict EXCEPT ![c] = answer]
            /\ phase' = [phase EXCEPT ![c] = IF answer = "denied" THEN "done" ELSE Kinds[c]]
      BY DEF RunPipeline, Admits, Goto
    <2> QED
      BY <1>0, <1>1, <2>1 DEF TypeControl
  <1>6. ~GetHistory(c) /\ ~AppendTurns(c) /\ ~Bill(c) /\ ~SetFlag(c) /\ ~Warn(c)
    BY <1>0, <1>1 DEF GetHistory, AppendTurns, Bill, SetFlag, Warn, At, Placed
  <1>7. Clear(c)
    BY <1>3, <1>4, <1>5, <1>6 DEF Task
  <1> QED
    BY <1>1, <1>7 DEF Clear

\* Where the history grows, it is by the turns of one update that was being
\* answered; where it shrinks, a /clear was executed.
LEMMA HistorySteps ==
  ASSUME SInv, [Next]_vars
  PROVE  \/ UNCHANGED <<store, saved>>
         \/ /\ store' = <<>> /\ saved' = saved
            /\ \E c \in Updates : /\ Kinds[c] = "clear" /\ phase[c] = "clear" /\ c \notin wrong'
                                  /\ phase'[c] = "done" /\ verdict'[c] = verdict[c]
         \/ \E u \in Updates, new \in SUBSET Turns :
              /\ phase[u] = "answer" /\ phase'[u] = "bill" /\ \A t \in new : t.of = u
              /\ ToSet(store') = ToSet(store) \cup new /\ saved' = saved \cup new
  <1>0. TypeControl /\ \A u \in Updates : Placed(u)
    BY TypesSplit DEF SInv
  <1>1. ASSUME NEW u \in Updates, AppendTurns(u)
        PROVE  \E new \in SUBSET Turns :
                 /\ phase[u] = "answer" /\ phase'[u] = "bill" /\ \A t \in new : t.of = u
                 /\ ToSet(store') = ToSet(store) \cup new /\ saved' = saved \cup new
    <2>1. PICK stored \in {<<>>, TurnsOf(u)} \cup {<<TurnsOf(u)[i]>> : i \in {1, 2}} :
            store' = store \o stored /\ saved' = saved \cup ToSet(stored)
      BY <1>1 DEF AppendTurns
    <2>2. stored \in Seq(Turns) /\ \A t \in ToSet(stored) : t.of = u
      BY <2>1, StoredFacts
    <2>3. ToSet(stored) \in SUBSET Turns
      BY <2>2 DEF ToSet
    <2>4. ToSet(store') = ToSet(store) \cup ToSet(stored)
      BY <2>1, <2>2, TurnsOfBoth DEF SInv, Recorded
    <2>5. phase[u] = "answer" /\ phase'[u] = "bill"
      BY <1>0, <1>1 DEF AppendTurns, At, Goto, TypeControl
    <2> QED
      BY <2>1, <2>2, <2>3, <2>4, <2>5
  <1>2. ASSUME NEW c \in Updates, Clear(c)
        PROVE  \/ UNCHANGED <<store, saved>>
               \/ /\ store' = <<>> /\ saved' = saved
                  /\ Kinds[c] = "clear" /\ phase[c] = "clear" /\ c \notin wrong'
                  /\ phase'[c] = "done" /\ verdict'[c] = verdict[c]
    BY <1>0, <1>2 DEF Clear, At, Goto, TypeControl, Placed, limiter
  <1>3. ASSUME \/ ClaimBatch \/ Tick \/ FlagExpires \/ CreditPayment \/ ClearLowBalanceWarning
               \/ UNCHANGED vars
               \/ \E u \in Updates : RunPipeline(u) \/ GetHistory(u) \/ Bill(u) \/ SetFlag(u) \/ Warn(u)
        PROVE  UNCHANGED <<store, saved>>
    BY <1>3 DEF ClaimBatch, Tick, FlagExpires, CreditPayment, ClearLowBalanceWarning,
                RunPipeline, GetHistory, Bill, SetFlag, Warn, vars, memory
  <1>4. CASE \E u \in Updates : AppendTurns(u)
    BY <1>1, <1>4
  <1>5. CASE \E c \in Updates : Clear(c)
    BY <1>2, <1>5
  <1> QED
    BY <1>3, <1>4, <1>5 DEF Next, Task

\* An update that has ended neither overtakes nor is overtaken by one that has
\* not, but within a batch.
LEMMA SideBySide ==
  ASSUME SInv, NEW u \in Updates, NEW v \in Updates, u < v,
         phase[u] \notin {"queued", "done"}, phase[v] # "queued"
  PROVE  batch[u] = batch[v]
  <1>1. Placed(u) /\ Placed(v) /\ InBatches
    BY DEF SInv
  <1>2. batch[u] \in Nat /\ batch[v] \in Nat
    <2>1. batch \in [Updates -> 0 .. Len(Kinds)] /\ Len(Kinds) \in Nat
      BY UpdatesAreNumbered DEF SInv, TypeOK
    <2> QED
      BY <2>1
  <1> QED
    BY <1>1, <1>2 DEF Placed, InBatches

\* What is said was answered before.
LEMMA NextSaid ==
  ASSUME MInv, [Next]_vars
  PROVE  Said'
  <1>0. SInv /\ Said /\ TypeControl
    BY TypesSplit DEF MInv, SInv
  <1>1. ASSUME NEW v \in Updates, phase[v] \in {"bill", "flag", "warn", "done"}
        PROVE  phase'[v] \in {"bill", "flag", "warn", "done"}
    <2>1. CASE ClaimBatch
      <3>1. PICK rows \in SUBSET Unclaimed :
              phase' = [u \in Updates |-> IF u \in rows THEN "limit" ELSE phase[u]]
        BY <1>0, <2>1, ClaimFacts
      <3> QED
        BY <1>1, <3>1 DEF Unclaimed
    <2>2. ASSUME NEW u \in Updates, Task(u)
          PROVE  phase'[v] \in {"bill", "flag", "warn", "done"}
      <3>1. CASE u # v
        BY <1>0, <1>1, <2>2, <3>1, TaskFacts DEF TypeControl
      <3>2. CASE u = v
        <4>1. \E q \in {"bill", "flag", "warn", "done"} : phase' = [phase EXCEPT ![v] = q]
          BY <1>1, <2>2, <3>2 DEF Task, RunPipeline, GetHistory, AppendTurns, Clear, Bill, SetFlag,
                                  Warn, At, Goto
        <4> QED
          BY <1>0, <4>1 DEF TypeControl
      <3> QED
        BY <3>1, <3>2
    <2>3. CASE Tick \/ FlagExpires \/ CreditPayment \/ ClearLowBalanceWarning \/ UNCHANGED vars
      BY <1>1, <2>3 DEF Tick, FlagExpires, CreditPayment, ClearLowBalanceWarning, vars
    <2> QED
      BY <2>1, <2>2, <2>3 DEF Next
  <1>2. ASSUME NEW t \in saved'
        PROVE  t.of \in Updates /\ phase'[t.of] \in {"bill", "flag", "warn", "done"}
    BY <1>0, <1>1, <1>2, HistorySteps DEF Said
  <1> QED
    BY <1>2 DEF Said

\* What a /clear deleted does not come back.
LEMMA NextCleared ==
  ASSUME MInv, [Next]_vars
  PROVE  ClearedStaysCleared'
  <1>0. SInv /\ Said /\ ClearedStaysCleared /\ TypeMemory
    BY TypesSplit DEF MInv, SInv, ConversationInOrder
  <1> SUFFICES ASSUME NEW c \in Updates, NEW t \in ToSet(store'), Forgets(c, t.of)'
               PROVE  batch'[c] = batch'[t.of]
    BY DEF ClearedStaysCleared
  <1>1. store' # <<>>
    BY DEF ToSet
  <1>2. CASE t \in ToSet(store)
    <2>1. t.of \in Updates /\ phase[t.of] # "queued"
      BY <1>0, <1>2 DEF Said, TypeMemory
    <2>2. Forgets(c, t.of)
      BY <1>0, <1>1, <2>1, ForgetsNew
    <2>3. batch[c] = batch[t.of] /\ phase[c] # "queued"
      BY <1>0, <1>2, <2>2 DEF ClearedStaysCleared, Forgets, At
    <2> QED
      BY <1>0, <2>1, <2>3, StepsKeep
  <1>3. CASE t \notin ToSet(store)
    <2>1. PICK u \in Updates : t.of = u /\ phase[u] = "answer"
      BY <1>0, <1>1, <1>3, HistorySteps
    <2>2. Forgets(c, u)
      BY <1>0, <1>1, <2>1, ForgetsNew
    <2>3. phase[c] = "done" /\ (c > u \/ batch[c] = batch[u])
      BY <2>2 DEF Forgets, At
    <2>4. c \in Nat /\ u \in Nat
      BY UpdatesAreNumbered
    <2>5. batch[c] = batch[u]
      BY <1>0, <2>1, <2>3, <2>4, SideBySide
    <2> QED
      BY <1>0, <2>1, <2>3, <2>5, StepsKeep
  <1> QED
    BY <1>2, <1>3

\* Nothing else is forgotten.
LEMMA NextForgotten ==
  ASSUME MInv, [Next]_vars
  PROVE  NothingElseForgotten'
  <1>0. /\ SInv /\ Said /\ NothingElseForgotten
        /\ \A u \in Updates : Placed(u) /\ u \in Nat
    BY UpdatesAreNumbered DEF MInv, SInv, ConversationInOrder
  <1> SUFFICES ASSUME NEW t \in saved', t \notin ToSet(store')
               PROVE  \E c \in Updates : Forgets(c, t.of)'
    BY DEF NothingElseForgotten
  <1>1. t \in saved
    BY <1>0, HistorySteps
  <1>2. t.of \in Updates /\ phase[t.of] \in {"bill", "flag", "warn", "done"}
    BY <1>0, <1>1 DEF Said
  <1>3. CASE t \notin ToSet(store)
    <2>1. PICK c \in Updates : Forgets(c, t.of)
      BY <1>0, <1>1, <1>3 DEF NothingElseForgotten
    <2> QED
      BY <1>0, <1>2, <2>1, ForgetsStays
  <1>4. CASE t \in ToSet(store)
    <2>1. PICK c \in Updates : /\ Kinds[c] = "clear" /\ phase[c] = "clear" /\ c \notin wrong'
                               /\ phase'[c] = "done" /\ verdict'[c] = verdict[c]
      BY <1>0, <1>4, HistorySteps
    <2>2. verdict'[c] # "denied"
      BY <1>0, <2>1 DEF Placed
    <2>3. c > t.of \/ batch[c] = batch[t.of]
      <3>1. c # t.of
        BY <1>2, <2>1
      <3>2. CASE c < t.of
        BY <1>0, <1>2, <2>1, <3>2, SideBySide
      <3>3. c > t.of \/ c < t.of
        BY <1>0, <1>2, <3>1
      <3> QED
        BY <3>2, <3>3
    <2>4. batch'[c] = batch[c] /\ batch'[t.of] = batch[t.of]
      BY <1>0, <1>2, <2>1, StepsKeep
    <2> QED
      BY <2>1, <2>2, <2>3, <2>4 DEF Forgets, At
  <1> QED
    BY <1>3, <1>4

\* A message is answered with what was said before it.
LEMMA NextKnows ==
  ASSUME MInv, [Next]_vars
  PROVE  KnowsTheConversation'
  <1>0. /\ SInv /\ Said /\ NothingElseForgotten /\ KnowsTheConversation /\ TypeControl /\ TypeMemory
        /\ \A u \in Updates : Placed(u) /\ u \in Nat
    BY TypesSplit, UpdatesAreNumbered DEF MInv, SInv, ConversationInOrder
  <1> SUFFICES ASSUME NEW m \in Updates, NEW t \in saved', t \notin ToSet(context'[m]),
                      t.of < m, phase'[m] = "answer"
               PROVE  \/ batch'[t.of] = batch'[m]
                      \/ Len(context'[m]) = BUDGET
                      \/ m \in wrong'
                      \/ \E c \in Updates : Forgets(c, t.of)'
    BY DEF KnowsTheConversation, At
  <1>1. wrong \subseteq wrong'
    BY DEF Next, Task, RunPipeline, GetHistory, AppendTurns, Clear, Bill, SetFlag, Warn, Tick,
           ClaimBatch, FlagExpires, CreditPayment, ClearLowBalanceWarning, vars, memory
  <1>2. GetHistory(m) \/ (phase[m] = "answer" /\ context'[m] = context[m])
    <2>1. CASE ClaimBatch
      <3>1. PICK rows \in SUBSET Unclaimed :
              phase' = [u \in Updates |-> IF u \in rows THEN "limit" ELSE phase[u]]
        BY <1>0, <2>1, ClaimFacts
      <3> QED
        BY <2>1, <3>1 DEF ClaimBatch, memory
    <2>2. ASSUME NEW u \in Updates, Task(u)
          PROVE  GetHistory(m) \/ (phase[m] = "answer" /\ context'[m] = context[m])
      <3>1. CASE u # m
        <4>1. phase'[m] = phase[m]
          BY <1>0, <2>2, <3>1, TaskFacts DEF TypeControl
        <4>2. context'[m] = context[m]
          BY <1>0, <2>2, <3>1 DEF Task, RunPipeline, GetHistory, AppendTurns, Clear, Bill, SetFlag,
                                  Warn, memory, TypeMemory, Recorded
        <4> QED
          BY <4>1, <4>2
      <3>2. CASE u = m
        <4>1. CASE ~GetHistory(m)
          <5>1. \E q \in {"message", "clear", "bill", "flag", "warn", "done"} :
                  phase' = [phase EXCEPT ![m] = q]
            BY <1>0, <2>2, <3>2, <4>1, UpdatesAreNumbered
            DEF Task, RunPipeline, AppendTurns, Clear, Bill, SetFlag, Warn, Admits, Goto
          <5> QED
            BY <1>0, <5>1 DEF TypeControl
        <4> QED
          BY <4>1
      <3> QED
        BY <3>1, <3>2
    <2>3. CASE Tick \/ FlagExpires \/ CreditPayment \/ ClearLowBalanceWarning \/ UNCHANGED vars
      BY <2>3 DEF Tick, FlagExpires, CreditPayment, ClearLowBalanceWarning, vars, memory
    <2> QED
      BY <2>1, <2>2, <2>3 DEF Next
  <1>3. CASE GetHistory(m)
    <2>1. CASE m \in wrong'
      BY <2>1
    <2>2. CASE m \notin wrong'
      <3>1. context' = [context EXCEPT ![m] = Trim(store)] /\ saved' = saved
        BY <1>3, <2>2 DEF GetHistory
      <3>2. context'[m] = Trim(store)
        BY <1>0, <3>1 DEF TypeMemory, Recorded
      <3>3. CASE Trim(store) = store
        <4>1. t \in saved /\ t \notin ToSet(store)
          BY <3>1, <3>2, <3>3
        <4>2. PICK c \in Updates : Forgets(c, t.of)
          BY <1>0, <4>1 DEF NothingElseForgotten
        <4>3. t.of \in Updates /\ phase[t.of] # "queued"
          BY <1>0, <4>1 DEF Said
        <4> QED
          BY <1>0, <4>2, <4>3, ForgetsStays
      <3>4. CASE Len(Trim(store)) = BUDGET
        BY <3>2, <3>4
      <3> QED
        BY <1>0, <3>3, <3>4, TrimFacts DEF TypeMemory, Recorded
    <2> QED
      BY <2>1, <2>2
  <1>4. CASE phase[m] = "answer" /\ context'[m] = context[m]
    <2>1. CASE t \in saved
      <3>1. t.of \in Updates /\ phase[t.of] # "queued"
        BY <1>0, <2>1 DEF Said
      <3>2. batch'[t.of] = batch[t.of] /\ batch'[m] = batch[m]
        BY <1>0, <1>4, <3>1, StepsKeep
      <3>3. \/ batch[t.of] = batch[m] \/ Len(context[m]) = BUDGET \/ m \in wrong
            \/ \E c \in Updates : Forgets(c, t.of)
        BY <1>0, <1>4, <2>1 DEF KnowsTheConversation, At
      <3>4. CASE \E c \in Updates : Forgets(c, t.of)
        BY <1>0, <3>1, <3>4, ForgetsStays
      <3> QED
        BY <1>1, <1>4, <3>2, <3>3, <3>4
    <2>2. CASE t \notin saved
      <3>1. PICK u \in Updates : t.of = u /\ phase[u] = "answer"
        BY <1>0, <2>2, HistorySteps
      <3>2. batch[u] = batch[m]
        BY <1>0, <1>4, <3>1, SideBySide
      <3>3. batch'[u] = batch[u] /\ batch'[m] = batch[m]
        BY <1>0, <1>4, <3>1, StepsKeep
      <3> QED
        BY <3>1, <3>2, <3>3
    <2> QED
      BY <2>1, <2>2
  <1> QED
    BY <1>2, <1>3, <1>4

(***************************************************************************)
(* For any updates, batches, budgets and faults the conversation follows   *)
(* the order in which the user wrote, but for the updates of one batch:    *)
(* what a /clear deleted stays deleted, nothing else is forgotten, and a   *)
(* message is answered with what was said before it.                       *)
(***************************************************************************)
THEOREM ConversationInOrderAlways == Spec => []ConversationInOrder
  <1>1. MInv /\ [Next]_vars => MInv'
    BY NextSInv, NextSaid, NextCleared, NextForgotten, NextKnows DEF MInv, ConversationInOrder
  <1>2. MInv => ConversationInOrder
    BY DEF MInv
  <1> QED
    BY <1>1, <1>2, InitMInv, PTL DEF Spec
=============================================================================
