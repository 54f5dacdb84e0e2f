---------------------------- MODULE OutboxProofs ----------------------------
(***************************************************************************)
(* The outbox for any replies, drains, batch size, number of retries and   *)
(* number of faults: types, one sender per row, final outcomes, the bound  *)
(* on the copies of a reply, and the refinement of OutboxAbs.              *)
(***************************************************************************)
EXTENDS Outbox, FiniteSetTheorems, TLAPS

\* Only finitely many rows exist at any time, however many replies there are.
FiniteTable == IsFiniteSet({r \in Rows : created[r] # 0})

\* The rows of INSERT requests that are yet to come do not exist.
FutureAbsent ==
  \A m \in Messages, i \in Requests : request[m] <= i => status[<<m, i>>] = "absent"

\* What keeps the hold on a row exclusive and its outcome final.
HInv == TypeOK /\ FiniteTable /\ FutureAbsent /\ ExclusiveSending

\* At the start there are no rows and no drain holds any.
LEMMA InitHInv == Init => HInv
  <1> SUFFICES ASSUME Init PROVE HInv
    OBVIOUS
  <1>1. TypeOK
    BY ConstantsAssumption DEF Init, TypeOK, Requests, Finished, Statuses
  <1>2. {r \in Rows : created[r] # 0} = {}
    BY DEF Init
  <1>3. FiniteTable
    BY <1>2, FS_EmptySet DEF FiniteTable
  <1>4. FutureAbsent
    BY DEF Init, FutureAbsent, Rows
  <1>5. ExclusiveSending
    BY DEF Init, ExclusiveSending, Holds
  <1> QED
    BY <1>1, <1>3, <1>4, <1>5 DEF HInv

\* AddRow makes one row pending, counts it and touches no other.
LEMMA AddRowEffect ==
  ASSUME HInv, NEW r \in Rows, AddRow(r)
  PROVE  /\ calls' \in Nat
         /\ status' \in [Rows -> Statuses]
         /\ retries' \in [Rows -> 0..MAX_RETRIES]
         /\ backoff' \in [Rows -> BOOLEAN]
         /\ created' \in [Rows -> Nat]
         /\ status'[r] = "pending"
         /\ \A q \in Rows : q # r => status'[q] = status[q]
         /\ FiniteTable'
  <1> DEFINE Existing == {q \in Rows : created[q] # 0}
  <1>1. TypeOK /\ IsFiniteSet(Existing)
    BY DEF HInv, FiniteTable
  <1>2. Cardinality(Existing) \in Nat
    BY <1>1, FS_CardinalityType
  <1>3. created' \in [Rows -> Nat]
    BY <1>1, <1>2 DEF AddRow, TypeOK
  <1>4. {q \in Rows : created'[q] # 0} \subseteq Existing \cup {r}
    BY <1>1 DEF AddRow, TypeOK
  <1>5. IsFiniteSet(Existing \cup {r})
    BY <1>1, FS_AddElement
  <1>6. FiniteTable'
    <2>1. IsFiniteSet({q \in Rows : created'[q] # 0})
      BY <1>4, <1>5, FS_Subset
    <2> QED
      BY <2>1 DEF FiniteTable
  <1> QED
    BY <1>1, <1>3, <1>6 DEF AddRow, TypeOK, Statuses

\* A call that comes, gets lost or finds no row ready changes no row, no drain
\* and no count of copies.
LEMMA CallStepEffect ==
  ASSUME HInv, OtherInsert \/ CallLost \/ \E d \in Drains : ReadNothing(d)
  PROVE  /\ UNCHANGED <<request, table, drain, history>>
         /\ calls' \in Nat
         /\ faults' \in 0..MaxFaults
  <1>1. calls \in Nat /\ faults \in 0..MaxFaults
    BY DEF HInv, TypeOK
  <1> QED
    BY <1>1, ConstantsAssumption
    DEF OtherInsert, CallLost, ReadNothing, CallAnswered, FaultHappens

\* The request after an error is a later one.
LEMMA AfterErrorLater ==
  ASSUME NEW i \in Requests, NEW dead \in BOOLEAN
  PROVE  AfterError(i, dead) \in Requests \cup {Finished} /\ AfterError(i, dead) > i
  BY DEF AfterError, Requests, Finished

\* A row of a message, and the row of the next request in particular.
LEMMA RowsOf ==
  /\ \A m \in Messages, i \in Requests : <<m, i>> \in Rows
  /\ \A r \in Rows : Msg(r) \in Messages /\ r = <<Msg(r), r[2]>> /\ r[2] \in Requests
  BY DEF Rows, Msg

\* An insert, whether or not HF hears of it: request[m] creates its row.
LEMMA InsertKeepsHInv ==
  ASSUME HInv, NEW m \in Messages, request[m] # Finished, AddRow(<<m, request[m]>>),
         NEW n \in Requests \cup {Finished}, n > request[m],
         request' = [request EXCEPT ![m] = n],
         UNCHANGED drain,
         lost' \in [Messages -> Nat], UNCHANGED accepted, faults' \in 0..MaxFaults
  PROVE  HInv'
  <1> DEFINE r == <<m, request[m]>>
  <1>1. TypeOK
    BY DEF HInv
  <1>2. request[m] \in Requests /\ r \in Rows
    BY <1>1, RowsOf DEF TypeOK
  <1>3. status[r] = "absent"
    <2>1. FutureAbsent /\ request[m] <= request[m]
      BY <1>2 DEF HInv, Requests
    <2> QED
      BY <1>2, <2>1 DEF FutureAbsent
  <1> HIDE DEF r
  <1>4. /\ calls' \in Nat
        /\ status' \in [Rows -> Statuses] /\ retries' \in [Rows -> 0..MAX_RETRIES]
        /\ backoff' \in [Rows -> BOOLEAN] /\ created' \in [Rows -> Nat]
        /\ status'[r] = "pending"
        /\ \A q \in Rows : q # r => status'[q] = status[q]
        /\ FiniteTable'
    BY <1>2, AddRowEffect DEF r
  <1>5. TypeOK'
    BY <1>1, <1>4 DEF TypeOK, drain
  <1>6. FutureAbsent'
    <2> SUFFICES ASSUME NEW l \in Messages, NEW i \in Requests, request'[l] <= i
                 PROVE  status'[<<l, i>>] = "absent"
      BY DEF FutureAbsent
    <2>1. <<l, i>> # r /\ request[l] <= i
      BY <1>1, <1>2 DEF r, TypeOK, Requests, Finished
    <2> QED
      BY <1>4, <2>1, RowsOf DEF HInv, FutureAbsent
  <1>7. ExclusiveSending'
    <2>1. \A d \in Drains, q \in Rows : Holds(d, q)' = Holds(d, q)
      BY DEF Holds, drain
    <2>2. \A d \in Drains, q \in Rows : Holds(d, q) => status'[q] = "processing"
      BY <1>3, <1>4 DEF HInv, ExclusiveSending
    <2> QED
      BY <2>1, <2>2 DEF HInv, ExclusiveSending
  <1> QED
    BY <1>4, <1>5, <1>6, <1>7 DEF HInv

\* A step of a drain that creates no row: FutureAbsent holds if no absent row
\* changed, and the table stays finite.
LEMMA SameRows ==
  ASSUME HInv, UNCHANGED <<request, created>>,
         \A r \in Rows : status[r] = "absent" => status'[r] = "absent"
  PROVE  FiniteTable' /\ FutureAbsent'
  BY RowsOf DEF HInv, FiniteTable, FutureAbsent

\* A drain that gives back rows, or takes up rows that were pending, leaves the
\* hold exclusive.
LEMMA HoldKeeps ==
  ASSUME HInv, NEW d \in Drains, NEW rows \in SUBSET Rows, Hold(d, rows),
         \A r \in rows : status'[r] = "processing" /\ (Holds(d, r) \/ status[r] = "pending"),
         \A e \in Drains, r \in Rows :
           e # d /\ Holds(e, r) => status'[r] = "processing"
  PROVE  /\ ExclusiveSending'
         /\ phase' \in [Drains -> {"idle", "claiming", "sending"}]
         /\ batch' \in [Drains -> SUBSET Rows]
         /\ seen' \in [Drains -> [Rows -> 0..MAX_RETRIES]]
  <1>1. TypeOK /\ ExclusiveSending
    BY DEF HInv
  <1>2. /\ phase' \in [Drains -> {"idle", "claiming", "sending"}]
        /\ batch' \in [Drains -> SUBSET Rows]
    BY <1>1 DEF TypeOK, Hold
  <1>3. seen' \in [Drains -> [Rows -> 0..MAX_RETRIES]]
    BY <1>1, ConstantsAssumption DEF TypeOK, Hold
  <1>4. \A r \in Rows : Holds(d, r)' => r \in rows
    BY <1>1 DEF TypeOK, Hold, Holds
  <1>5. \A e \in Drains, r \in Rows : e # d => (Holds(e, r)' <=> Holds(e, r))
    BY <1>1 DEF TypeOK, Hold, Holds
  <1>6. \A e \in Drains, r \in Rows : e # d /\ Holds(e, r) => r \notin rows
    BY <1>1 DEF ExclusiveSending
  <1>7. ExclusiveSending'
    BY <1>1, <1>4, <1>5, <1>6 DEF ExclusiveSending
  <1> QED
    BY <1>2, <1>3, <1>7

\* Mark writes one row, which the drain holds.
LEMMA MarkEffect ==
  ASSUME HInv, NEW d \in Drains, NEW r \in Rows, NEW v \in {"sent", "failed", "retry"},
         Mark(d, r, v)
  PROVE  /\ status' \in [Rows -> Statuses]
         /\ retries' \in [Rows -> 0..MAX_RETRIES]
         /\ backoff' \in [Rows -> BOOLEAN]
         /\ created' = created
         /\ status'[r] \in {"sent", "failed", "pending"}
         /\ status'[r] = "sent" <=> v = "sent"
         /\ \A q \in Rows : q # r => status'[q] = status[q]
  <1>1. TypeOK
    BY DEF HInv
  <1>2. seen[d][r] \in 0..MAX_RETRIES /\ (~GiveUp(seen[d][r]) => seen[d][r] + 1 \in 0..MAX_RETRIES)
    BY <1>1, ConstantsAssumption DEF TypeOK, GiveUp
  <1> QED
    BY <1>1, <1>2 DEF Mark, TypeOK, Statuses

\* sendOutboxRow reads every pair of answers as one of three verdicts.
LEMMA VerdictType ==
  ASSUME NEW a, NEW b
  PROVE  Verdict(a, b) \in {"sent", "failed", "retry"}
  BY DEF Verdict

\* One attempt adds at most one copy, and every lost answer is counted.
LEMMA AttemptEffect ==
  ASSUME HInv, NEW r \in Rows,
         NEW first \in FirstAnswers(r), NEW second \in SecondAnswers(first),
         Attempt(r, first, second)
  PROVE  /\ accepted' \in [Messages -> Nat] /\ lost' \in [Messages -> Nat]
         /\ \A m \in Messages : m # Msg(r) =>
              accepted'[m] = accepted[m] /\ lost'[m] = lost[m]
         /\ LET m == Msg(r)
            IN \/ /\ accepted'[m] = accepted[m] /\ lost'[m] = lost[m]
                  /\ Verdict(first, second) # "sent"
               \/ /\ accepted'[m] = accepted[m] + 1 /\ lost'[m] = lost[m]
                  /\ Verdict(first, second) = "sent"
               \/ /\ accepted'[m] = accepted[m] + 1 /\ lost'[m] = lost[m] + 1
                  /\ Verdict(first, second) # "sent"
  <1>1. TypeOK /\ Msg(r) \in Messages
    BY RowsOf DEF HInv
  <1>2. accepted' \in [Messages -> Nat] /\ lost' \in [Messages -> Nat]
    BY <1>1 DEF Attempt, TypeOK
  <1>3. \A m \in Messages : m # Msg(r) => accepted'[m] = accepted[m] /\ lost'[m] = lost[m]
    BY <1>1 DEF Attempt, TypeOK
  <1>4. CASE "unheard" \in {first, second}
    <2>1. "ok" \notin {first, second}
      BY <1>4 DEF FirstAnswers, SecondAnswers, Answers
    <2>2. Verdict(first, second) # "sent"
      BY <2>1 DEF Verdict
    <2> QED
      BY <1>1, <1>2, <1>3, <1>4, <2>2 DEF Attempt, TypeOK
  <1>5. CASE "unheard" \notin {first, second} /\ "ok" \in {first, second}
    <2>1. Verdict(first, second) = "sent"
      BY <1>5 DEF Verdict
    <2> QED
      BY <1>1, <1>2, <1>3, <1>5, <2>1 DEF Attempt, TypeOK
  <1>6. CASE {first, second} \cap {"ok", "unheard"} = {}
    <2>1. Verdict(first, second) # "sent"
      BY <1>6 DEF Verdict
    <2> QED
      BY <1>1, <1>2, <1>3, <1>6, <2>1 DEF Attempt, TypeOK
  <1> QED
    BY <1>4, <1>5, <1>6

\* Every step preserves the hold, the types and the rows still to come.
LEMMA NextHInv ==
  ASSUME HInv, [Next]_vars
  PROVE  HInv'
  <1> USE DEF table, drain, history
  <1>0. TypeOK
    BY DEF HInv
  <1>1. ASSUME NEW m \in Messages, InsertOk(m)
        PROVE  HInv'
    <2>1. /\ lost' \in [Messages -> Nat] /\ UNCHANGED accepted /\ UNCHANGED drain
          /\ faults' \in 0..MaxFaults
          /\ Finished \in Requests \cup {Finished} /\ Finished > request[m]
      BY <1>0, <1>1 DEF InsertOk, TypeOK, Requests, Finished
    <2> QED
      BY <1>0, <1>1, <2>1, InsertKeepsHInv DEF InsertOk, TypeOK
  <1>2. ASSUME NEW m \in Messages, InsertFails(m)
        PROVE  HInv'
    <2>1. PICK dead \in BOOLEAN : request' = [request EXCEPT ![m] = AfterError(request[m], dead)]
      BY <1>2 DEF InsertFails
    <2>2. /\ AfterError(request[m], dead) \in Requests \cup {Finished}
          /\ AfterError(request[m], dead) > request[m]
      BY <1>0, <1>2, AfterErrorLater DEF InsertFails, TypeOK
    <2>3. TypeOK'
      BY <1>0, <1>2, <2>1, <2>2, ConstantsAssumption DEF InsertFails, FaultHappens, TypeOK
    <2>4. FutureAbsent'
      <3> SUFFICES ASSUME NEW l \in Messages, NEW i \in Requests, request'[l] <= i
                   PROVE  status[<<l, i>>] = "absent"
        BY <1>2 DEF FutureAbsent, InsertFails
      <3>1. request[l] <= i
        BY <1>0, <2>1, <2>2 DEF TypeOK, Requests, Finished
      <3> QED
        BY <3>1 DEF HInv, FutureAbsent
    <2>5. FiniteTable' /\ ExclusiveSending'
      BY <1>2 DEF InsertFails, HInv, FiniteTable, ExclusiveSending, Holds
    <2> QED
      BY <2>3, <2>4, <2>5 DEF HInv
  <1>3. ASSUME NEW m \in Messages, InsertAnswerLost(m)
        PROVE  HInv'
    <2>1. PICK dead \in BOOLEAN : request' = [request EXCEPT ![m] = AfterError(request[m], dead)]
      BY <1>3 DEF InsertAnswerLost
    <2>2. /\ AfterError(request[m], dead) \in Requests \cup {Finished}
          /\ AfterError(request[m], dead) > request[m]
      BY <1>0, <1>3, AfterErrorLater DEF InsertAnswerLost, TypeOK
    <2>3. /\ lost' \in [Messages -> Nat] /\ UNCHANGED accepted /\ UNCHANGED drain
          /\ faults' \in 0..MaxFaults
      BY <1>0, <1>3, ConstantsAssumption DEF InsertAnswerLost, FaultHappens, TypeOK
    <2> QED
      BY <1>3, <2>1, <2>2, <2>3, InsertKeepsHInv DEF InsertAnswerLost
  <1>4. ASSUME NEW d \in Drains, ReadReady(d)
        PROVE  HInv'
    <2>1. TypeOK'
      BY <1>0, <1>4, ConstantsAssumption DEF ReadReady, CallAnswered, TypeOK, Oldest, Ready
    <2>2. FiniteTable' /\ FutureAbsent'
      BY <1>4, SameRows DEF ReadReady
    <2>3. \A e \in Drains, r \in Rows : Holds(e, r)' => Holds(e, r)
      BY <1>0, <1>4 DEF ReadReady, TypeOK, Holds
    <2>4. ExclusiveSending'
      BY <1>4, <2>3 DEF ReadReady, HInv, ExclusiveSending
    <2> QED
      BY <2>1, <2>2, <2>4 DEF HInv
  <1>5. ASSUME NEW d \in Drains, NEW rows \in SUBSET Won(d),
               phase[d] = "claiming", SetProcessing(Won(d)) \/ (UNCHANGED status /\ rows = {}),
               Hold(d, rows), UNCHANGED <<request, calls, retries, backoff, created, history>>,
               faults' \in 0..MaxFaults
        PROVE  HInv'
    <2>1. \A r \in Won(d) : r \in Rows /\ status[r] = "pending"
      BY <1>0 DEF TypeOK, Won, Claimable
    <2>2. \A r \in Rows : status'[r] = status[r] \/ (r \in Won(d) /\ status'[r] = "processing")
      BY <1>5 DEF SetProcessing
    <2>3. \A r \in rows : r \in Rows /\ status[r] = "pending" /\ status'[r] = "processing"
      BY <1>5, <2>1 DEF SetProcessing
    <2>4. \A e \in Drains, r \in Rows : Holds(e, r) => status'[r] = "processing"
      BY <2>2 DEF HInv, ExclusiveSending
    <2>5. /\ ExclusiveSending'
          /\ phase' \in [Drains -> {"idle", "claiming", "sending"}]
          /\ batch' \in [Drains -> SUBSET Rows]
          /\ seen' \in [Drains -> [Rows -> 0..MAX_RETRIES]]
      BY <1>5, <2>3, <2>4, HoldKeeps
    <2>6. status' \in [Rows -> Statuses]
      BY <1>0, <1>5 DEF TypeOK, SetProcessing, Statuses
    <2>7. FiniteTable' /\ FutureAbsent'
      BY <1>5, <2>1, <2>2, SameRows
    <2>8. TypeOK'
      BY <1>0, <1>5, <2>5, <2>6 DEF TypeOK
    <2> QED
      BY <2>5, <2>7, <2>8 DEF HInv
  <1>6. ASSUME NEW d \in Drains, Claim(d)
        PROVE  HInv'
    BY <1>0, <1>5, <1>6 DEF Claim, TypeOK
  <1>7. ASSUME NEW d \in Drains, ClaimFails(d)
        PROVE  HInv'
    <2>1. {} \in SUBSET Won(d) /\ faults' \in 0..MaxFaults
      BY <1>0, <1>7, ConstantsAssumption DEF ClaimFails, FaultHappens, TypeOK
    <2> QED
      BY <1>5, <1>7, <2>1 DEF ClaimFails
  <1>8. ASSUME NEW d \in Drains, NEW r \in Rows, MaySend(d, r),
               Hold(d, batch[d] \ {r}), UNCHANGED <<request, calls>>,
               NEW first \in FirstAnswers(r), NEW second \in SecondAnswers(first),
               Attempt(r, first, second), faults' \in 0..MaxFaults,
               Mark(d, r, Verdict(first, second)) \/ UNCHANGED table
        PROVE  HInv'
    <2>1. Holds(d, r) /\ status[r] = "processing" /\ ExclusiveSending
      BY <1>8 DEF MaySend, HInv, ExclusiveSending, Holds
    <2>2. /\ status' \in [Rows -> Statuses] /\ retries' \in [Rows -> 0..MAX_RETRIES]
          /\ backoff' \in [Rows -> BOOLEAN] /\ created' = created
          /\ \A q \in Rows : q # r => status'[q] = status[q]
      BY <1>0, <1>8, MarkEffect, VerdictType DEF TypeOK
    <2>3. \A e \in Drains, q \in Rows :
             Holds(e, q) /\ (e # d \/ q # r) => status'[q] = "processing"
      BY <2>1, <2>2 DEF ExclusiveSending
    <2>4. \A q \in batch[d] \ {r} : q \in Rows /\ Holds(d, q)
      BY <1>0, <1>8 DEF TypeOK, MaySend, Holds
    <2>5. batch[d] \ {r} \in SUBSET Rows
      BY <2>4
    <2>6. /\ ExclusiveSending'
          /\ phase' \in [Drains -> {"idle", "claiming", "sending"}]
          /\ batch' \in [Drains -> SUBSET Rows]
          /\ seen' \in [Drains -> [Rows -> 0..MAX_RETRIES]]
      BY <1>8, <2>3, <2>4, <2>5, HoldKeeps
    <2>7. accepted' \in [Messages -> Nat] /\ lost' \in [Messages -> Nat]
      BY <1>8, AttemptEffect
    <2>8. FiniteTable' /\ FutureAbsent'
      BY <1>8, <2>1, <2>2, SameRows
    <2>9. TypeOK'
      BY <1>0, <1>8, <2>2, <2>6, <2>7 DEF TypeOK
    <2> QED
      BY <2>6, <2>8, <2>9 DEF HInv
  <1>9. ASSUME NEW d \in Drains, NEW r \in Rows, SendOutboxRow(d, r)
        PROVE  HInv'
    <2>1. faults' \in 0..MaxFaults
      BY <1>0, <1>9, ConstantsAssumption DEF SendOutboxRow, FaultHappens, TypeOK
    <2> QED
      BY <1>8, <1>9, <2>1 DEF SendOutboxRow
  <1>10. ASSUME NEW d \in Drains, NEW r \in Rows, SendMarkLost(d, r)
         PROVE  HInv'
    <2>1. faults' \in 0..MaxFaults
      BY <1>0, <1>10, ConstantsAssumption DEF SendMarkLost, FaultHappens, TypeOK
    <2> QED
      BY <1>8, <1>10, <2>1 DEF SendMarkLost
  <1>11. ASSUME NEW d \in Drains, Cancelled(d)
         PROVE  HInv'
    <2>1. \A e \in Drains, r \in Rows : Holds(e, r) => status'[r] = "processing"
      BY <1>11 DEF Cancelled, HInv, ExclusiveSending
    <2>2. /\ ExclusiveSending'
          /\ phase' \in [Drains -> {"idle", "claiming", "sending"}]
          /\ batch' \in [Drains -> SUBSET Rows]
          /\ seen' \in [Drains -> [Rows -> 0..MAX_RETRIES]]
      BY <1>11, <2>1, HoldKeeps DEF Cancelled
    <2>3. FiniteTable' /\ FutureAbsent'
      BY <1>11, SameRows DEF Cancelled
    <2>4. TypeOK'
      BY <1>0, <1>11, <2>2, ConstantsAssumption DEF Cancelled, FaultHappens, TypeOK
    <2> QED
      BY <2>2, <2>3, <2>4 DEF HInv
  <1>12. ASSUME NEW r \in Rows, BackoffEnds(r)
         PROVE  HInv'
    <2>1. TypeOK'
      BY <1>0, <1>12 DEF BackoffEnds, TypeOK
    <2>2. FiniteTable' /\ FutureAbsent' /\ ExclusiveSending'
      BY <1>12 DEF BackoffEnds, HInv, FiniteTable, FutureAbsent, ExclusiveSending, Holds
    <2> QED
      BY <2>1, <2>2 DEF HInv
  <1>13. CASE UNCHANGED vars
    BY <1>13 DEF vars, HInv, TypeOK, FiniteTable, FutureAbsent, ExclusiveSending, Holds
  <1>14. ASSUME OtherInsert \/ CallLost \/ \E d \in Drains : ReadNothing(d)
         PROVE  HInv'
    <2>1. /\ UNCHANGED <<request, table, drain, history>>
          /\ calls' \in Nat /\ faults' \in 0..MaxFaults
      BY <1>14, CallStepEffect
    <2>2. TypeOK'
      BY <1>0, <2>1 DEF TypeOK
    <2>3. FiniteTable' /\ FutureAbsent' /\ ExclusiveSending'
      BY <2>1 DEF HInv, FiniteTable, FutureAbsent, ExclusiveSending, Holds
    <2> QED
      BY <2>2, <2>3 DEF HInv
  <1> QED
    BY <1>1, <1>2, <1>3, <1>4, <1>6, <1>7, <1>9, <1>10, <1>11, <1>12, <1>13, <1>14
    DEF Next, HFStep, DrainStep, Fault

\* The types of the outbox hold at every step.
THEOREM TypeCorrect == Spec => []TypeOK
  <1>1. HInv => TypeOK
    BY DEF HInv
  <1> QED
    BY <1>1, InitHInv, NextHInv, PTL DEF Spec

\* drainOutbox: however many drains overlap, a row is in the hands of one at a
\* time, and only while it is 'processing'.
THEOREM ExclusiveSendingAlways == Spec => []ExclusiveSending
  <1>1. HInv => ExclusiveSending
    BY DEF HInv
  <1> QED
    BY <1>1, InitHInv, NextHInv, PTL DEF Spec
-----------------------------------------------------------------------------
\* Only the drain that holds a row writes its outcome, and an outcome is not
\* overwritten: neither a claim nor a mark touches a sent or failed row.
LEMMA NextFinal ==
  ASSUME HInv, [Next]_vars, NEW r \in Rows, status[r] \in {"sent", "failed"}
  PROVE  status'[r] = status[r]
  <1> USE DEF table
  <1>0. TypeOK /\ FutureAbsent /\ ExclusiveSending
    BY DEF HInv
  <1>1. ASSUME NEW q \in Rows, AddRow(q), status[q] = "absent"
        PROVE  status'[r] = status[r]
    BY <1>0, <1>1 DEF AddRow, TypeOK
  <1>2. \A m \in Messages :
          request[m] # Finished =>
            /\ <<m, request[m]>> \in Rows
            /\ status[<<m, request[m]>>] = "absent"
    <2> SUFFICES ASSUME NEW m \in Messages, request[m] # Finished
                 PROVE  <<m, request[m]>> \in Rows /\ status[<<m, request[m]>>] = "absent"
      OBVIOUS
    <2>1. request[m] \in Requests /\ request[m] <= request[m]
      BY <1>0 DEF TypeOK, Requests, Finished
    <2> QED
      BY <1>0, <2>1 DEF FutureAbsent, Rows
  <1>3. ASSUME NEW m \in Messages, HFStep(m)
        PROVE  status'[r] = status[r]
    BY <1>1, <1>2, <1>3 DEF HFStep, InsertOk, InsertFails, InsertAnswerLost
  <1>4. ASSUME NEW d \in Drains, Claim(d) \/ ClaimFails(d)
        PROVE  status'[r] = status[r]
    BY <1>4 DEF Claim, ClaimFails, SetProcessing, Won, Claimable
  <1>5. ASSUME NEW d \in Drains, NEW q \in Rows, MaySend(d, q),
               NEW v \in {"sent", "failed", "retry"}, Mark(d, q, v)
        PROVE  status'[r] = status[r]
    <2>1. q # r
      BY <1>0, <1>5 DEF MaySend, ExclusiveSending, Holds
    <2> QED
      BY <1>5, <2>1, MarkEffect
  <1>6. ASSUME NEW d \in Drains, NEW q \in Rows, SendOutboxRow(d, q)
        PROVE  status'[r] = status[r]
    BY <1>5, <1>6, VerdictType DEF SendOutboxRow
  <1>7. ASSUME OtherInsert \/ CallLost \/ \E d \in Drains : ReadNothing(d)
        PROVE  status'[r] = status[r]
    BY <1>7, CallStepEffect
  <1> QED
    BY <1>3, <1>4, <1>6, <1>7
    DEF Next, DrainStep, Fault, ReadReady, SendMarkLost, Cancelled, BackoffEnds, vars

\* A row that was sent, or given up, is never taken up again.
THEOREM OutcomeIsFinalAlways == Spec => OutcomeIsFinal
  <1>1. HInv /\ [Next]_vars
          => [\A r \in Rows : status[r] \in {"sent", "failed"} => status'[r] = status[r]]_vars
    BY NextFinal
  <1> QED
    BY <1>1, InitHInv, NextHInv, PTL DEF Spec, OutcomeIsFinal
-----------------------------------------------------------------------------
\* A row that may still be sent.
Alive(r) == status[r] = "pending" \/ \E d \in Drains : Holds(d, r)

One(p) == IF p THEN 1 ELSE 0

\* In how many more ways a reply can be accepted: its next INSERT, and each of
\* the rows it may have.
Chances(m) ==
  One(request[m] # Finished) + One(Alive(<<m, 1>>)) + One(Alive(<<m, 2>>))
    + One(Alive(<<m, 3>>)) + One(Alive(<<m, 4>>))

\* The copies that are out and those that may follow never exceed one more than
\* the lost answers: what makes CopiesBounded inductive.
CopiesCounted == \A m \in Messages : accepted[m] + Chances(m) <= 1 + lost[m]

CInv == HInv /\ CopiesCounted

\* There are at most five chances, and they are a number.
LEMMA ChancesType == \A m \in Messages : Chances(m) \in Nat /\ Chances(m)' \in Nat
  BY DEF Chances, One

\* No chance appears when no row becomes alive and no request is added.
LEMMA ChancesFall ==
  ASSUME NEW m \in Messages, request'[m] = request[m],
         \A i \in Requests : Alive(<<m, i>>)' => Alive(<<m, i>>)
  PROVE  Chances(m)' <= Chances(m)
  BY DEF Chances, One, Requests

\* One chance goes when one row stops being alive.
LEMMA ChanceUsed ==
  ASSUME NEW m \in Messages, request'[m] = request[m],
         \A i \in Requests : Alive(<<m, i>>)' => Alive(<<m, i>>),
         NEW k \in Requests, Alive(<<m, k>>), ~Alive(<<m, k>>)'
  PROVE  Chances(m)' + 1 <= Chances(m)
  <1>1. k \in {1, 2, 3, 4}
    BY DEF Requests
  <1> QED
    BY <1>1 DEF Chances, One, Requests

\* An INSERT replaces the chance of the request by that of its row, and adds
\* another when a request follows.
LEMMA ChanceInserted ==
  ASSUME NEW m \in Messages, NEW k \in Requests, request[m] # Finished,
         \A i \in Requests : i # k /\ Alive(<<m, i>>)' => Alive(<<m, i>>),
         ~Alive(<<m, k>>)
  PROVE  /\ Chances(m)' <= Chances(m) + 1
         /\ request'[m] = Finished => Chances(m)' <= Chances(m)
  <1>1. k \in {1, 2, 3, 4}
    BY DEF Requests
  <1> QED
    BY <1>1 DEF Chances, One, Requests

\* No copy is out at the start, and every reply has its first INSERT to make.
LEMMA InitCInv == Init => CInv
  <1> SUFFICES ASSUME Init PROVE CInv
    OBVIOUS
  <1>1. \A r \in Rows : ~Alive(r)
    BY DEF Init, Alive, Holds
  <1>2. ASSUME NEW m \in Messages PROVE Chances(m) <= 1
    BY <1>1, RowsOf DEF Chances, One, Requests
  <1>3. CopiesCounted
    BY <1>2, ChancesType DEF Init, CopiesCounted
  <1> QED
    BY <1>3, InitHInv DEF CInv

\* The row of an INSERT is new, and no other row changes.
LEMMA InsertRow ==
  ASSUME HInv, NEW m \in Messages, request[m] # Finished, AddRow(<<m, request[m]>>),
         UNCHANGED drain
  PROVE  /\ request[m] \in Requests
         /\ ~Alive(<<m, request[m]>>)
         /\ \A q \in Rows : q # <<m, request[m]>> => (Alive(q)' <=> Alive(q))
  <1>1. TypeOK /\ FutureAbsent /\ ExclusiveSending
    BY DEF HInv
  <1>2. request[m] \in Requests /\ request[m] <= request[m]
    BY <1>1 DEF TypeOK, Requests, Finished
  <1>3. <<m, request[m]>> \in Rows /\ status[<<m, request[m]>>] = "absent"
    BY <1>1, <1>2, RowsOf DEF FutureAbsent
  <1>4. ~Alive(<<m, request[m]>>)
    BY <1>1, <1>3 DEF Alive, ExclusiveSending
  <1>5. \A q \in Rows : q # <<m, request[m]>> => status'[q] = status[q]
    BY <1>3, AddRowEffect
  <1>6. \A q \in Rows, d \in Drains : Holds(d, q)' <=> Holds(d, q)
    BY DEF Holds, drain
  <1> QED
    BY <1>2, <1>4, <1>5, <1>6 DEF Alive

\* A drain that gives up rows, or takes up pending ones, makes no row alive.
LEMMA HoldAlive ==
  ASSUME HInv, NEW d \in Drains, NEW rows \in SUBSET Rows, Hold(d, rows),
         \A r \in rows : Holds(d, r) \/ status[r] = "pending",
         \A r \in Rows : status'[r] = "pending" => Alive(r)
  PROVE  /\ \A r \in Rows : Alive(r)' => Alive(r)
         /\ \A e \in Drains, r \in Rows : Holds(e, r)' => (e # d /\ Holds(e, r)) \/ (e = d /\ r \in rows)
  <1>1. TypeOK
    BY DEF HInv
  <1>2. \A e \in Drains, r \in Rows :
          Holds(e, r)' => (e # d /\ Holds(e, r)) \/ (e = d /\ r \in rows)
    BY <1>1 DEF TypeOK, Hold, Holds
  <1>3. \A r \in Rows : Alive(r)' => Alive(r)
    BY <1>2 DEF Alive
  <1> QED
    BY <1>2, <1>3

\* Every step keeps the count.
LEMMA NextCopies ==
  ASSUME CInv, [Next]_vars
  PROVE  CopiesCounted'
  <1> USE DEF table, drain, history
  <1>0. HInv /\ TypeOK /\ CopiesCounted /\ ExclusiveSending
    BY DEF CInv, HInv
  <1>1. ASSUME \A m \in Messages : /\ accepted'[m] = accepted[m] /\ lost'[m] = lost[m]
                                   /\ Chances(m)' <= Chances(m)
        PROVE  CopiesCounted'
    BY <1>0, <1>1, ChancesType DEF CopiesCounted, TypeOK
  <1>2. ASSUME \A r \in Rows : Alive(r)' => Alive(r), UNCHANGED <<request, history>>
        PROVE  CopiesCounted'
    <2>1. \A m \in Messages : Chances(m)' <= Chances(m)
      BY <1>2, ChancesFall, RowsOf
    <2> QED
      BY <1>1, <1>2, <2>1
  <1>3. ASSUME NEW m \in Messages, InsertOk(m)
        PROVE  CopiesCounted'
    <2>1. /\ request[m] \in Requests /\ ~Alive(<<m, request[m]>>)
          /\ \A q \in Rows : q # <<m, request[m]>> => (Alive(q)' <=> Alive(q))
      BY <1>0, <1>3, InsertRow DEF InsertOk
    <2>2. Chances(m)' <= Chances(m)
      <3>1. \A i \in Requests : i # request[m] /\ Alive(<<m, i>>)' => Alive(<<m, i>>)
        BY <2>1, RowsOf
      <3>2. request[m] # Finished /\ request'[m] = Finished
        BY <1>0, <1>3 DEF InsertOk, TypeOK
      <3> QED
        BY <2>1, <3>1, <3>2, ChanceInserted
    <2>3. ASSUME NEW l \in Messages, l # m PROVE Chances(l)' <= Chances(l)
      <3>1. \A i \in Requests : Alive(<<l, i>>)' => Alive(<<l, i>>)
        BY <2>1, <2>3, RowsOf
      <3>2. request'[l] = request[l]
        BY <1>0, <1>3, <2>3 DEF InsertOk, TypeOK
      <3> QED
        BY <3>1, <3>2, ChancesFall
    <2> QED
      BY <1>1, <1>3, <2>2, <2>3 DEF InsertOk
  <1>4. ASSUME NEW m \in Messages, InsertFails(m)
        PROVE  CopiesCounted'
    <2>1. \A q \in Rows : Alive(q)' <=> Alive(q)
      BY <1>4 DEF InsertFails, Alive, Holds
    <2>2. ASSUME NEW l \in Messages PROVE Chances(l)' <= Chances(l)
      <3>1. request'[l] # Finished => request[l] # Finished
        BY <1>0, <1>4 DEF InsertFails, TypeOK
      <3>2. \A i \in Requests : Alive(<<l, i>>)' <=> Alive(<<l, i>>)
        BY <2>1, RowsOf
      <3> QED
        BY <3>1, <3>2 DEF Chances, One, Requests
    <2> QED
      BY <1>1, <1>4, <2>2 DEF InsertFails
  <1>5. ASSUME NEW m \in Messages, InsertAnswerLost(m)
        PROVE  CopiesCounted'
    <2>1. /\ request[m] \in Requests /\ ~Alive(<<m, request[m]>>)
          /\ \A q \in Rows : q # <<m, request[m]>> => (Alive(q)' <=> Alive(q))
      BY <1>0, <1>5, InsertRow DEF InsertAnswerLost
    <2>2. Chances(m)' <= Chances(m) + 1
      <3>1. \A i \in Requests : i # request[m] /\ Alive(<<m, i>>)' => Alive(<<m, i>>)
        BY <2>1, RowsOf
      <3>2. request[m] # Finished
        BY <1>5 DEF InsertAnswerLost
      <3> QED
        BY <2>1, <3>1, <3>2, ChanceInserted
    <2>3. ASSUME NEW l \in Messages, l # m PROVE Chances(l)' <= Chances(l)
      <3>1. \A i \in Requests : Alive(<<l, i>>)' => Alive(<<l, i>>)
        BY <2>1, <2>3, RowsOf
      <3>2. request'[l] = request[l]
        BY <1>0, <1>5, <2>3 DEF InsertAnswerLost, TypeOK
      <3> QED
        BY <3>1, <3>2, ChancesFall
    <2>4. accepted' = accepted /\ lost'[m] = lost[m] + 1
          /\ \A l \in Messages : l # m => lost'[l] = lost[l]
      BY <1>0, <1>5 DEF InsertAnswerLost, TypeOK
    <2> QED
      BY <1>0, <2>2, <2>3, <2>4, ChancesType DEF CopiesCounted, TypeOK
  <1>6. ASSUME NEW d \in Drains, ReadReady(d)
        PROVE  CopiesCounted'
    <2>1. \A q \in Rows : Alive(q)' => Alive(q)
      BY <1>0, <1>6 DEF ReadReady, Alive, Holds, TypeOK
    <2> QED
      BY <1>2, <1>6, <2>1 DEF ReadReady
  <1>7. ASSUME NEW d \in Drains, NEW rows \in SUBSET Won(d), Hold(d, rows),
               SetProcessing(Won(d)) \/ UNCHANGED status, UNCHANGED <<request, history>>
        PROVE  CopiesCounted'
    <2>1. rows \in SUBSET Rows /\ \A r \in rows : status[r] = "pending"
      BY <1>0, <1>7 DEF TypeOK, Won, Claimable
    <2>2. \A r \in Rows : status'[r] = "pending" => Alive(r)
      BY <1>7 DEF SetProcessing, Alive
    <2> QED
      BY <1>0, <1>2, <1>7, <2>1, <2>2, HoldAlive
  <1>8. ASSUME NEW d \in Drains, Claim(d) \/ ClaimFails(d)
        PROVE  CopiesCounted'
    <2>1. {} \in SUBSET Won(d) /\ Won(d) \in SUBSET Won(d)
      OBVIOUS
    <2> QED
      BY <1>7, <1>8, <2>1 DEF Claim, ClaimFails
  <1>9. ASSUME NEW d \in Drains, NEW r \in Rows, MaySend(d, r),
               Hold(d, batch[d] \ {r}), UNCHANGED <<request, calls>>,
               NEW first \in FirstAnswers(r), NEW second \in SecondAnswers(first),
               Attempt(r, first, second),
               Mark(d, r, Verdict(first, second)) \/ UNCHANGED table
        PROVE  CopiesCounted'
    <2>1. Holds(d, r) /\ status[r] = "processing" /\ Alive(r)
      BY <1>0, <1>9 DEF MaySend, ExclusiveSending, Holds, Alive
    <2>2. batch[d] \ {r} \in SUBSET Rows /\ \A q \in batch[d] \ {r} : Holds(d, q)
      BY <1>0, <1>9 DEF TypeOK, MaySend, Holds
    <2>3. /\ \A q \in Rows : q # r => status'[q] = status[q]
          /\ Verdict(first, second) = "sent" => status'[r] # "pending"
      BY <1>0, <1>9, <2>1, MarkEffect, VerdictType
    <2>4. \A q \in Rows : status'[q] = "pending" => Alive(q)
      BY <2>1, <2>3 DEF Alive
    <2>5. /\ \A q \in Rows : Alive(q)' => Alive(q)
          /\ \A e \in Drains, q \in Rows :
               Holds(e, q)' => (e # d /\ Holds(e, q)) \/ (e = d /\ q \in batch[d] \ {r})
      BY <1>0, <1>9, <2>2, <2>4, HoldAlive
    <2>6. Verdict(first, second) = "sent" => ~Alive(r)'
      <3>1. \A e \in Drains : ~Holds(e, r)'
        BY <1>0, <2>1, <2>5 DEF ExclusiveSending
      <3> QED
        BY <2>3, <3>1 DEF Alive
    <2>7. \A m \in Messages : Chances(m)' <= Chances(m)
      BY <1>9, <2>5, ChancesFall, RowsOf
    <2>8. Verdict(first, second) = "sent" => Chances(Msg(r))' + 1 <= Chances(Msg(r))
      <3>1. Msg(r) \in Messages /\ r = <<Msg(r), r[2]>> /\ r[2] \in Requests
        BY RowsOf
      <3>2. \A i \in Requests : Alive(<<Msg(r), i>>)' => Alive(<<Msg(r), i>>)
        BY <2>5, <3>1, RowsOf
      <3> QED
        BY <1>9, <2>1, <2>6, <3>1, <3>2, ChanceUsed
    <2> DEFINE k == Msg(r)
    <2>9. /\ k \in Messages
          /\ accepted' \in [Messages -> Nat] /\ lost' \in [Messages -> Nat]
          /\ \A m \in Messages : m # k => accepted'[m] = accepted[m] /\ lost'[m] = lost[m]
          /\ \/ accepted'[k] = accepted[k] /\ lost'[k] = lost[k]
             \/ /\ accepted'[k] = accepted[k] + 1 /\ lost'[k] = lost[k]
                /\ Verdict(first, second) = "sent"
             \/ accepted'[k] = accepted[k] + 1 /\ lost'[k] = lost[k] + 1
      BY <1>0, <1>9, AttemptEffect, RowsOf
    <2> HIDE DEF k
    <2>10. Verdict(first, second) = "sent" => Chances(k)' + 1 <= Chances(k)
      BY <2>8 DEF k
    <2>11. ASSUME NEW m \in Messages
           PROVE  accepted'[m] + Chances(m)' <= 1 + lost'[m]
      <3>1. /\ accepted[m] \in Nat /\ lost[m] \in Nat
            /\ Chances(m) \in Nat /\ Chances(m)' \in Nat
            /\ accepted[m] + Chances(m) <= 1 + lost[m]
            /\ Chances(m)' <= Chances(m)
        BY <1>0, <2>7, ChancesType DEF TypeOK, CopiesCounted
      <3> QED
        BY <2>9, <2>10, <3>1
    <2> QED
      BY <2>11 DEF CopiesCounted
  <1>10. ASSUME NEW d \in Drains, NEW r \in Rows, SendOutboxRow(d, r) \/ SendMarkLost(d, r)
         PROVE  CopiesCounted'
    BY <1>9, <1>10 DEF SendOutboxRow, SendMarkLost
  <1>11. ASSUME NEW d \in Drains, Cancelled(d)
         PROVE  CopiesCounted'
    <2>1. {} \in SUBSET Won(d)
      OBVIOUS
    <2> QED
      BY <1>7, <1>11, <2>1 DEF Cancelled
  <1>12. ASSUME NEW r \in Rows, BackoffEnds(r)
         PROVE  CopiesCounted'
    <2>1. \A q \in Rows : Alive(q)' => Alive(q)
      BY <1>12 DEF BackoffEnds, Alive, Holds
    <2> QED
      BY <1>2, <1>12, <2>1 DEF BackoffEnds
  <1>13. CASE UNCHANGED vars
    <2>1. \A q \in Rows : Alive(q)' => Alive(q)
      BY <1>13 DEF vars, Alive, Holds
    <2> QED
      BY <1>2, <1>13, <2>1 DEF vars
  <1>14. ASSUME OtherInsert \/ CallLost \/ \E d \in Drains : ReadNothing(d)
         PROVE  CopiesCounted'
    <2>1. UNCHANGED <<request, table, drain, history>>
      BY <1>0, <1>14, CallStepEffect
    <2>2. \A q \in Rows : Alive(q)' => Alive(q)
      BY <2>1 DEF Alive, Holds
    <2> QED
      BY <1>2, <2>1, <2>2
  <1> QED
    BY <1>3, <1>4, <1>5, <1>6, <1>8, <1>10, <1>11, <1>12, <1>13, <1>14
    DEF Next, HFStep, DrainStep, Fault

\* A reply reaches the user more than once only if answers were lost on its way,
\* and then at most once more for each: races of drains, retries and replays
\* alone never duplicate it.
THEOREM CopiesBoundedAlways == Spec => []CopiesBounded
  <1>1. CInv => CopiesBounded
    BY ChancesType DEF CInv, HInv, TypeOK, CopiesCounted, CopiesBounded
  <1>2. CInv /\ [Next]_vars => CInv'
    BY NextHInv, NextCopies DEF CInv
  <1> QED
    BY <1>1, <1>2, InitCInv, PTL DEF Spec
-----------------------------------------------------------------------------
\* A reply has a row and a request left only after the answer to an INSERT, or
\* to its sending, was lost.
SecondAfterLoss ==
  \A m \in Messages, i \in Requests :
    request[m] # Finished /\ status[<<m, i>>] # "absent" => lost[m] > 0

AInv == CInv /\ SecondAfterLoss

\* The stage of a row depends on its status and on who holds it.
LEMMA LifeOf ==
  ASSUME HInv, NEW r \in Rows
  PROVE  /\ Life(r) \in {"none", "waiting", "stuck", "held", "sent", "failed"}
         /\ Life(r) = "none" <=> status[r] = "absent"
         /\ Life(r) = "waiting" <=> status[r] = "pending"
         /\ Life(r) = "held" <=> \E d \in Drains : Holds(d, r)
         /\ Life(r) = "stuck" <=> status[r] = "processing" /\ \A d \in Drains : ~Holds(d, r)
         /\ status[r] \in {"sent", "failed"} => Life(r) = status[r]
  BY DEF HInv, TypeOK, Statuses, ExclusiveSending, Life, Stranded

\* A row whose status and holders stay the same lives on as it did.
LEMMA LifeStays ==
  ASSUME NEW r \in Rows, status'[r] = status[r],
         \A d \in Drains : Holds(d, r)' <=> Holds(d, r)
  PROVE  Life(r)' = Life(r)
  BY DEF Life, Stranded

\* A step that no row's life shows is none of the abstract outbox.
LEMMA AbsRests ==
  ASSUME \A r \in Rows : Life(r)' = Life(r), UNCHANGED history
  PROVE  UNCHANGED Abs!vars
  BY DEF Abs!vars, history

\* One row changes its stage.
LEMMA OneRowMoves ==
  ASSUME NEW r \in Rows, NEW s, Life(r)' = s,
         \A q \in Rows : q # r => Life(q)' = Life(q)
  PROVE  Abs!Becomes(r, s)
  BY DEF Abs!Becomes

\* Several rows change their stages alike.
LEMMA RowsMove ==
  ASSUME NEW rows \in SUBSET Rows, NEW s,
         \A q \in Rows : Life(q)' = IF q \in rows THEN s ELSE Life(q)
  PROVE  Abs!AllBecome(rows, s)
  BY DEF Abs!AllBecome, Rows, Abs!Rows

\* A count that goes up by one.
LEMMA OneMore ==
  ASSUME NEW f \in [Messages -> Nat], NEW g \in [Messages -> Nat], NEW m \in Messages,
         g[m] = f[m] + 1, \A l \in Messages : l # m => g[l] = f[l]
  PROVE  g = Abs!CountOne(f, m)
  BY DEF Abs!CountOne

\* At the start there are no rows, copies or losses.
LEMMA InitAbstract == Init => Abs!Init /\ AInv
  <1> SUFFICES ASSUME Init PROVE Abs!Init /\ AInv
    OBVIOUS
  <1>1. \A r \in Rows : Life(r) = "none"
    BY DEF Init, Life
  <1>2. Abs!Init
    BY <1>1 DEF Init, Abs!Init, Rows, Abs!Rows
  <1>3. SecondAfterLoss
    BY RowsOf DEF Init, SecondAfterLoss
  <1> QED
    BY <1>2, <1>3, InitCInv DEF AInv

\* A step that writes no row, keeps the requests and loses no count.
LEMMA SecondKept ==
  ASSUME AInv, UNCHANGED request,
         \A r \in Rows : status[r] = "absent" => status'[r] = "absent",
         \A m \in Messages : lost'[m] = lost[m] \/ lost'[m] = lost[m] + 1
  PROVE  SecondAfterLoss'
  BY RowsOf DEF AInv, CInv, HInv, TypeOK, SecondAfterLoss

\* An alive row is a chance: every copy so far beyond the first was paid for.
LEMMA AliveMayGo ==
  ASSUME CInv, NEW m \in Messages, NEW i \in Requests, Alive(<<m, i>>)
  PROVE  accepted[m] <= lost[m]
  <1>1. accepted[m] \in Nat /\ lost[m] \in Nat /\ accepted[m] + Chances(m) <= 1 + lost[m]
    BY DEF CInv, HInv, TypeOK, CopiesCounted
  <1>2. i \in {1, 2, 3, 4}
    BY DEF Requests
  <1>3. Chances(m) >= 1
    BY <1>2 DEF Chances, One
  <1> QED
    BY <1>1, <1>3, ChancesType

\* _send_message: an INSERT that is applied is a Write.
LEMMA InsertIsAbstract ==
  ASSUME AInv, NEW m \in Messages, NEW i \in Requests, i = request[m],
         InsertOk(m) \/ InsertAnswerLost(m)
  PROVE  Abs!Next /\ SecondAfterLoss'
  <1> DEFINE r == <<m, i>>
  <1>0. HInv /\ TypeOK /\ FutureAbsent /\ SecondAfterLoss
    BY DEF AInv, CInv, HInv
  <1>1. i <= i /\ r \in Rows /\ i # Finished
    <2>1. i <= i /\ i # Finished
      BY DEF Requests, Finished
    <2> QED
      BY <2>1, RowsOf
  <1>2. status[r] = "absent"
    BY <1>0, <1>1 DEF FutureAbsent
  <1>3. status'[r] = "pending" /\ \A q \in Rows : q # r => status'[q] = status[q]
    BY <1>0, <1>1, AddRowEffect DEF InsertOk, InsertAnswerLost
  <1> HIDE DEF r
  <1>4. \A d \in Drains, q \in Rows : Holds(d, q)' <=> Holds(d, q)
    BY DEF InsertOk, InsertAnswerLost, Holds, drain
  <1>5. Life(r)' = "waiting" /\ Life(r) = "none"
    BY <1>2, <1>3 DEF Life, Stranded
  <1>6. \A q \in Rows : q # r => Life(q)' = Life(q)
    BY <1>3, <1>4, LifeStays
  <1>7. Abs!Becomes(r, "waiting")
    BY <1>1, <1>5, <1>6, OneRowMoves
  <1>8. Abs!Written(m) => lost[m] > 0
    BY <1>0, <1>1, RowsOf, LifeOf DEF Abs!Written, SecondAfterLoss
  <1>9. /\ lost' \in {lost, Abs!CountOne(lost, m)} /\ UNCHANGED accepted
        /\ lost'[m] \in Nat /\ lost'[m] >= lost[m]
        /\ InsertAnswerLost(m) => lost'[m] > 0
        /\ \A l \in Messages : l # m => lost'[l] = lost[l]
    BY <1>0 DEF InsertOk, InsertAnswerLost, TypeOK, Abs!CountOne, history
  <1>10. Abs!Write(m, i)
    BY <1>1, <1>5, <1>7, <1>8, <1>9 DEF Abs!Write, r
  <1>11. SecondAfterLoss'
    <2> SUFFICES ASSUME NEW l \in Messages, NEW k \in Requests,
                        request'[l] # Finished, status'[<<l, k>>] # "absent"
                 PROVE  lost'[l] > 0
      BY DEF SecondAfterLoss
    <2>1. CASE l = m
      <3>1. InsertAnswerLost(m)
        BY <1>0, <2>1 DEF InsertOk, TypeOK
      <3> QED
        BY <1>9, <2>1, <3>1
    <2>2. CASE l # m
      <3>1. <<l, k>> \in Rows /\ <<l, k>> # r /\ request'[l] = request[l]
        BY <1>0, <2>2, RowsOf DEF r, InsertOk, InsertAnswerLost, TypeOK
      <3> QED
        BY <1>0, <1>3, <1>9, <2>2, <3>1 DEF SecondAfterLoss
    <2> QED
      BY <2>1, <2>2
  <1> QED
    BY <1>1, <1>10, <1>11 DEF Abs!Next

\* The claim of a drain takes rows; a claim that is applied and not heard of, and
\* the end of an invocation, strand them.
LEMMA ClaimIsAbstract ==
  ASSUME AInv, NEW d \in Drains, Claim(d) \/ ClaimFails(d) \/ Cancelled(d)
  PROVE  (Abs!Next \/ UNCHANGED Abs!vars) /\ SecondAfterLoss'
  <1> USE DEF history
  <1>0. HInv /\ TypeOK /\ ExclusiveSending
    BY DEF AInv, CInv, HInv
  <1>1. \A e \in Drains, q \in Rows : e # d => (Holds(e, q)' <=> Holds(e, q))
    BY <1>0 DEF Claim, ClaimFails, Cancelled, Hold, Holds, TypeOK
  <1>2. \A r \in Won(d) : r \in Rows /\ status[r] = "pending"
    BY <1>0 DEF TypeOK, Won, Claimable
  <1>3. UNCHANGED <<request, accepted, lost>>
    BY DEF Claim, ClaimFails, Cancelled
  <1>4. ASSUME SetProcessing(Won(d))
        PROVE  /\ \A q \in Won(d) : status'[q] = "processing"
               /\ \A q \in Rows \ Won(d) : status'[q] = status[q]
    BY <1>2, <1>4 DEF SetProcessing
  <1>5. SecondAfterLoss'
    <2>1. \A r \in Rows : status[r] = "absent" => status'[r] = "absent"
      BY <1>2, <1>4 DEF Claim, ClaimFails, Cancelled, table
    <2> QED
      BY <1>3, <2>1, SecondKept
  <1>6. CASE Claim(d)
    <2>1. \A q \in Rows : Holds(d, q)' <=> q \in Won(d)
      BY <1>0, <1>6 DEF Claim, Hold, Holds, TypeOK
    <2>2. \A q \in Rows : ~Holds(d, q)
      BY <1>6 DEF Claim, Holds
    <2>3. \A q \in Won(d) : status'[q] = "processing" /\ Holds(d, q)'
      BY <1>2, <1>4, <1>6, <2>1 DEF Claim
    <2>4. \A q \in Won(d) : Life(q)' = "held"
      BY <2>3 DEF Life, Stranded
    <2>5. \A q \in Rows \ Won(d) : Life(q)' = Life(q)
      BY <1>1, <1>4, <1>6, <2>1, <2>2, LifeStays DEF Claim
    <2>6. Won(d) \in SUBSET Rows /\ \A r \in Won(d) : Life(r) = "waiting"
      BY <1>2 DEF Life
    <2>7. Abs!AllBecome(Won(d), "held")
      BY <2>4, <2>5, <2>6, RowsMove
    <2>8. Abs!Take(Won(d))
      BY <1>3, <2>6, <2>7 DEF Abs!Take
    <2> QED
      BY <1>5, <2>6, <2>8 DEF Abs!Next, Abs!Rows, Rows
  <1>7. ASSUME ClaimFails(d) \/ Cancelled(d)
        PROVE  \A q \in Rows : ~Holds(d, q)'
    BY <1>0, <1>7 DEF ClaimFails, Cancelled, Hold, Holds, TypeOK
  <1>8. ASSUME NEW rows \in SUBSET Rows, ClaimFails(d) \/ Cancelled(d),
               \A r \in rows : Life(r) \in {"waiting", "held"},
               \A r \in rows : status'[r] = "processing" /\ \A e \in Drains : ~Holds(e, r)',
               \A q \in Rows \ rows : status'[q] = status[q] /\ ~Holds(d, q)
        PROVE  Abs!Next
    <2>1. \A r \in rows : Life(r)' = "stuck"
      BY <1>8 DEF Life, Stranded
    <2>2. \A q \in Rows \ rows : Life(q)' = Life(q)
      BY <1>1, <1>7, <1>8, LifeStays
    <2>3. Abs!AllBecome(rows, "stuck")
      BY <2>1, <2>2, RowsMove
    <2>4. Abs!Strand(rows)
      BY <1>3, <1>8, <2>3 DEF Abs!Strand
    <2> QED
      BY <2>4 DEF Abs!Next, Abs!Rows, Rows
  <1>9. CASE ClaimFails(d) /\ SetProcessing(Won(d))
    <2>1. \A r \in Won(d) : Life(r) \in {"waiting", "held"}
      BY <1>2 DEF Life
    <2>2. \A r \in Won(d), e \in Drains : ~Holds(e, r)'
      BY <1>0, <1>1, <1>2, <1>7, <1>9 DEF ExclusiveSending
    <2>3. \A q \in Rows : ~Holds(d, q)
      BY <1>9 DEF ClaimFails, Holds
    <2>4. Won(d) \in SUBSET Rows
      BY <1>2
    <2> QED
      BY <1>4, <1>5, <1>8, <1>9, <2>1, <2>2, <2>3, <2>4
  <1>10. CASE ClaimFails(d) /\ UNCHANGED status
    <2>1. \A q \in Rows : ~Holds(d, q)
      BY <1>10 DEF ClaimFails, Holds
    <2>2. \A q \in Rows : Life(q)' = Life(q)
      BY <1>1, <1>7, <1>10, <2>1, LifeStays
    <2> QED
      BY <1>3, <1>5, <2>2, AbsRests
  <1>11. CASE Cancelled(d)
    <2> DEFINE rows == {q \in Rows : Holds(d, q)}
    <2>1. \A r \in rows : status[r] = "processing" /\ Life(r) \in {"waiting", "held"}
      BY <1>0, LifeOf DEF ExclusiveSending
    <2>2. \A q \in Rows : status'[q] = status[q]
      BY <1>11 DEF Cancelled, table
    <2>3. \A r \in rows, e \in Drains : ~Holds(e, r)'
      BY <1>0, <1>1, <1>7, <1>11 DEF ExclusiveSending
    <2>4. rows \in SUBSET Rows /\ \A q \in Rows \ rows : ~Holds(d, q)
      OBVIOUS
    <2> HIDE DEF rows
    <2> QED
      BY <1>5, <1>8, <1>11, <2>1, <2>2, <2>3, <2>4
  <1> QED
    BY <1>6, <1>9, <1>10, <1>11 DEF ClaimFails

\* sendOutboxRow and markOutboxRow deliver or reject one row that is in hand.
LEMMA SendIsAbstract ==
  ASSUME AInv, NEW d \in Drains, NEW r \in Rows, MaySend(d, r),
         Hold(d, batch[d] \ {r}), UNCHANGED request,
         NEW first \in FirstAnswers(r), NEW second \in SecondAnswers(first),
         Attempt(r, first, second),
         Mark(d, r, Verdict(first, second)) \/ UNCHANGED table
  PROVE  Abs!Next /\ SecondAfterLoss'
  <1> DEFINE m == Msg(r)
             i == r[2]
             v == Verdict(first, second)
  <1>0. HInv /\ CInv /\ TypeOK /\ ExclusiveSending
    BY DEF AInv, CInv, HInv
  <1>1. m \in Messages /\ i \in Requests /\ r = <<m, i>>
    BY RowsOf
  <1>2. Holds(d, r) /\ status[r] = "processing" /\ Life(r) = "held" /\ Alive(<<m, i>>)
    BY <1>0, <1>1, LifeOf DEF MaySend, Holds, ExclusiveSending, Alive
  <1>3. accepted[m] <= lost[m]
    BY <1>0, <1>1, <1>2, AliveMayGo
  <1>4. /\ \A q \in Rows : q # r => status'[q] = status[q]
        /\ \/ status'[r] \in {"sent", "failed", "pending"} /\ (status'[r] = "sent" <=> v = "sent")
           \/ status'[r] = "processing"
    BY <1>0, <1>2, MarkEffect, VerdictType DEF table
  <1>5. \A e \in Drains, q \in Rows : Holds(e, q)' <=> Holds(e, q) /\ ~(e = d /\ q = r)
    BY <1>0, <1>2 DEF Hold, Holds, TypeOK
  <1>6. \A q \in Rows : q # r => Life(q)' = Life(q)
    BY <1>4, <1>5, LifeStays
  <1>7. \A e \in Drains : ~Holds(e, r)'
    BY <1>0, <1>2, <1>5 DEF ExclusiveSending
  <1>8. \/ Life(r)' \in {"sent", "failed", "waiting"} /\ (Life(r)' = "sent" <=> v = "sent")
        \/ Life(r)' = "stuck"
    BY <1>4, <1>7 DEF Life, Stranded
  <1>9. \A s : Life(r)' = s => Abs!Becomes(r, s)
    BY <1>6, OneRowMoves
  <1>10. /\ accepted' \in [Messages -> Nat] /\ lost' \in [Messages -> Nat]
         /\ \A l \in Messages : l # m => accepted'[l] = accepted[l] /\ lost'[l] = lost[l]
         /\ \/ accepted'[m] = accepted[m] /\ lost'[m] = lost[m] /\ v # "sent"
            \/ accepted'[m] = accepted[m] + 1 /\ lost'[m] = lost[m] /\ v = "sent"
            \/ accepted'[m] = accepted[m] + 1 /\ lost'[m] = lost[m] + 1 /\ v # "sent"
    BY <1>0, AttemptEffect
  <1>11. SecondAfterLoss'
    <2>1. \A q \in Rows : status[q] = "absent" => status'[q] = "absent"
      BY <1>2, <1>4
    <2>2. \A l \in Messages : lost'[l] = lost[l] \/ lost'[l] = lost[l] + 1
      BY <1>10
    <2> QED
      BY <2>1, <2>2, SecondKept
  <1> HIDE DEF m, i, v
  <1>12. accepted \in [Messages -> Nat] /\ lost \in [Messages -> Nat]
    BY <1>0 DEF TypeOK
  <1>13. CASE accepted'[m] = accepted[m] /\ lost'[m] = lost[m] /\ v # "sent"
    <2>1. UNCHANGED <<accepted, lost>>
      BY <1>10, <1>12, <1>13
    <2>2. \E s \in {"waiting", "failed", "stuck"} : Abs!Becomes(r, s)
      BY <1>8, <1>9, <1>13
    <2>3. Abs!Reject(<<m, i>>)
      BY <1>1, <1>2, <2>1, <2>2 DEF Abs!Reject
    <2> QED
      BY <1>1, <1>11, <2>3 DEF Abs!Next
  <1>14. CASE accepted'[m] = accepted[m] + 1
    <2>1. accepted' = Abs!CountOne(accepted, m)
      BY <1>1, <1>10, <1>12, <1>14, OneMore
    <2>2. \/ lost' = lost /\ \E s \in {"sent", "stuck"} : Abs!Becomes(r, s)
          \/ /\ lost' = Abs!CountOne(lost, m)
             /\ \E s \in {"waiting", "failed", "stuck"} : Abs!Becomes(r, s)
      <3>1. CASE lost'[m] = lost[m]
        <4>1. lost' = lost /\ v = "sent"
          BY <1>1, <1>10, <1>12, <1>14, <3>1
        <4> QED
          BY <1>8, <1>9, <4>1
      <3>2. CASE lost'[m] = lost[m] + 1
        <4>1. lost' = Abs!CountOne(lost, m) /\ v # "sent"
          BY <1>1, <1>10, <1>12, <1>14, <3>2, OneMore
        <4> QED
          BY <1>8, <1>9, <4>1
      <3> QED
        BY <1>10, <3>1, <3>2
    <2>3. Abs!Deliver(m, i)
      BY <1>1, <1>2, <1>3, <2>1, <2>2 DEF Abs!Deliver
    <2> QED
      BY <1>1, <1>11, <2>3 DEF Abs!Next
  <1> QED
    BY <1>10, <1>13, <1>14

\* Every step of the outbox is a step of the abstract one, or none.
LEMMA StepIsAbstract ==
  ASSUME AInv, [Next]_vars
  PROVE  [Abs!Next]_(Abs!vars) /\ SecondAfterLoss'
  <1> USE DEF table, drain, history
  <1>0. HInv /\ TypeOK /\ SecondAfterLoss
    BY DEF AInv, CInv, HInv
  <1>1. ASSUME UNCHANGED <<status, history>>,
               \A d \in Drains, q \in Rows : Holds(d, q)' <=> Holds(d, q),
               \A m \in Messages : request'[m] # Finished => request[m] # Finished
        PROVE  [Abs!Next]_(Abs!vars) /\ SecondAfterLoss'
    <2>1. \A q \in Rows : Life(q)' = Life(q)
      BY <1>1, LifeStays
    <2>2. SecondAfterLoss'
      BY <1>0, <1>1 DEF SecondAfterLoss
    <2> QED
      BY <1>1, <2>1, <2>2, AbsRests
  <1>2. ASSUME NEW m \in Messages, HFStep(m)
        PROVE  [Abs!Next]_(Abs!vars) /\ SecondAfterLoss'
    <2>1. CASE InsertFails(m)
      <3>1. \A d \in Drains, q \in Rows : Holds(d, q)' <=> Holds(d, q)
        BY <2>1 DEF InsertFails, Holds
      <3>2. \A l \in Messages : request'[l] # Finished => request[l] # Finished
        BY <1>0, <2>1 DEF InsertFails, TypeOK
      <3> QED
        BY <1>1, <2>1, <3>1, <3>2 DEF InsertFails
    <2>2. CASE InsertOk(m) \/ InsertAnswerLost(m)
      <3>1. request[m] \in Requests
        BY <1>0, <2>2 DEF InsertOk, InsertAnswerLost, TypeOK
      <3> QED
        BY <2>2, <3>1, InsertIsAbstract
    <2> QED
      BY <1>2, <2>1, <2>2 DEF HFStep
  <1>3. ASSUME NEW d \in Drains, ReadReady(d)
        PROVE  [Abs!Next]_(Abs!vars) /\ SecondAfterLoss'
    <2>1. \A e \in Drains, q \in Rows : Holds(e, q)' <=> Holds(e, q)
      BY <1>0, <1>3 DEF ReadReady, Holds, TypeOK
    <2> QED
      BY <1>1, <1>3, <2>1 DEF ReadReady
  <1>4. ASSUME NEW d \in Drains, Claim(d) \/ ClaimFails(d) \/ Cancelled(d)
        PROVE  [Abs!Next]_(Abs!vars) /\ SecondAfterLoss'
    BY <1>4, ClaimIsAbstract
  <1>5. ASSUME NEW d \in Drains, NEW r \in Rows, SendOutboxRow(d, r) \/ SendMarkLost(d, r)
        PROVE  [Abs!Next]_(Abs!vars) /\ SecondAfterLoss'
    BY <1>5, SendIsAbstract DEF SendOutboxRow, SendMarkLost
  <1>6. ASSUME NEW r \in Rows, BackoffEnds(r)
        PROVE  [Abs!Next]_(Abs!vars) /\ SecondAfterLoss'
    BY <1>1, <1>6 DEF BackoffEnds, Holds
  <1>7. ASSUME OtherInsert \/ CallLost \/ \E d \in Drains : ReadNothing(d)
        PROVE  [Abs!Next]_(Abs!vars) /\ SecondAfterLoss'
    <2>1. UNCHANGED <<request, table, drain, history>>
      BY <1>0, <1>7, CallStepEffect
    <2> QED
      BY <1>1, <2>1 DEF Holds
  <1>8. CASE UNCHANGED vars
    BY <1>1, <1>8 DEF vars, Holds
  <1> QED
    BY <1>2, <1>3, <1>4, <1>5, <1>6, <1>7, <1>8 DEF Next, DrainStep, Fault

\* The outbox implements OutboxAbs, for any replies, drains, retries and faults.
THEOREM ImplementsAbsAlways == Spec => ImplementsAbs
  <1>1. AInv /\ [Next]_vars => AInv' /\ [Abs!Next]_(Abs!vars)
    BY NextHInv, NextCopies, StepIsAbstract DEF AInv, CInv
  <1> QED
    BY <1>1, InitAbstract, PTL DEF Spec, ImplementsAbs, Abs!Spec
=============================================================================
