------------------------- MODULE UpdateQueueExclusive -----------------------
(***************************************************************************)
(* Where no replayed _mark_failed can meet another consumer, because the   *)
(* connection never dies at that moment or there is only one consumer,     *)
(* every row is in one pair of hands, a settled row stays settled, and the *)
(* queue implements UpdateQueueAbs.  A single consumer moreover executes   *)
(* no row more often than MAX_ATTEMPTS.                                    *)
(***************************************************************************)
EXTENDS UpdateQueueProofs

NoReplayRace == MaxReplays = 0 \/ \A c, d \in Consumers : c = d

\* A row is in the batch of at most one running consumer.
OneRunner ==
  \A c, d \in Consumers : \A u \in batch[c] \cap batch[d] :
    phase[c] = "running" /\ phase[d] = "running" => c = d

RunsProcessing ==
  \A c \in Consumers, u \in Updates : Runs(c, u) => status[u] = "processing"

\* A replay is of one row, and repeats what is in the table already.
ReplayWritten ==
  \A c \in Consumers : \A u \in replay[c] :
    status[u] = NextStatus(seen[c][u]) /\ replay[c] = {u}

NoReplays ==
  MaxReplays = 0 => replays = 0 /\ \A c \in Consumers : replay[c] = {}

XInv == /\ Inv
        /\ OneRunner
        /\ RunsProcessing
        /\ ReplayWritten
        /\ NoReplays

\* No consumer holds anything at the start.
LEMMA InitXInv == Init => XInv
  <1> SUFFICES ASSUME Init PROVE XInv
    OBVIOUS
  <1>1. Inv
    BY InitInv
  <1>2. OneRunner /\ RunsProcessing /\ ReplayWritten /\ NoReplays
    BY DEF Init, OneRunner, RunsProcessing, Runs, ReplayWritten, NoReplays
  <1> QED
    BY <1>1, <1>2 DEF XInv

\* A row whose failure is being replayed is in no other consumer's hands.
LEMMA ReplaysAlone ==
  ASSUME NoReplayRace, XInv, NEW c \in Consumers, replay[c] # {}, NEW d \in Consumers
  PROVE  c = d
  BY DEF NoReplayRace, XInv, NoReplays

\* Where no failure is replayed behind an overlapping consumer, every step keeps the hold exclusive.
LEMMA NextXInv ==
  ASSUME NoReplayRace, XInv, [Next]_vars
  PROVE  XInv'
  <1> USE ConstantsAssumption DEF table, worker, consumer, counters
  <1>0. Inv' /\ Inv /\ TypeOK /\ ReplaysRun
    BY NextInv DEF XInv, Inv
  <1>1. ASSUME NEW u \in Updates, HandleWebhook(u)
        PROVE  XInv'
    <2> USE <1>0, <1>1 DEF XInv, HandleWebhook
    <2>1. OneRunner'
      BY ReplaysAlone DEF TypeOK, OneRunner, RunsProcessing, Runs
    <2>2. RunsProcessing'
      BY ReplaysAlone DEF TypeOK, OneRunner, RunsProcessing, Runs, ReplaysRun
    <2>3. ReplayWritten'
      BY ReplaysAlone DEF TypeOK, ReplayWritten, NextStatus, ReplaysRun
    <2>4. NoReplays'
      BY DEF TypeOK, NoReplays
    <2> QED
      BY <2>1, <2>2, <2>3, <2>4
  <1>2. ASSUME NEW u \in Updates, EnqueueUpdate(u)
        PROVE  XInv'
    <2> USE <1>0, <1>2 DEF XInv, EnqueueUpdate, InsertRow
    <2>1. OneRunner'
      BY ReplaysAlone DEF TypeOK, OneRunner, RunsProcessing, Runs
    <2>2. RunsProcessing'
      BY ReplaysAlone DEF TypeOK, OneRunner, RunsProcessing, Runs, ReplaysRun
    <2>3. ReplayWritten'
      BY ReplaysAlone DEF TypeOK, ReplayWritten, NextStatus, ReplaysRun
    <2>4. NoReplays'
      BY DEF TypeOK, NoReplays
    <2> QED
      BY <2>1, <2>2, <2>3, <2>4
  <1>3. ASSUME NEW u \in Updates, EnqueueLost(u)
        PROVE  XInv'
    <2> USE <1>0, <1>3 DEF XInv, EnqueueLost
    <2>1. OneRunner'
      BY ReplaysAlone DEF TypeOK, OneRunner, RunsProcessing, Runs
    <2>2. RunsProcessing'
      BY ReplaysAlone DEF TypeOK, OneRunner, RunsProcessing, Runs, ReplaysRun
    <2>3. ReplayWritten'
      BY ReplaysAlone DEF TypeOK, ReplayWritten, NextStatus, ReplaysRun
    <2>4. NoReplays'
      BY DEF TypeOK, NoReplays
    <2> QED
      BY <2>1, <2>2, <2>3, <2>4
  <1>4. ASSUME NEW c \in Consumers, ReadCandidates(c)
        PROVE  XInv'
    <2> USE <1>0, <1>4 DEF XInv, ReadCandidates
    <2>1. OneRunner'
      BY ReplaysAlone DEF TypeOK, OneRunner, RunsProcessing, Runs
    <2>2. RunsProcessing'
      BY ReplaysAlone DEF TypeOK, OneRunner, RunsProcessing, Runs, ReplaysRun
    <2>3. ReplayWritten'
      BY ReplaysAlone DEF TypeOK, ReplayWritten, NextStatus, ReplaysRun
    <2>4. NoReplays'
      BY DEF TypeOK, NoReplays
    <2> QED
      BY <2>1, <2>2, <2>3, <2>4
  <1>5. ASSUME NEW c \in Consumers, ClaimBatch(c)
        PROVE  XInv'
    <2> USE <1>0, <1>5 DEF XInv, ClaimBatch, SetProcessing, Hold, Won, Claimable
    <2>1. OneRunner'
      BY ReplaysAlone DEF TypeOK, OneRunner, RunsProcessing, Runs
    <2>2. RunsProcessing'
      BY ReplaysAlone DEF TypeOK, OneRunner, RunsProcessing, Runs, ReplaysRun
    <2>3. ReplayWritten'
      <3> SUFFICES ASSUME NEW d \in Consumers, NEW v \in replay[d]
                   PROVE  status'[v] = NextStatus(seen'[d][v]) /\ replay[d] = {v}
        BY DEF ReplayWritten
      <3>1. d = c
        BY ReplaysAlone
      <3> QED
        BY <3>1 DEF ReplaysRun
    <2>4. NoReplays'
      BY DEF TypeOK, NoReplays
    <2> QED
      BY <2>1, <2>2, <2>3, <2>4
  <1>6. ASSUME NEW c \in Consumers, ClaimAnswerLost(c)
        PROVE  XInv'
    <2> USE <1>0, <1>6 DEF XInv, ClaimAnswerLost, SetProcessing, Hold, Won, Claimable
    <2>0. /\ phase'[c] # "running" /\ replay[c] = {} /\ replay' = replay
          /\ \A d \in Consumers \ {c} :
               phase'[d] = phase[d] /\ batch'[d] = batch[d] /\ seen'[d] = seen[d]
      <3>1. \/ phase' = phase
            \/ phase' = [phase EXCEPT ![c] = "idle"]
        OBVIOUS
      <3>2. \A d \in Consumers \ {c} : batch'[d] = batch[d] /\ seen'[d] = seen[d]
        <4>1. CASE UNCHANGED <<phase, batch, seen>>
          BY <4>1
        <4>2. CASE Hold(c, {})
          BY <4>2 DEF TypeOK
        <4> QED
          BY <4>1, <4>2
      <3> QED
        BY <3>1, <3>2 DEF TypeOK, ReplaysRun
    <2>1. OneRunner'
      BY <2>0 DEF OneRunner
    <2>2. RunsProcessing'
      BY ReplaysAlone DEF TypeOK, OneRunner, RunsProcessing, Runs, ReplaysRun
    <2>3. ReplayWritten'
      BY <2>0, ReplaysAlone DEF TypeOK, ReplayWritten, ReplaysRun
    <2>4. NoReplays'
      BY DEF TypeOK, NoReplays
    <2> QED
      BY <2>1, <2>2, <2>3, <2>4
  <1>7. ASSUME NEW c \in Consumers, ClaimFails(c)
        PROVE  XInv'
    <2> USE <1>0, <1>7 DEF XInv, ClaimFails, Hold
    <2>1. OneRunner'
      BY ReplaysAlone DEF TypeOK, OneRunner, RunsProcessing, Runs
    <2>2. RunsProcessing'
      BY ReplaysAlone DEF TypeOK, OneRunner, RunsProcessing, Runs, ReplaysRun
    <2>3. ReplayWritten'
      BY ReplaysAlone DEF TypeOK, ReplayWritten, NextStatus, ReplaysRun
    <2>4. NoReplays'
      BY DEF TypeOK, NoReplays
    <2> QED
      BY <2>1, <2>2, <2>3, <2>4
  <1>8. ASSUME NEW c \in Consumers, Crash(c)
        PROVE  XInv'
    <2> USE <1>0, <1>8 DEF XInv, Crash, Hold
    <2>1. OneRunner'
      BY ReplaysAlone DEF TypeOK, OneRunner, RunsProcessing, Runs
    <2>2. RunsProcessing'
      BY ReplaysAlone DEF TypeOK, OneRunner, RunsProcessing, Runs, ReplaysRun
    <2>3. ReplayWritten'
      BY ReplaysAlone DEF TypeOK, ReplayWritten, NextStatus, ReplaysRun
    <2>4. NoReplays'
      BY DEF TypeOK, NoReplays
    <2> QED
      BY <2>1, <2>2, <2>3, <2>4
  <1>9. ASSUME NEW c \in Consumers, NEW u \in Updates, MarkDone(c, u)
        PROVE  XInv'
    <2> USE <1>0, <1>9 DEF XInv, MarkDone, MayStep, DoneStatus, Hold
    <2>1. OneRunner'
      BY ReplaysAlone DEF TypeOK, OneRunner, RunsProcessing, Runs
    <2>2. RunsProcessing'
      BY ReplaysAlone DEF TypeOK, OneRunner, RunsProcessing, Runs, ReplaysRun
    <2>3. ReplayWritten'
      BY ReplaysAlone DEF TypeOK, ReplayWritten, NextStatus, ReplaysRun
    <2>4. NoReplays'
      BY DEF TypeOK, NoReplays
    <2> QED
      BY <2>1, <2>2, <2>3, <2>4
  <1>10. ASSUME NEW c \in Consumers, NEW u \in Updates, MarkFailed(c, u)
        PROVE  XInv'
    <2> USE <1>0, <1>10 DEF XInv, MarkFailed, MayStep, WriteFailure, Hold
    <2>1. OneRunner'
      BY ReplaysAlone DEF TypeOK, OneRunner, RunsProcessing, Runs
    <2>2. RunsProcessing'
      BY ReplaysAlone DEF TypeOK, OneRunner, RunsProcessing, Runs, ReplaysRun
    <2>3. ReplayWritten'
      BY ReplaysAlone DEF TypeOK, ReplayWritten, NextStatus, ReplaysRun
    <2>4. NoReplays'
      BY DEF TypeOK, NoReplays
    <2> QED
      BY <2>1, <2>2, <2>3, <2>4
  <1>11. ASSUME NEW c \in Consumers, NEW u \in Updates, ReplayMarkFailed(c, u)
        PROVE  XInv'
    <2> USE <1>0, <1>11 DEF XInv, ReplayMarkFailed, WriteFailure, Hold
    <2>1. OneRunner'
      BY ReplaysAlone DEF TypeOK, OneRunner, RunsProcessing, Runs
    <2>2. RunsProcessing'
      <3> SUFFICES ASSUME NEW d \in Consumers, NEW v \in Updates, Runs(d, v)'
                   PROVE  status'[v] = "processing"
        BY DEF RunsProcessing
      <3>1. d = c /\ u \in replay[c] /\ replay'[c] = {}
        BY ReplaysAlone DEF TypeOK
      <3>2. v # u /\ v \in batch[c] /\ phase[c] = "running"
        BY <3>1 DEF TypeOK, Runs, ReplaysRun
      <3>3. v \notin replay[c]
        BY <3>1, <3>2 DEF ReplayWritten
      <3> QED
        BY <3>2, <3>3 DEF TypeOK, RunsProcessing, Runs
    <2>3. ReplayWritten'
      BY ReplaysAlone DEF TypeOK, ReplayWritten, NextStatus, ReplaysRun
    <2>4. NoReplays'
      BY DEF TypeOK, NoReplays
    <2> QED
      BY <2>1, <2>2, <2>3, <2>4
  <1>12. ASSUME NEW c \in Consumers, NEW u \in Updates, MarkLost(c, u)
        PROVE  XInv'
    <2> USE <1>0, <1>12 DEF XInv, MarkLost, MayStep, Hold
    <2>1. OneRunner'
      BY ReplaysAlone DEF TypeOK, OneRunner, RunsProcessing, Runs
    <2>2. RunsProcessing'
      BY ReplaysAlone DEF TypeOK, OneRunner, RunsProcessing, Runs, ReplaysRun
    <2>3. ReplayWritten'
      BY ReplaysAlone DEF TypeOK, ReplayWritten, NextStatus, ReplaysRun
    <2>4. NoReplays'
      BY DEF TypeOK, NoReplays
    <2> QED
      BY <2>1, <2>2, <2>3, <2>4
  <1>13. ASSUME NEW c \in Consumers, NEW u \in Updates, MarkFailedAnswerLost(c, u)
        PROVE  XInv'
    <2> USE <1>0, <1>13 DEF XInv, MarkFailedAnswerLost, MayStep, WriteFailure
    <2>1. OneRunner'
      BY ReplaysAlone DEF TypeOK, OneRunner, RunsProcessing, Runs
    <2>2. RunsProcessing'
      BY ReplaysAlone DEF TypeOK, OneRunner, RunsProcessing, Runs, ReplaysRun
    <2>3. ReplayWritten'
      <3> SUFFICES ASSUME NEW d \in Consumers, NEW v \in replay'[d]
                   PROVE  status'[v] = NextStatus(seen'[d][v]) /\ replay'[d] = {v}
        BY DEF ReplayWritten
      <3>1. CASE d = c
        BY <3>1 DEF TypeOK
      <3>2. CASE d # c
        BY <3>2, ReplaysAlone DEF TypeOK
      <3> QED
        BY <3>1, <3>2
    <2>4. NoReplays'
      BY DEF TypeOK, NoReplays
    <2> QED
      BY <2>1, <2>2, <2>3, <2>4
  <1>14. CASE UNCHANGED vars
    BY <1>0, <1>14
    DEF vars, XInv, OneRunner, RunsProcessing, Runs, ReplayWritten, NoReplays
  <1> QED
    BY <1>1, <1>2, <1>3, <1>4, <1>5, <1>6, <1>7, <1>8, <1>9, <1>10, <1>11, <1>12, <1>13, <1>14
    DEF Next, WorkerStep, Claiming, Fault, TaskEnds

\* The exclusive hold lasts in every reachable state.
THEOREM XInvAlways ==
  ASSUME NoReplayRace
  PROVE  Spec => []XInv
  <1>1. XInv /\ [Next]_vars => XInv'
    BY NextXInv
  <1> QED
    BY <1>1, InitXInv, PTL DEF Spec

(***************************************************************************)
(* Two consumers never run process_update on the same row, for any number  *)
(* of consumers, updates, crashes and lost writes, unless a replayed       *)
(* _mark_failed meets another consumer.                                    *)
(***************************************************************************)
THEOREM ExclusiveProcessingAlways ==
  ASSUME NoReplayRace
  PROVE  Spec => []ExclusiveProcessing
  <1>1. XInv => ExclusiveProcessing
    BY DEF XInv, OneRunner, ExclusiveProcessing, Runs
  <1> QED
    BY <1>1, XInvAlways, PTL

\* No step changes the status of a settled row.
LEMMA SettledStays ==
  ASSUME NoReplayRace, XInv, [Next]_vars, NEW u \in Updates, Settled(u)
  PROVE  status'[u] = status[u]
  <1> USE DEF XInv, Inv, Settled, table, worker, consumer, counters
  <1>1. ASSUME NEW v \in Updates, WorkerStep(v)
        PROVE  status'[u] = status[u]
    BY <1>1 DEF WorkerStep, HandleWebhook, EnqueueUpdate, EnqueueLost, InsertRow, TypeOK
  <1>2. ASSUME NEW c \in Consumers, Claiming(c) \/ ClaimAnswerLost(c) \/ ClaimFails(c)
                                    \/ Crash(c)
        PROVE  status'[u] = status[u]
    BY <1>2 DEF Claiming, ReadCandidates, ClaimBatch, ClaimAnswerLost, ClaimFails, Crash,
                SetProcessing, Won, Claimable
  <1>3. ASSUME NEW c \in Consumers, NEW v \in Updates,
               MarkDone(c, v) \/ MarkFailed(c, v) \/ MarkLost(c, v)
                 \/ MarkFailedAnswerLost(c, v)
        PROVE  status'[u] = status[u]
    <2>1. MayStep(c, v)
      BY <1>3 DEF MarkDone, MarkFailed, MarkLost, MarkFailedAnswerLost
    <2>2. status[v] = "processing"
      BY <2>1 DEF MayStep, RunsProcessing, Runs
    <2>3. v # u
      BY <2>2
    <2> QED
      BY <1>3, <2>3 DEF TypeOK, MarkDone, MarkFailed, MarkLost, MarkFailedAnswerLost,
                        WriteFailure
  <1>4. ASSUME NEW c \in Consumers, NEW v \in Updates, ReplayMarkFailed(c, v)
        PROVE  status'[u] = status[u]
    BY <1>4 DEF TypeOK, ReplayMarkFailed, WriteFailure, ReplayWritten
  <1>5. CASE UNCHANGED vars
    BY <1>5 DEF vars
  <1> QED
    BY <1>1, <1>2, <1>3, <1>4, <1>5 DEF Next, Fault, TaskEnds

(***************************************************************************)
(* Under the same condition a row that is done or failed stays so: neither *)
(* a repeated delivery, a late claim nor a late mark reopens it.           *)
(***************************************************************************)
THEOREM SettledIsFinalAlways ==
  ASSUME NoReplayRace
  PROVE  Spec => SettledIsFinal
  <1>1. XInv /\ [Next]_vars => [\A u \in Updates : Settled(u) => status'[u] = status[u]]_vars
    BY SettledStays
  <1> QED
    BY <1>1, XInvAlways, PTL DEF Spec, SettledIsFinal

-----------------------------------------------------------------------------
\* The steps of UpdateQueueAbs for one update, as the refinement maps them.
AbsMove(u) ==
  \/ /\ Stage(u) = "new" /\ Stage(u)' = "queued" /\ execs'[u] = execs[u]
  \/ /\ Stage(u) = "queued" /\ Stage(u)' = "held" /\ execs'[u] = execs[u] + 1
  \/ /\ Stage(u) = "held" /\ execs'[u] = execs[u]
     /\ \/ Stage(u)' \in {"done", "queued", "stuck"}
        \/ Stage(u)' = "failed" /\ execs[u] >= MAX_ATTEMPTS
  \/ /\ Stage(u) = "queued" /\ Stage(u)' = "stuck" /\ execs'[u] = execs[u]
  \/ /\ Stage(u)' = Stage(u) /\ execs'[u] = execs[u]

\* A step that moves every update along its abstract life is an abstract step.
LEMMA MovesAreAbstract ==
  ASSUME Inv', \A u \in Updates : AbsMove(u)
  PROVE  Abs!Next
  <1>1. \A u \in Updates : Stage(u)' \in Abs!Stages
    BY DEF Inv, TypeOK, Statuses, Stage, Abs!Stages
  <1>2. [u \in Updates |-> Stage(u)]' \in [Updates -> Abs!Stages]
    BY <1>1
  <1>3. execs' \in [Updates -> Nat]
    BY DEF Inv, TypeOK
  <1>4. ASSUME NEW u \in Updates
        PROVE  \/ Abs!Accept(u) \/ Abs!Take(u) \/ Abs!Complete(u) \/ Abs!GiveBack(u)
               \/ Abs!GiveUp(u) \/ Abs!Strand(u) \/ Abs!Rest(u)
    BY DEF AbsMove, Abs!Accept, Abs!Take, Abs!Complete, Abs!GiveBack, Abs!GiveUp,
           Abs!Strand, Abs!Rest, Abs!Moves
  <1> QED
    BY <1>2, <1>3, <1>4 DEF Abs!Next

\* The initial states map to the initial state.
LEMMA InitAbstract == Init => Abs!Init
  BY DEF Init, Abs!Init, Stage

\* Every step moves every update along its abstract life.
LEMMA StepMoves ==
  ASSUME NoReplayRace, XInv, [Next]_vars, NEW w \in Updates
  PROVE  AbsMove(w)
  <1> USE DEF table, worker, consumer, counters, AbsMove, Stage, Held, Runs
  <1>0. /\ TypeOK /\ TypeOK' /\ OneRunner /\ RunsProcessing /\ ReplaysRun
        /\ ReplayWritten /\ FailedOnlyAfterMaxAttempts'
    BY NextInv DEF XInv, Inv
  <1>1. ASSUME NEW u \in Updates, HandleWebhook(u)
        PROVE  AbsMove(w)
    BY <1>0, <1>1 DEF TypeOK, HandleWebhook, RunsProcessing, OneRunner, ReplaysRun, ReplayWritten, FailedOnlyAfterMaxAttempts
  <1>2. ASSUME NEW u \in Updates, EnqueueUpdate(u)
        PROVE  AbsMove(w)
    BY <1>0, <1>2 DEF TypeOK, EnqueueUpdate, InsertRow, RunsProcessing, OneRunner, ReplaysRun, ReplayWritten, FailedOnlyAfterMaxAttempts
  <1>3. ASSUME NEW u \in Updates, EnqueueLost(u)
        PROVE  AbsMove(w)
    BY <1>0, <1>3 DEF TypeOK, EnqueueLost, RunsProcessing, OneRunner, ReplaysRun, ReplayWritten, FailedOnlyAfterMaxAttempts
  <1>4. ASSUME NEW c \in Consumers, ReadCandidates(c)
        PROVE  AbsMove(w)
    BY <1>0, <1>4 DEF TypeOK, ReadCandidates, RunsProcessing, OneRunner, ReplaysRun, ReplayWritten, FailedOnlyAfterMaxAttempts
  <1>5. ASSUME NEW c \in Consumers, ClaimBatch(c)
        PROVE  AbsMove(w)
    BY <1>0, <1>5 DEF TypeOK, ClaimBatch, SetProcessing, Hold, Won, Claimable, RunsProcessing, OneRunner, ReplaysRun, ReplayWritten, FailedOnlyAfterMaxAttempts
  <1>6. ASSUME NEW c \in Consumers, ClaimAnswerLost(c)
        PROVE  AbsMove(w)
    BY <1>0, <1>6 DEF TypeOK, ClaimAnswerLost, SetProcessing, Hold, Won, Claimable, RunsProcessing, OneRunner, ReplaysRun, ReplayWritten, FailedOnlyAfterMaxAttempts
  <1>7. ASSUME NEW c \in Consumers, ClaimFails(c)
        PROVE  AbsMove(w)
    BY <1>0, <1>7 DEF TypeOK, ClaimFails, Hold, RunsProcessing, OneRunner, ReplaysRun, ReplayWritten, FailedOnlyAfterMaxAttempts
  <1>8. ASSUME NEW c \in Consumers, Crash(c)
        PROVE  AbsMove(w)
    BY <1>0, <1>8 DEF TypeOK, Crash, Hold, RunsProcessing, OneRunner, ReplaysRun, ReplayWritten, FailedOnlyAfterMaxAttempts
  <1>9. ASSUME NEW c \in Consumers, NEW u \in Updates, MarkDone(c, u)
        PROVE  AbsMove(w)
    BY <1>0, <1>9 DEF TypeOK, MarkDone, MayStep, DoneStatus, Hold, RunsProcessing, OneRunner, ReplaysRun, ReplayWritten, FailedOnlyAfterMaxAttempts
  <1>10. ASSUME NEW c \in Consumers, NEW u \in Updates, MarkFailed(c, u)
        PROVE  AbsMove(w)
    BY <1>0, <1>10 DEF TypeOK, MarkFailed, MayStep, WriteFailure, NextStatus, Hold, RunsProcessing, OneRunner, ReplaysRun, ReplayWritten, FailedOnlyAfterMaxAttempts
  <1>11. ASSUME NEW c \in Consumers, NEW u \in Updates, ReplayMarkFailed(c, u)
        PROVE  AbsMove(w)
    BY <1>0, <1>11 DEF TypeOK, ReplayMarkFailed, WriteFailure, NextStatus, Hold, RunsProcessing, OneRunner, ReplaysRun, ReplayWritten, FailedOnlyAfterMaxAttempts
  <1>12. ASSUME NEW c \in Consumers, NEW u \in Updates, MarkLost(c, u)
        PROVE  AbsMove(w)
    BY <1>0, <1>12 DEF TypeOK, MarkLost, MayStep, Hold, RunsProcessing, OneRunner, ReplaysRun, ReplayWritten, FailedOnlyAfterMaxAttempts
  <1>13. ASSUME NEW c \in Consumers, NEW u \in Updates, MarkFailedAnswerLost(c, u)
        PROVE  AbsMove(w)
    BY <1>0, <1>13 DEF TypeOK, MarkFailedAnswerLost, MayStep, WriteFailure, NextStatus, RunsProcessing, OneRunner, ReplaysRun, ReplayWritten, FailedOnlyAfterMaxAttempts
  <1>14. CASE UNCHANGED vars
    BY <1>0, <1>14 DEF vars
  <1> QED
    BY <1>1, <1>2, <1>3, <1>4, <1>5, <1>6, <1>7, <1>8, <1>9, <1>10, <1>11, <1>12, <1>13, <1>14
    DEF Next, WorkerStep, Claiming, Fault, TaskEnds

(***************************************************************************)
(* The queue implements UpdateQueueAbs, for any number of updates,         *)
(* consumers, attempts and faults, under the same condition.               *)
(***************************************************************************)
THEOREM ImplementsAbsAlways ==
  ASSUME NoReplayRace
  PROVE  Spec => ImplementsAbs
  <1>1. XInv /\ [Next]_vars => [Abs!Next]_(Abs!vars)
    <2>1. ASSUME XInv, [Next]_vars PROVE Abs!Next
      <3>1. Inv'
        BY <2>1, NextInv DEF XInv
      <3>2. \A u \in Updates : AbsMove(u)
        BY <2>1, StepMoves
      <3> QED
        BY <3>1, <3>2, MovesAreAbstract
    <2> QED
      BY <2>1
  <1> QED
    BY <1>1, InitAbstract, XInvAlways, PTL DEF Spec, ImplementsAbs, Abs!Spec
-----------------------------------------------------------------------------
\* One consumer counts what it executes: in the table while the row waits, and
\* in what it read while it claims and runs the row.
ExecutionsCounted ==
  /\ \A u \in Updates : status[u] \in {"absent", "pending"} => execs[u] = attempts[u]
  /\ \A c \in Consumers : \A u \in batch[c] :
       /\ phase[c] = "claiming" /\ status[u] \in {"absent", "pending"}
            => seen[c][u] = attempts[u]
       /\ phase[c] = "running" => execs[u] = seen[c][u] + 1

EInv == Inv /\ ExecutionsCounted /\ ExecutionsBounded

OneConsumer == \A c, d \in Consumers : c = d

\* Nothing is executed at the start.
LEMMA InitEInv == Init => EInv
  <1> SUFFICES ASSUME Init PROVE EInv
    OBVIOUS
  <1>1. ExecutionsCounted /\ ExecutionsBounded
    BY ConstantsAssumption DEF Init, ExecutionsCounted, ExecutionsBounded
  <1> QED
    BY <1>1, InitInv DEF EInv

\* With one consumer every step keeps the count.
LEMMA NextEInv ==
  ASSUME OneConsumer, EInv, [Next]_vars
  PROVE  EInv'
  <1> USE ConstantsAssumption DEF table, worker, consumer, counters
  <1>0. Inv' /\ TypeOK /\ AttemptsCount /\ ReplaysRun /\ ExecutionsCounted /\ ExecutionsBounded
    BY NextInv DEF EInv, Inv
  <1>1. ASSUME NEW u \in Updates, WorkerStep(u)
        PROVE  ExecutionsCounted' /\ ExecutionsBounded'
    BY <1>0, <1>1
    DEF WorkerStep, HandleWebhook, EnqueueUpdate, InsertRow, EnqueueLost, TypeOK,
        ExecutionsCounted, ExecutionsBounded
  <1>2. ASSUME NEW c \in Consumers, ReadCandidates(c)
        PROVE  ExecutionsCounted' /\ ExecutionsBounded'
    <2>1. /\ UNCHANGED <<status, attempts, execs>>
          /\ phase'[c] = "claiming"
          /\ \A u \in batch'[c] : u \in Updates /\ seen'[c][u] = attempts[u]
      BY <1>0, <1>2 DEF ReadCandidates, Oldest, Pending, TypeOK
    <2>2. \A d \in Consumers : d = c
      BY DEF OneConsumer
    <2> QED
      BY <1>0, <2>1, <2>2 DEF ExecutionsCounted, ExecutionsBounded
  <1>3. ASSUME NEW c \in Consumers, ClaimBatch(c)
        PROVE  ExecutionsCounted' /\ ExecutionsBounded'
    <2> USE DEF SetProcessing, Won, Claimable
    <2>1. /\ status' = [u \in Updates |-> IF u \in Won(c) THEN "processing" ELSE status[u]]
          /\ execs' = [u \in Updates |-> IF u \in Won(c) THEN execs[u] + 1 ELSE execs[u]]
          /\ attempts' = attempts /\ phase[c] = "claiming" /\ Hold(c, Won(c))
      BY <1>3 DEF ClaimBatch
    <2>2. /\ phase'[c] # "claiming" /\ batch'[c] = Won(c)
          /\ \A u \in Won(c) : u \in Updates /\ seen'[c][u] = seen[c][u]
      BY <1>0, <2>1 DEF Hold, TypeOK
    <2>3. \A u \in Won(c) : execs[u] = seen[c][u] /\ execs[u] = attempts[u]
                              /\ attempts[u] < MAX_ATTEMPTS /\ execs[u] \in Nat
      BY <1>0, <2>1, <2>2 DEF ExecutionsCounted, AttemptsCount, TypeOK
    <2> HIDE DEF Won
    <2>4. ExecutionsBounded'
      BY <1>0, <2>1, <2>3 DEF ExecutionsBounded, TypeOK
    <2>5. \A u \in Updates : status'[u] \in {"absent", "pending"} => execs'[u] = attempts'[u]
      BY <1>0, <2>1 DEF ExecutionsCounted
    <2>6. \A d \in Consumers : d = c
      BY DEF OneConsumer
    <2>7. \A u \in batch'[c] : execs'[u] = seen'[c][u] + 1
      BY <2>1, <2>2, <2>3
    <2> QED
      BY <2>2, <2>4, <2>5, <2>6, <2>7 DEF ExecutionsCounted
  <1>4. ASSUME NEW c \in Consumers, ClaimAnswerLost(c)
        PROVE  ExecutionsCounted' /\ ExecutionsBounded'
    <2>1. /\ SetProcessing(Won(c)) /\ attempts' = attempts /\ execs' = execs
          /\ Hold(c, {}) \/ UNCHANGED <<phase, batch, seen>>
      BY <1>4 DEF ClaimAnswerLost
    <2>2. \A u \in Updates : status'[u] \in {"absent", "pending"} => status'[u] = status[u]
      BY <2>1 DEF SetProcessing
    <2>3. CASE Hold(c, {})
      BY <1>0, <2>1, <2>2, <2>3 DEF Hold, TypeOK, ExecutionsCounted, ExecutionsBounded, OneConsumer
    <2>4. CASE UNCHANGED <<phase, batch, seen>>
      BY <1>0, <2>1, <2>2, <2>4 DEF TypeOK, ExecutionsCounted, ExecutionsBounded
    <2> QED
      BY <2>1, <2>3, <2>4
  <1>5. ASSUME NEW c \in Consumers, ClaimFails(c) \/ Crash(c)
        PROVE  ExecutionsCounted' /\ ExecutionsBounded'
    BY <1>0, <1>5
    DEF ClaimFails, Crash, Hold, TypeOK, ExecutionsCounted, ExecutionsBounded, OneConsumer
  <1>6. ASSUME NEW c \in Consumers, NEW u \in Updates, phase[c] = "running", u \in batch[c],
               Hold(c, batch[c] \ {u}) \/ UNCHANGED <<phase, batch, seen>>, execs' = execs,
               \/ WriteFailure(c, u)
               \/ status' = [status EXCEPT ![u] = "done"] /\ attempts' = attempts
               \/ UNCHANGED <<status, attempts>>
        PROVE  ExecutionsCounted' /\ ExecutionsBounded'
    <2>1. /\ phase'[c] # "claiming" /\ batch'[c] \subseteq batch[c]
          /\ \A v \in batch'[c] : seen'[c][v] = seen[c][v]
      <3>1. CASE Hold(c, batch[c] \ {u})
        BY <1>0, <3>1 DEF Hold, TypeOK
      <3>2. CASE UNCHANGED <<phase, batch, seen>>
        BY <1>0, <1>6, <3>2 DEF TypeOK
      <3> QED
        BY <1>6, <3>1, <3>2
    <2>2. \A d \in Consumers : d = c
      BY DEF OneConsumer
    <2>3. execs[u] = seen[c][u] + 1
      BY <1>0, <1>6 DEF ExecutionsCounted
    <2>4. \A v \in Updates : status'[v] \in {"absent", "pending"} => execs'[v] = attempts'[v]
      BY <1>0, <1>6, <2>3 DEF WriteFailure, ExecutionsCounted, TypeOK
    <2>5. \A v \in batch'[c] : phase'[c] = "running" => execs'[v] = seen'[c][v] + 1
      BY <1>0, <1>6, <2>1 DEF ExecutionsCounted
    <2> QED
      BY <1>0, <1>6, <2>1, <2>2, <2>4, <2>5 DEF ExecutionsCounted, ExecutionsBounded
  <1>7. ASSUME NEW c \in Consumers, NEW u \in Updates,
               MarkDone(c, u) \/ MarkFailed(c, u) \/ MarkLost(c, u)
                 \/ MarkFailedAnswerLost(c, u) \/ ReplayMarkFailed(c, u)
        PROVE  ExecutionsCounted' /\ ExecutionsBounded'
    <2>1. phase[c] = "running" /\ u \in batch[c]
      BY <1>0, <1>7 DEF MarkDone, MarkFailed, MarkLost, MarkFailedAnswerLost, ReplayMarkFailed,
                        MayStep, ReplaysRun
    <2> QED
      BY <1>6, <1>7, <2>1 DEF MarkDone, MarkFailed, MarkLost, MarkFailedAnswerLost,
                              ReplayMarkFailed, DoneStatus
  <1>8. ASSUME UNCHANGED vars
        PROVE  ExecutionsCounted' /\ ExecutionsBounded'
    <2>1. UNCHANGED <<status, attempts, execs, phase, batch, seen>>
      BY <1>8 DEF vars
    <2> QED
      BY <1>0, <2>1 DEF ExecutionsCounted, ExecutionsBounded
  <1>9. ASSUME NEW c \in Consumers,
               Claiming(c) \/ Fault(c) \/ \E u \in Updates : TaskEnds(c, u)
        PROVE  ExecutionsCounted' /\ ExecutionsBounded'
    <2>1. CASE Claiming(c)
      BY <1>2, <1>3, <2>1 DEF Claiming
    <2>2. CASE Fault(c)
      BY <1>4, <1>5, <1>7, <2>2 DEF Fault
    <2>3. CASE \E u \in Updates : TaskEnds(c, u)
      BY <1>7, <2>3 DEF TaskEnds
    <2> QED
      BY <1>9, <2>1, <2>2, <2>3
  <1>10. Next \/ UNCHANGED vars
    OBVIOUS
  <1> QED
    BY <1>0, <1>1, <1>8, <1>9, <1>10 DEF EInv, Next

(***************************************************************************)
(* One consumer never executes an update more than MAX_ATTEMPTS times,     *)
(* whatever crashes, is lost or is replayed.                               *)
(***************************************************************************)
THEOREM ExecutionsBoundedAlways ==
  ASSUME OneConsumer
  PROVE  Spec => []ExecutionsBounded
  <1>1. EInv /\ [Next]_vars => EInv'
    BY NextEInv
  <1>2. EInv => ExecutionsBounded
    BY DEF EInv
  <1> QED
    BY <1>1, <1>2, InitEInv, PTL DEF Spec
=============================================================================
