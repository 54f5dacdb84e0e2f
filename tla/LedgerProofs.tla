---------------------------- MODULE LedgerProofs ----------------------------
(***************************************************************************)
(* What holds of the ledger for any users, payments, requests, processes   *)
(* and faults; and that in one process it implements LedgerAbs.            *)
(***************************************************************************)
EXTENDS Ledger, FiniteSetTheorems, TLAPS

\* A wallet loop looks at the balance of its payment's user, so it asks for
\* one only for a payment that names a user; and it marks a payment of a user
\* only after crediting it.
AtTx(p) ==
  /\ pc[p] \in {"pricing", "select", "create", "got"} => Payer[tx[p]] # Nobody
  /\ pc[p] = "mark" /\ Payer[tx[p]] # Nobody => credits[tx[p]] > 0

\* Requests neither price nor mark.
OwnSteps(r) == pc[r] \notin {"pricing", "mark"}

Inv == /\ TypeOK
       /\ \A p \in Processes : AtTx(p)
       /\ \A r \in Requests : OwnSteps(r)
       /\ NoPaymentLost

\* The database, the chain and the process start in the invariant.
LEMMA InitInv == Init => Inv
  <1> SUFFICES ASSUME Init PROVE Inv
    OBVIOUS
  <1> USE ConstantsAssumption
  <1>1. TypeOK
    BY DEF Init, TypeOK, Steps, Purposes, Tasks
  <1>2. \A p \in Processes : AtTx(p)
    BY DEF Init, AtTx, Tasks
  <1>3. \A r \in Requests : OwnSteps(r)
    BY DEF Init, OwnSteps, Tasks
  <1>4. NoPaymentLost
    BY DEF Init, NoPaymentLost
  <1> QED
    BY <1>1, <1>2, <1>3, <1>4 DEF Inv

\* The user whose balance a task asks for has a balance.
LEMMA UserOfType ==
  ASSUME Inv, NEW k \in Tasks, pc[k] \in {"select", "create", "got"}
  PROVE  UserOf(k) \in Users
  BY ConstantsAssumption DEF Inv, TypeOK, AtTx, UserOf, Tasks

\* The payments on the chain, and the ones a poll sees, are payments.
LEMMA ArrivedType == Cardinality(Arrived) \in Nat
  <1>1. Arrived \subseteq Txs
    BY DEF Arrived
  <1> QED
    BY <1>1, ConstantsAssumption, FS_Subset, FS_CardinalityType

\* The window of the last transactions holds transactions.
LEMMA RecentType == Recent \in SUBSET Txs
  BY DEF Recent, Arrived

\* Every step of a request, of the wallet loop and every fault preserves the invariant.
LEMMA NextInv == Inv /\ [Next]_vars => Inv'
  <1> SUFFICES ASSUME Inv, [Next]_vars PROVE Inv'
    OBVIOUS
  <1> USE ConstantsAssumption DEF Inv, Tasks, Goto, table, control, request, wallet, history
  <1>1. ASSUME NEW k \in Tasks, BalanceFound(k)
        PROVE  Inv'
    <2> USE <1>1 DEF BalanceFound, Answer
    <2>1. TypeOK'
      BY UserOfType DEF TypeOK, Steps, Purposes
    <2>2. (\A p0 \in Processes : AtTx(p0))' /\ (\A r0 \in Requests : OwnSteps(r0))'
      BY DEF TypeOK, AtTx, OwnSteps
    <2>3. NoPaymentLost'
      BY DEF TypeOK, AtTx, OwnSteps, NoPaymentLost
    <2> QED
      BY <2>1, <2>2, <2>3
  <1>2. ASSUME NEW k \in Tasks, BalanceMissing(k)
        PROVE  Inv'
    <2> USE <1>2 DEF BalanceMissing
    <2>1. TypeOK'
      BY UserOfType DEF TypeOK, Steps, Purposes
    <2>2. (\A p0 \in Processes : AtTx(p0))' /\ (\A r0 \in Requests : OwnSteps(r0))'
      BY DEF TypeOK, AtTx, OwnSteps
    <2>3. NoPaymentLost'
      BY DEF TypeOK, AtTx, OwnSteps, NoPaymentLost
    <2> QED
      BY <2>1, <2>2, <2>3
  <1>3. ASSUME NEW k \in Tasks, DefaultCreated(k)
        PROVE  Inv'
    <2> USE <1>3 DEF DefaultCreated, Answer
    <2>1. TypeOK'
      BY UserOfType DEF TypeOK, Steps, Purposes
    <2>2. (\A p0 \in Processes : AtTx(p0))' /\ (\A r0 \in Requests : OwnSteps(r0))'
      BY DEF TypeOK, AtTx, OwnSteps
    <2>3. NoPaymentLost'
      BY DEF TypeOK, AtTx, OwnSteps, NoPaymentLost
    <2> QED
      BY <2>1, <2>2, <2>3
  <1>4. ASSUME NEW r \in Requests, StartRequest(r)
        PROVE  Inv'
    <2> USE <1>4 DEF StartRequest, GetBalance
    <2>1. TypeOK'
      BY UserOfType DEF TypeOK, Steps, Purposes
    <2>2. (\A p0 \in Processes : AtTx(p0))' /\ (\A r0 \in Requests : OwnSteps(r0))'
      BY DEF TypeOK, AtTx, OwnSteps
    <2>3. NoPaymentLost'
      BY DEF TypeOK, AtTx, OwnSteps, NoPaymentLost
    <2> QED
      BY <2>1, <2>2, <2>3
  <1>5. ASSUME NEW r \in Requests, Admit(r)
        PROVE  Inv'
    <2> USE <1>5 DEF Admit, GetBalance
    <2>1. TypeOK'
      BY UserOfType DEF TypeOK, Steps, Purposes
    <2>2. (\A p0 \in Processes : AtTx(p0))' /\ (\A r0 \in Requests : OwnSteps(r0))'
      BY DEF TypeOK, AtTx, OwnSteps
    <2>3. NoPaymentLost'
      BY DEF TypeOK, AtTx, OwnSteps, NoPaymentLost
    <2> QED
      BY <2>1, <2>2, <2>3
  <1>6. ASSUME NEW r \in Requests, Served(r)
        PROVE  Inv'
    <2> USE <1>6 DEF Served, GetBalance
    <2>1. TypeOK'
      BY UserOfType DEF TypeOK, Steps, Purposes
    <2>2. (\A p0 \in Processes : AtTx(p0))' /\ (\A r0 \in Requests : OwnSteps(r0))'
      BY DEF TypeOK, AtTx, OwnSteps
    <2>3. NoPaymentLost'
      BY DEF TypeOK, AtTx, OwnSteps, NoPaymentLost
    <2> QED
      BY <2>1, <2>2, <2>3
  <1>7. ASSUME NEW r \in Requests, ServeCrashed(r)
        PROVE  Inv'
    <2> USE <1>7 DEF ServeCrashed
    <2>1. TypeOK'
      BY UserOfType DEF TypeOK, Steps, Purposes
    <2>2. (\A p0 \in Processes : AtTx(p0))' /\ (\A r0 \in Requests : OwnSteps(r0))'
      BY DEF TypeOK, AtTx, OwnSteps
    <2>3. NoPaymentLost'
      BY DEF TypeOK, AtTx, OwnSteps, NoPaymentLost
    <2> QED
      BY <2>1, <2>2, <2>3
  <1>8. ASSUME NEW r \in Requests, DeductRefused(r)
        PROVE  Inv'
    <2> USE <1>8 DEF DeductRefused, GetBalance, Charging
    <2>1. TypeOK'
      BY UserOfType DEF TypeOK, Steps, Purposes
    <2>2. (\A p0 \in Processes : AtTx(p0))' /\ (\A r0 \in Requests : OwnSteps(r0))'
      BY DEF TypeOK, AtTx, OwnSteps
    <2>3. NoPaymentLost'
      BY DEF TypeOK, AtTx, OwnSteps, NoPaymentLost
    <2> QED
      BY <2>1, <2>2, <2>3
  <1>9. ASSUME NEW r \in Requests, Deduct(r)
        PROVE  Inv'
    <2> USE <1>9 DEF Deduct, GetBalance, Charging, WriteDeduction, ChargeBase, TooSmall, InFlight
    <2>1. TypeOK'
      BY UserOfType DEF TypeOK, Steps, Purposes
    <2>2. (\A p0 \in Processes : AtTx(p0))' /\ (\A r0 \in Requests : OwnSteps(r0))'
      BY DEF TypeOK, AtTx, OwnSteps
    <2>3. NoPaymentLost'
      BY DEF TypeOK, AtTx, OwnSteps, NoPaymentLost
    <2> QED
      BY <2>1, <2>2, <2>3
  <1>10. ASSUME NEW r \in Requests, Reply(r)
        PROVE  Inv'
    <2> USE <1>10 DEF Reply
    <2>1. TypeOK'
      BY UserOfType DEF TypeOK, Steps, Purposes
    <2>2. (\A p0 \in Processes : AtTx(p0))' /\ (\A r0 \in Requests : OwnSteps(r0))'
      BY DEF TypeOK, AtTx, OwnSteps
    <2>3. NoPaymentLost'
      BY DEF TypeOK, AtTx, OwnSteps, NoPaymentLost
    <2> QED
      BY <2>1, <2>2, <2>3
  <1>11. ASSUME NEW p \in Processes, Poll(p)
        PROVE  Inv'
    <2> USE <1>11 DEF Poll
    <2>1. TypeOK'
      <3>1. todo' \in [Processes -> SUBSET Txs]
        BY RecentType DEF TypeOK
      <3> QED
        BY <3>1, UserOfType DEF TypeOK, Steps, Purposes
    <2>2. (\A p0 \in Processes : AtTx(p0))' /\ (\A r0 \in Requests : OwnSteps(r0))'
      BY DEF TypeOK, AtTx, OwnSteps
    <2>3. NoPaymentLost'
      BY DEF TypeOK, AtTx, OwnSteps, NoPaymentLost
    <2> QED
      BY <2>1, <2>2, <2>3
  <1>12. ASSUME NEW p \in Processes, Priced(p)
        PROVE  Inv'
    <2> USE <1>12 DEF Priced, GetBalance, NextPayment
    <2>1. TypeOK'
      <3>1. todo' \in [Processes -> SUBSET Txs]
        BY DEF TypeOK
      <3> QED
        BY <3>1, UserOfType DEF TypeOK, Steps, Purposes
    <2>2. (\A p0 \in Processes : AtTx(p0))' /\ (\A r0 \in Requests : OwnSteps(r0))'
      BY DEF TypeOK, AtTx, OwnSteps
    <2>3. NoPaymentLost'
      BY DEF TypeOK, AtTx, OwnSteps, NoPaymentLost
    <2> QED
      BY <2>1, <2>2, <2>3
  <1>13. ASSUME NEW p \in Processes, Credit(p)
        PROVE  Inv'
    <2> USE <1>13 DEF Credit, Crediting, WriteCredit
    <2>1. TypeOK'
      BY UserOfType DEF TypeOK, Steps, Purposes
    <2>2. (\A p0 \in Processes : AtTx(p0))' /\ (\A r0 \in Requests : OwnSteps(r0))'
      BY DEF TypeOK, AtTx, OwnSteps
    <2>3. NoPaymentLost'
      BY DEF TypeOK, AtTx, OwnSteps, NoPaymentLost
    <2> QED
      BY <2>1, <2>2, <2>3
  <1>14. ASSUME NEW p \in Processes, MarkProcessed(p)
        PROVE  Inv'
    <2> USE <1>14 DEF MarkProcessed, GetBalance, NextPayment, AfterMark
    <2>1. TypeOK'
      <3>1. todo' \in [Processes -> SUBSET Txs]
        <4>1. todo' = todo \/ todo' = [todo EXCEPT ![p] = @ \ {tx[p]}]
          OBVIOUS
        <4> QED
          BY <4>1 DEF TypeOK
      <3>2. pc' \in [Tasks -> Steps] /\ purpose' \in [Tasks -> Purposes]
        <4>1. \/ purpose' = purpose /\ pc' = [pc EXCEPT ![p] = "idle"]
              \/ /\ purpose' = [purpose EXCEPT ![p] = "notify"]
                 /\ pc' = [pc EXCEPT ![p] = "select"]
          OBVIOUS
        <4> QED
          BY <4>1 DEF TypeOK, Steps, Purposes
      <3>3. processed' \subseteq Txs
        BY DEF TypeOK
      <3> QED
        BY <3>1, <3>2, <3>3 DEF TypeOK
    <2>2. (\A p0 \in Processes : AtTx(p0))' /\ (\A r0 \in Requests : OwnSteps(r0))'
      BY DEF TypeOK, AtTx, OwnSteps
    <2>3. NoPaymentLost'
      BY DEF TypeOK, AtTx, OwnSteps, NoPaymentLost
    <2> QED
      BY <2>1, <2>2, <2>3
  <1>15. ASSUME NEW p \in Processes, Notify(p)
        PROVE  Inv'
    <2> USE <1>15 DEF Notify, NextPayment
    <2>1. TypeOK'
      BY UserOfType DEF TypeOK, Steps, Purposes
    <2>2. (\A p0 \in Processes : AtTx(p0))' /\ (\A r0 \in Requests : OwnSteps(r0))'
      BY DEF TypeOK, AtTx, OwnSteps
    <2>3. NoPaymentLost'
      BY DEF TypeOK, AtTx, OwnSteps, NoPaymentLost
    <2> QED
      BY <2>1, <2>2, <2>3
  <1>16. ASSUME NEW p \in Processes, NEW t \in Txs, SkipProcessed(p, t)
        PROVE  Inv'
    <2> USE <1>16 DEF SkipProcessed, NextPayment, AtPayment
    <2>1. TypeOK'
      BY UserOfType DEF TypeOK, Steps, Purposes
    <2>2. (\A p0 \in Processes : AtTx(p0))' /\ (\A r0 \in Requests : OwnSteps(r0))'
      BY DEF TypeOK, AtTx, OwnSteps
    <2>3. NoPaymentLost'
      BY DEF TypeOK, AtTx, OwnSteps, NoPaymentLost
    <2> QED
      BY <2>1, <2>2, <2>3
  <1>17. ASSUME NEW p \in Processes, NEW t \in Txs, TakePayment(p, t)
        PROVE  Inv'
    <2> USE <1>17 DEF TakePayment, AtPayment
    <2>1. TypeOK'
      BY UserOfType DEF TypeOK, Steps, Purposes
    <2>2. (\A p0 \in Processes : AtTx(p0))' /\ (\A r0 \in Requests : OwnSteps(r0))'
      BY DEF TypeOK, AtTx, OwnSteps
    <2>3. NoPaymentLost'
      BY DEF TypeOK, AtTx, OwnSteps, NoPaymentLost
    <2> QED
      BY <2>1, <2>2, <2>3
  <1>18. ASSUME NEW t \in Txs, PaymentArrives(t)
        PROVE  Inv'
    <2> USE <1>18 DEF PaymentArrives
    <2>1. TypeOK'
      <3>1. height' \in [Txs -> Nat]
        BY ArrivedType DEF TypeOK
      <3> QED
        BY <3>1, UserOfType DEF TypeOK, Steps, Purposes
    <2>2. (\A p0 \in Processes : AtTx(p0))' /\ (\A r0 \in Requests : OwnSteps(r0))'
      BY DEF TypeOK, AtTx, OwnSteps
    <2>3. NoPaymentLost'
      BY DEF TypeOK, AtTx, OwnSteps, NoPaymentLost
    <2> QED
      BY <2>1, <2>2, <2>3
  <1>19. ASSUME NEW k \in Tasks, BalanceUnread(k)
        PROVE  Inv'
    <2> USE <1>19 DEF BalanceUnread, Answer, FaultHappens
    <2>1. TypeOK'
      BY UserOfType DEF TypeOK, Steps, Purposes
    <2>2. (\A p0 \in Processes : AtTx(p0))' /\ (\A r0 \in Requests : OwnSteps(r0))'
      BY DEF TypeOK, AtTx, OwnSteps
    <2>3. NoPaymentLost'
      BY DEF TypeOK, AtTx, OwnSteps, NoPaymentLost
    <2> QED
      BY <2>1, <2>2, <2>3
  <1>20. ASSUME NEW k \in Tasks, DefaultNotCreated(k)
        PROVE  Inv'
    <2> USE <1>20 DEF DefaultNotCreated, Answer, FaultHappens
    <2>1. TypeOK'
      BY UserOfType DEF TypeOK, Steps, Purposes
    <2>2. (\A p0 \in Processes : AtTx(p0))' /\ (\A r0 \in Requests : OwnSteps(r0))'
      BY DEF TypeOK, AtTx, OwnSteps
    <2>3. NoPaymentLost'
      BY DEF TypeOK, AtTx, OwnSteps, NoPaymentLost
    <2> QED
      BY <2>1, <2>2, <2>3
  <1>21. ASSUME NEW r \in Requests, DeductFails(r)
        PROVE  Inv'
    <2> USE <1>21 DEF DeductFails, GetBalance, Charging, WriteDeduction, ChargeBase, TooSmall, InFlight, FaultHappens
    <2>1. TypeOK'
      BY UserOfType DEF TypeOK, Steps, Purposes
    <2>2. (\A p0 \in Processes : AtTx(p0))' /\ (\A r0 \in Requests : OwnSteps(r0))'
      BY DEF TypeOK, AtTx, OwnSteps
    <2>3. NoPaymentLost'
      BY DEF TypeOK, AtTx, OwnSteps, NoPaymentLost
    <2> QED
      BY <2>1, <2>2, <2>3
  <1>22. ASSUME NEW p \in Processes, CreditFails(p)
        PROVE  Inv'
    <2> USE <1>22 DEF CreditFails, Crediting, WriteCredit, Unmarked, FaultHappens
    <2>1. TypeOK'
      <3>1. todo' \in [Processes -> SUBSET Txs]
        BY DEF TypeOK
      <3>2. UserOf(p) \in Users /\ got[p] + Usd[tx[p]] \in Nat
        BY UserOfType DEF TypeOK
      <3>3. /\ rows' \subseteq Users
            /\ balance' \in [Users -> Nat]
            /\ earned' \in [Users -> Nat]
            /\ credits' \in [Txs -> Nat]
        <4>1. CASE WriteCredit(p)
          BY <3>2, <4>1 DEF TypeOK
        <4>2. CASE UNCHANGED <<rows, balance, earned, credits>>
          BY <4>2 DEF TypeOK
        <4> QED
          BY <4>1, <4>2
      <3> QED
        BY <3>1, <3>3 DEF TypeOK, Steps
    <2>2. (\A p0 \in Processes : AtTx(p0))' /\ (\A r0 \in Requests : OwnSteps(r0))'
      BY DEF TypeOK, AtTx, OwnSteps
    <2>3. NoPaymentLost'
      BY DEF TypeOK, AtTx, OwnSteps, NoPaymentLost
    <2> QED
      BY <2>1, <2>2, <2>3
  <1>23. ASSUME NEW p \in Processes, MarkFails(p)
        PROVE  Inv'
    <2> USE <1>23 DEF MarkFails, GetBalance, NextPayment, AfterMark, FaultHappens
    <2>1. TypeOK'
      <3>1. todo' \in [Processes -> SUBSET Txs]
        <4>1. todo' = todo \/ todo' = [todo EXCEPT ![p] = @ \ {tx[p]}]
          OBVIOUS
        <4> QED
          BY <4>1 DEF TypeOK
      <3>2. pc' \in [Tasks -> Steps] /\ purpose' \in [Tasks -> Purposes]
        <4>1. \/ purpose' = purpose /\ pc' = [pc EXCEPT ![p] = "idle"]
              \/ /\ purpose' = [purpose EXCEPT ![p] = "notify"]
                 /\ pc' = [pc EXCEPT ![p] = "select"]
          OBVIOUS
        <4> QED
          BY <4>1 DEF TypeOK, Steps, Purposes
      <3>3. processed' \subseteq Txs
        BY DEF TypeOK
      <3> QED
        BY <3>1, <3>2, <3>3 DEF TypeOK
    <2>2. (\A p0 \in Processes : AtTx(p0))' /\ (\A r0 \in Requests : OwnSteps(r0))'
      BY DEF TypeOK, AtTx, OwnSteps
    <2>3. NoPaymentLost'
      BY DEF TypeOK, AtTx, OwnSteps, NoPaymentLost
    <2> QED
      BY <2>1, <2>2, <2>3
  <1>24. ASSUME NEW p \in Processes, Crash(p)
        PROVE  Inv'
    <2> USE <1>24 DEF Crash, FaultHappens
    <2>1. TypeOK'
      BY UserOfType DEF TypeOK, Steps, Purposes
    <2>2. (\A p0 \in Processes : AtTx(p0))' /\ (\A r0 \in Requests : OwnSteps(r0))'
      BY DEF TypeOK, AtTx, OwnSteps
    <2>3. NoPaymentLost'
      BY DEF TypeOK, AtTx, OwnSteps, NoPaymentLost
    <2> QED
      BY <2>1, <2>2, <2>3
  <1>25. CASE UNCHANGED vars
    BY <1>25 DEF vars, TypeOK, AtTx, OwnSteps, NoPaymentLost
  <1> QED
    BY <1>1, <1>2, <1>3, <1>4, <1>5, <1>6, <1>7, <1>8, <1>9, <1>10, <1>11, <1>12, <1>13, <1>14, <1>15, <1>16, <1>17, <1>18, <1>19, <1>20, <1>21, <1>22, <1>23, <1>24, <1>25
    DEF Next, Fault, GetBalanceStep, RequestStep, WalletStep

\* The invariant holds in every reachable state.
THEOREM InvAlways == Spec => []Inv
  BY InitInv, NextInv, PTL DEF Spec

(***************************************************************************)
(* The ledger is typed in every state, for any number of processes and     *)
(* faults: above all no charge ever makes a balance negative, since a      *)
(* deduction writes the difference of a balance it read and a cost it      *)
(* compared with this very balance.                                        *)
(***************************************************************************)
THEOREM TypeCorrect == Spec => []TypeOK
  <1>1. Inv => TypeOK
    BY DEF Inv
  <1> QED
    BY <1>1, InvAlways, PTL

(***************************************************************************)
(* No payment of a known user is marked processed before it is credited,   *)
(* for any number of processes, payments, crashes and failed writes.       *)
(***************************************************************************)
THEOREM NoPaymentLostAlways == Spec => []NoPaymentLost
  <1>1. Inv => NoPaymentLost
    BY DEF Inv
  <1> QED
    BY <1>1, InvAlways, PTL
-----------------------------------------------------------------------------
(***************************************************************************)
(* Conservation holds in one process because a task that has read a        *)
(* balance blocks its process until it has written: at most one task is    *)
(* between a read and a write, so what it read is what is there.           *)
(***************************************************************************)
OneProcess == \A p, q \in Processes : p = q

OneBlocks ==
  \A j, k \in Tasks : pc[j] \in Blocking /\ pc[k] \in Blocking => j = k

\* What the task that blocks the process knows of its user's row.
Knows(k) ==
  /\ pc[k] = "create" => UserOf(k) \notin rows
  /\ pc[k] = "got" /\ UserOf(k) \notin blind =>
       got[k] = IF UserOf(k) \in rows THEN balance[UserOf(k)] ELSE DEFAULT

\* Without a row nothing was ever credited or deducted.
NoRowNoMoney == \A u \in Users \ rows : earned[u] = 0 /\ spent[u] = 0

CInv == /\ Inv
        /\ OneBlocks
        /\ \A k \in Tasks : Knows(k)
        /\ NoRowNoMoney
        /\ Conservation

\* The accounting invariant holds of the default balances and an empty history.
LEMMA InitCInv == Init => CInv
  <1> SUFFICES ASSUME Init PROVE CInv
    OBVIOUS
  <1>1. Inv
    BY InitInv
  <1>2. OneBlocks /\ \A k \in Tasks : Knows(k)
    BY DEF Init, OneBlocks, Knows, Blocking
  <1>3. NoRowNoMoney /\ Conservation
    BY DEF Init, NoRowNoMoney, Conservation
  <1> QED
    BY <1>1, <1>2, <1>3 DEF CInv

\* Where no task of one's process blocks it, none blocks at all.
LEMMA FreeMeansNoneBlocks ==
  ASSUME OneProcess, TypeOK, NEW k \in Tasks, LoopFree(k)
  PROVE  \A j \in Tasks : pc[j] \notin Blocking
  BY DEF OneProcess, TypeOK, LoopFree, ProcessOf, Tasks

\* A task that blocks the process goes on, blocking or not.
LEMMA BlockerGoesOn ==
  ASSUME TypeOK, OneBlocks, NEW k \in Tasks, pc[k] \in Blocking,
         NEW step \in Steps, pc' = [pc EXCEPT ![k] = step]
  PROVE  OneBlocks'
  BY DEF TypeOK, OneBlocks

\* With one process, every step preserves the accounting invariant.
LEMMA NextCInv ==
  ASSUME OneProcess, CInv, [Next]_vars
  PROVE  CInv'
  <1> USE ConstantsAssumption DEF Tasks, Goto, table, control, request, wallet, history
  <1>0. Inv' /\ Inv /\ TypeOK
    BY NextInv DEF CInv, Inv
  <1>1. ASSUME NEW k \in Tasks, BalanceFound(k)
        PROVE  CInv'
    <2> USE <1>0, <1>1 DEF CInv, BalanceFound, Answer
    <2>1. OneBlocks'
      BY FreeMeansNoneBlocks DEF TypeOK, OneBlocks, Blocking
    <2>2. (\A k0 \in Tasks : Knows(k0))'
      BY UserOfType DEF TypeOK, OneBlocks, Blocking, Knows, UserOf
    <2>3. NoRowNoMoney' /\ Conservation'
      BY UserOfType DEF TypeOK, Knows, UserOf, NoRowNoMoney, Conservation
    <2> QED
      BY <2>1, <2>2, <2>3
  <1>2. ASSUME NEW k \in Tasks, BalanceMissing(k)
        PROVE  CInv'
    <2> USE <1>0, <1>2 DEF CInv, BalanceMissing
    <2>1. OneBlocks'
      BY FreeMeansNoneBlocks DEF TypeOK, OneBlocks, Blocking
    <2>2. (\A k0 \in Tasks : Knows(k0))'
      BY UserOfType DEF TypeOK, OneBlocks, Blocking, Knows, UserOf
    <2>3. NoRowNoMoney' /\ Conservation'
      BY UserOfType DEF TypeOK, Knows, UserOf, NoRowNoMoney, Conservation
    <2> QED
      BY <2>1, <2>2, <2>3
  <1>3. ASSUME NEW k \in Tasks, DefaultCreated(k)
        PROVE  CInv'
    <2> USE <1>0, <1>3 DEF CInv, DefaultCreated, Answer
    <2>1. OneBlocks'
      BY FreeMeansNoneBlocks DEF TypeOK, OneBlocks, Blocking
    <2>2. (\A k0 \in Tasks : Knows(k0))'
      BY UserOfType DEF TypeOK, OneBlocks, Blocking, Knows, UserOf
    <2>3. NoRowNoMoney' /\ Conservation'
      BY UserOfType DEF TypeOK, Knows, UserOf, NoRowNoMoney, Conservation
    <2> QED
      BY <2>1, <2>2, <2>3
  <1>4. ASSUME NEW r \in Requests, StartRequest(r)
        PROVE  CInv'
    <2> USE <1>0, <1>4 DEF CInv, StartRequest, GetBalance
    <2>1. OneBlocks'
      BY FreeMeansNoneBlocks DEF TypeOK, OneBlocks, Blocking
    <2>2. (\A k0 \in Tasks : Knows(k0))'
      BY UserOfType DEF TypeOK, OneBlocks, Blocking, Knows, UserOf
    <2>3. NoRowNoMoney' /\ Conservation'
      BY UserOfType DEF TypeOK, Knows, UserOf, NoRowNoMoney, Conservation
    <2> QED
      BY <2>1, <2>2, <2>3
  <1>5. ASSUME NEW r \in Requests, Admit(r)
        PROVE  CInv'
    <2> USE <1>0, <1>5 DEF CInv, Admit, GetBalance
    <2>1. OneBlocks'
      <3>1. PICK step \in {"select", "awaiting"} : pc' = [pc EXCEPT ![r] = step]
        OBVIOUS
      <3> QED
        BY <3>1, BlockerGoesOn DEF Blocking, Steps
    <2>2. (\A k0 \in Tasks : Knows(k0))'
      BY UserOfType DEF TypeOK, OneBlocks, Blocking, Knows, UserOf
    <2>3. NoRowNoMoney' /\ Conservation'
      BY UserOfType DEF TypeOK, Knows, UserOf, NoRowNoMoney, Conservation
    <2> QED
      BY <2>1, <2>2, <2>3
  <1>6. ASSUME NEW r \in Requests, Served(r)
        PROVE  CInv'
    <2> USE <1>0, <1>6 DEF CInv, Served, GetBalance
    <2>1. OneBlocks'
      BY FreeMeansNoneBlocks DEF TypeOK, OneBlocks, Blocking
    <2>2. (\A k0 \in Tasks : Knows(k0))'
      BY UserOfType DEF TypeOK, OneBlocks, Blocking, Knows, UserOf
    <2>3. NoRowNoMoney' /\ Conservation'
      BY UserOfType DEF TypeOK, Knows, UserOf, NoRowNoMoney, Conservation
    <2> QED
      BY <2>1, <2>2, <2>3
  <1>7. ASSUME NEW r \in Requests, ServeCrashed(r)
        PROVE  CInv'
    <2> USE <1>0, <1>7 DEF CInv, ServeCrashed
    <2>1. OneBlocks'
      BY FreeMeansNoneBlocks DEF TypeOK, OneBlocks, Blocking
    <2>2. (\A k0 \in Tasks : Knows(k0))'
      BY UserOfType DEF TypeOK, OneBlocks, Blocking, Knows, UserOf
    <2>3. NoRowNoMoney' /\ Conservation'
      BY UserOfType DEF TypeOK, Knows, UserOf, NoRowNoMoney, Conservation
    <2> QED
      BY <2>1, <2>2, <2>3
  <1>8. ASSUME NEW r \in Requests, DeductRefused(r)
        PROVE  CInv'
    <2> USE <1>0, <1>8 DEF CInv, DeductRefused, GetBalance, Charging
    <2>1. OneBlocks'
      BY FreeMeansNoneBlocks DEF TypeOK, OneBlocks, Blocking
    <2>2. (\A k0 \in Tasks : Knows(k0))'
      BY UserOfType DEF TypeOK, OneBlocks, Blocking, Knows, UserOf
    <2>3. NoRowNoMoney' /\ Conservation'
      BY UserOfType DEF TypeOK, Knows, UserOf, NoRowNoMoney, Conservation
    <2> QED
      BY <2>1, <2>2, <2>3
  <1>9. ASSUME NEW r \in Requests, Deduct(r)
        PROVE  CInv'
    <2> USE <1>0, <1>9 DEF CInv, Deduct, GetBalance, Charging, WriteDeduction, ChargeBase, TooSmall
    <2>1. OneBlocks'
      BY FreeMeansNoneBlocks DEF TypeOK, OneBlocks, Blocking
    <2>2. (\A k0 \in Tasks : Knows(k0))'
      BY UserOfType DEF TypeOK, OneBlocks, Blocking, Knows, UserOf
    <2>3. NoRowNoMoney' /\ Conservation'
      <3>1. CASE Owner[r] \in rows /\ WriteDeduction(r)
        <4>1. /\ Owner[r] \in Users
              /\ balance' = [balance EXCEPT ![Owner[r]] = got[r] - cost[r]]
              /\ spent' = [spent EXCEPT ![Owner[r]] = @ + cost[r]]
              /\ UNCHANGED <<rows, earned, blind>>
          BY <3>1 DEF TypeOK
        <4>2. Owner[r] \notin blind => got[r] = balance[Owner[r]]
          BY <3>1 DEF Knows, UserOf
        <4>3. NoRowNoMoney'
          BY <3>1, <4>1 DEF TypeOK, NoRowNoMoney
        <4>4. Conservation'
          BY <3>1, <4>1, <4>2 DEF TypeOK, Conservation
        <4> QED
          BY <4>3, <4>4
      <3>2. CASE UNCHANGED <<rows, balance, spent, earned, blind>>
        BY <3>2 DEF TypeOK, NoRowNoMoney, Conservation
      <3> QED
        BY <3>1, <3>2
    <2> QED
      BY <2>1, <2>2, <2>3
  <1>10. ASSUME NEW r \in Requests, Reply(r)
        PROVE  CInv'
    <2> USE <1>0, <1>10 DEF CInv, Reply
    <2>1. OneBlocks'
      BY FreeMeansNoneBlocks DEF TypeOK, OneBlocks, Blocking
    <2>2. (\A k0 \in Tasks : Knows(k0))'
      BY UserOfType DEF TypeOK, OneBlocks, Blocking, Knows, UserOf
    <2>3. NoRowNoMoney' /\ Conservation'
      BY UserOfType DEF TypeOK, Knows, UserOf, NoRowNoMoney, Conservation
    <2> QED
      BY <2>1, <2>2, <2>3
  <1>11. ASSUME NEW p \in Processes, Poll(p)
        PROVE  CInv'
    <2> USE <1>0, <1>11 DEF CInv, Poll
    <2>1. OneBlocks'
      BY FreeMeansNoneBlocks DEF TypeOK, OneBlocks, Blocking
    <2>2. (\A k0 \in Tasks : Knows(k0))'
      BY UserOfType DEF TypeOK, OneBlocks, Blocking, Knows, UserOf
    <2>3. NoRowNoMoney' /\ Conservation'
      BY UserOfType DEF TypeOK, Knows, UserOf, NoRowNoMoney, Conservation
    <2> QED
      BY <2>1, <2>2, <2>3
  <1>12. ASSUME NEW p \in Processes, Priced(p)
        PROVE  CInv'
    <2> USE <1>0, <1>12 DEF CInv, Priced, GetBalance, NextPayment
    <2>1. OneBlocks'
      BY FreeMeansNoneBlocks DEF TypeOK, OneBlocks, Blocking
    <2>2. (\A k0 \in Tasks : Knows(k0))'
      BY UserOfType DEF TypeOK, OneBlocks, Blocking, Knows, UserOf
    <2>3. NoRowNoMoney' /\ Conservation'
      BY UserOfType DEF TypeOK, Knows, UserOf, NoRowNoMoney, Conservation
    <2> QED
      BY <2>1, <2>2, <2>3
  <1>13. ASSUME NEW p \in Processes, Credit(p)
        PROVE  CInv'
    <2> USE <1>0, <1>13 DEF CInv, Credit, Crediting, WriteCredit
    <2>1. OneBlocks'
      BY FreeMeansNoneBlocks DEF TypeOK, OneBlocks, Blocking
    <2>2. (\A k0 \in Tasks : Knows(k0))'
      BY UserOfType DEF TypeOK, OneBlocks, Blocking, Knows, UserOf
    <2>3. NoRowNoMoney' /\ Conservation'
      <3> DEFINE u == UserOf(p)
      <3> DEFINE usd == Usd[tx[p]]
      <3>1. /\ u \in Users /\ usd \in Nat
            /\ rows' = rows \cup {u}
            /\ balance' = [balance EXCEPT ![u] = got[p] + usd]
            /\ earned' = [earned EXCEPT ![u] = @ + usd]
            /\ UNCHANGED <<spent, blind>>
        BY UserOfType DEF TypeOK
      <3>2. u \notin blind => got[p] + spent[u] = DEFAULT + earned[u]
        BY <3>1 DEF Knows, NoRowNoMoney, Conservation, TypeOK
      <3> HIDE DEF u, usd
      <3>3. NoRowNoMoney'
        BY <3>1 DEF TypeOK, NoRowNoMoney
      <3>4. Conservation'
        BY <3>1, <3>2 DEF TypeOK, Conservation
      <3> QED
        BY <3>3, <3>4
    <2> QED
      BY <2>1, <2>2, <2>3
  <1>14. ASSUME NEW p \in Processes, MarkProcessed(p)
        PROVE  CInv'
    <2> USE <1>0, <1>14 DEF CInv, MarkProcessed, GetBalance, NextPayment, AfterMark
    <2>1. OneBlocks'
      <3>1. PICK step \in {"select", "idle"} : pc' = [pc EXCEPT ![p] = step]
        OBVIOUS
      <3> QED
        BY <3>1, BlockerGoesOn DEF Blocking, Steps
    <2>2. (\A k0 \in Tasks : Knows(k0))'
      <3>1. PICK step \in {"select", "idle"} : pc' = [pc EXCEPT ![p] = step]
        OBVIOUS
      <3>2. UNCHANGED <<rows, balance, got, tx>> /\ blind \subseteq blind'
        OBVIOUS
      <3> QED
        BY <3>1, <3>2 DEF TypeOK, Knows, UserOf
    <2>3. NoRowNoMoney' /\ Conservation'
      BY UserOfType DEF TypeOK, Knows, UserOf, NoRowNoMoney, Conservation
    <2> QED
      BY <2>1, <2>2, <2>3
  <1>15. ASSUME NEW p \in Processes, Notify(p)
        PROVE  CInv'
    <2> USE <1>0, <1>15 DEF CInv, Notify, NextPayment
    <2>1. OneBlocks'
      BY FreeMeansNoneBlocks DEF TypeOK, OneBlocks, Blocking
    <2>2. (\A k0 \in Tasks : Knows(k0))'
      BY UserOfType DEF TypeOK, OneBlocks, Blocking, Knows, UserOf
    <2>3. NoRowNoMoney' /\ Conservation'
      BY UserOfType DEF TypeOK, Knows, UserOf, NoRowNoMoney, Conservation
    <2> QED
      BY <2>1, <2>2, <2>3
  <1>16. ASSUME NEW p \in Processes, NEW t \in Txs, SkipProcessed(p, t)
        PROVE  CInv'
    <2> USE <1>0, <1>16 DEF CInv, SkipProcessed, NextPayment, AtPayment
    <2>1. OneBlocks'
      BY FreeMeansNoneBlocks DEF TypeOK, OneBlocks, Blocking
    <2>2. (\A k0 \in Tasks : Knows(k0))'
      BY UserOfType DEF TypeOK, OneBlocks, Blocking, Knows, UserOf
    <2>3. NoRowNoMoney' /\ Conservation'
      BY UserOfType DEF TypeOK, Knows, UserOf, NoRowNoMoney, Conservation
    <2> QED
      BY <2>1, <2>2, <2>3
  <1>17. ASSUME NEW p \in Processes, NEW t \in Txs, TakePayment(p, t)
        PROVE  CInv'
    <2> USE <1>0, <1>17 DEF CInv, TakePayment, AtPayment
    <2>1. OneBlocks'
      BY FreeMeansNoneBlocks DEF TypeOK, OneBlocks, Blocking
    <2>2. (\A k0 \in Tasks : Knows(k0))'
      BY UserOfType DEF TypeOK, OneBlocks, Blocking, Knows, UserOf
    <2>3. NoRowNoMoney' /\ Conservation'
      BY UserOfType DEF TypeOK, Knows, UserOf, NoRowNoMoney, Conservation
    <2> QED
      BY <2>1, <2>2, <2>3
  <1>18. ASSUME NEW t \in Txs, PaymentArrives(t)
        PROVE  CInv'
    <2> USE <1>0, <1>18 DEF CInv, PaymentArrives
    <2>1. OneBlocks'
      BY FreeMeansNoneBlocks DEF TypeOK, OneBlocks, Blocking
    <2>2. (\A k0 \in Tasks : Knows(k0))'
      BY UserOfType DEF TypeOK, OneBlocks, Blocking, Knows, UserOf
    <2>3. NoRowNoMoney' /\ Conservation'
      BY UserOfType DEF TypeOK, Knows, UserOf, NoRowNoMoney, Conservation
    <2> QED
      BY <2>1, <2>2, <2>3
  <1>19. ASSUME NEW k \in Tasks, BalanceUnread(k)
        PROVE  CInv'
    <2> USE <1>0, <1>19 DEF CInv, BalanceUnread, Answer, FaultHappens
    <2>1. OneBlocks'
      BY FreeMeansNoneBlocks DEF TypeOK, OneBlocks, Blocking
    <2>2. (\A k0 \in Tasks : Knows(k0))'
      BY UserOfType DEF TypeOK, OneBlocks, Blocking, Knows, UserOf
    <2>3. NoRowNoMoney' /\ Conservation'
      BY UserOfType DEF TypeOK, Knows, UserOf, NoRowNoMoney, Conservation
    <2> QED
      BY <2>1, <2>2, <2>3
  <1>20. ASSUME NEW k \in Tasks, DefaultNotCreated(k)
        PROVE  CInv'
    <2> USE <1>0, <1>20 DEF CInv, DefaultNotCreated, Answer, FaultHappens
    <2>1. OneBlocks'
      BY FreeMeansNoneBlocks DEF TypeOK, OneBlocks, Blocking
    <2>2. (\A k0 \in Tasks : Knows(k0))'
      BY UserOfType DEF TypeOK, OneBlocks, Blocking, Knows, UserOf
    <2>3. NoRowNoMoney' /\ Conservation'
      BY UserOfType DEF TypeOK, Knows, UserOf, NoRowNoMoney, Conservation
    <2> QED
      BY <2>1, <2>2, <2>3
  <1>21. ASSUME NEW r \in Requests, DeductFails(r)
        PROVE  CInv'
    <2> USE <1>0, <1>21 DEF CInv, DeductFails, GetBalance, Charging, WriteDeduction, ChargeBase, TooSmall, FaultHappens
    <2>1. OneBlocks'
      BY FreeMeansNoneBlocks DEF TypeOK, OneBlocks, Blocking
    <2>2. (\A k0 \in Tasks : Knows(k0))'
      BY UserOfType DEF TypeOK, OneBlocks, Blocking, Knows, UserOf
    <2>3. NoRowNoMoney' /\ Conservation'
      <3>1. CASE Owner[r] \in rows /\ WriteDeduction(r)
        <4>1. /\ Owner[r] \in Users
              /\ balance' = [balance EXCEPT ![Owner[r]] = got[r] - cost[r]]
              /\ spent' = [spent EXCEPT ![Owner[r]] = @ + cost[r]]
              /\ UNCHANGED <<rows, earned, blind>>
          BY <3>1 DEF TypeOK
        <4>2. Owner[r] \notin blind => got[r] = balance[Owner[r]]
          BY <3>1 DEF Knows, UserOf
        <4>3. NoRowNoMoney'
          BY <3>1, <4>1 DEF TypeOK, NoRowNoMoney
        <4>4. Conservation'
          BY <3>1, <4>1, <4>2 DEF TypeOK, Conservation
        <4> QED
          BY <4>3, <4>4
      <3>2. CASE UNCHANGED <<rows, balance, spent, earned, blind>>
        BY <3>2 DEF TypeOK, NoRowNoMoney, Conservation
      <3> QED
        BY <3>1, <3>2
    <2> QED
      BY <2>1, <2>2, <2>3
  <1>22. ASSUME NEW p \in Processes, CreditFails(p)
        PROVE  CInv'
    <2> USE <1>0, <1>22 DEF CInv, CreditFails, Crediting, WriteCredit, Unmarked, FaultHappens
    <2>1. OneBlocks'
      BY FreeMeansNoneBlocks DEF TypeOK, OneBlocks, Blocking
    <2>2. (\A k0 \in Tasks : Knows(k0))'
      BY UserOfType DEF TypeOK, OneBlocks, Blocking, Knows, UserOf
    <2>3. NoRowNoMoney' /\ Conservation'
      BY UserOfType DEF TypeOK, Knows, UserOf, NoRowNoMoney, Conservation
    <2> QED
      BY <2>1, <2>2, <2>3
  <1>23. ASSUME NEW p \in Processes, MarkFails(p)
        PROVE  CInv'
    <2> USE <1>0, <1>23 DEF CInv, MarkFails, GetBalance, NextPayment, AfterMark, FaultHappens
    <2>1. OneBlocks'
      <3>1. PICK step \in {"select", "idle"} : pc' = [pc EXCEPT ![p] = step]
        OBVIOUS
      <3> QED
        BY <3>1, BlockerGoesOn DEF Blocking, Steps
    <2>2. (\A k0 \in Tasks : Knows(k0))'
      <3>1. PICK step \in {"select", "idle"} : pc' = [pc EXCEPT ![p] = step]
        OBVIOUS
      <3>2. UNCHANGED <<rows, balance, got, tx>> /\ blind \subseteq blind'
        OBVIOUS
      <3> QED
        BY <3>1, <3>2 DEF TypeOK, Knows, UserOf
    <2>3. NoRowNoMoney' /\ Conservation'
      BY UserOfType DEF TypeOK, Knows, UserOf, NoRowNoMoney, Conservation
    <2> QED
      BY <2>1, <2>2, <2>3
  <1>24. ASSUME NEW p \in Processes, Crash(p)
        PROVE  CInv'
    <2> USE <1>0, <1>24 DEF CInv, Crash, FaultHappens
    <2>1. OneBlocks'
      BY FreeMeansNoneBlocks DEF TypeOK, OneBlocks, Blocking
    <2>2. (\A k0 \in Tasks : Knows(k0))'
      BY UserOfType DEF TypeOK, OneBlocks, Blocking, Knows, UserOf
    <2>3. NoRowNoMoney' /\ Conservation'
      BY UserOfType DEF TypeOK, Knows, UserOf, NoRowNoMoney, Conservation
    <2> QED
      BY <2>1, <2>2, <2>3
  <1>25. CASE UNCHANGED vars
    BY <1>0, <1>25
    DEF vars, CInv, OneBlocks, Knows, UserOf, NoRowNoMoney, Conservation
  <1> QED
    BY <1>1, <1>2, <1>3, <1>4, <1>5, <1>6, <1>7, <1>8, <1>9, <1>10, <1>11, <1>12, <1>13, <1>14, <1>15, <1>16, <1>17, <1>18, <1>19, <1>20, <1>21, <1>22, <1>23, <1>24, <1>25
    DEF Next, Fault, GetBalanceStep, RequestStep, WalletStep

(***************************************************************************)
(* In one process, for any users, payments, requests and faults, every     *)
(* balance that was never read blindly is the default plus all credits     *)
(* minus all charges.                                                      *)
(***************************************************************************)
THEOREM ConservationAlways ==
  ASSUME OneProcess
  PROVE  Spec => []Conservation
  <1>1. CInv /\ [Next]_vars => CInv'
    BY NextCInv
  <1>2. CInv => Conservation
    BY DEF CInv
  <1> QED
    BY <1>1, <1>2, InitCInv, PTL DEF Spec
-----------------------------------------------------------------------------
\* The wallet loop is about to credit its payment.
ToCredit(p) ==
  \/ pc[p] = "pricing"
  \/ pc[p] \in {"select", "create", "got"} /\ purpose[p] = "credit"

\* A payment that is neither marked nor just being marked.
Unsettled(t) == t \notin processed /\ \A p \in Processes : ~(pc[p] = "mark" /\ tx[p] = t)

\* A payment is credited only while it is not marked, and one that is still
\* not marked was credited only together with a fault.
CreditsCounted ==
  /\ \A p \in Processes : ToCredit(p) => tx[p] \notin processed
  /\ \A t \in Txs : Unsettled(t) => credits[t] <= faults

DInv == Inv /\ CreditsCounted /\ CreditsBounded

\* At the start nothing is credited.
LEMMA InitDInv == Init => DInv
  <1> SUFFICES ASSUME Init PROVE DInv
    OBVIOUS
  <1>1. CreditsCounted /\ CreditsBounded
    BY DEF Init, CreditsCounted, CreditsBounded, ToCredit, Tasks
  <1> QED
    BY <1>1, InitInv DEF DInv

\* A step that neither credits, marks nor takes a payment keeps the count,
\* unless it drops a mark, which only a fault does.
LEMMA CreditsFrame ==
  ASSUME DInv, UNCHANGED <<processed, credits, tx>>,
         \A p \in Processes : ToCredit(p)' => ToCredit(p),
         \/ faults' = faults + 1
         \/ faults' = faults /\ \A p \in Processes : pc[p] = "mark" => pc'[p] = "mark"
  PROVE  CreditsCounted' /\ CreditsBounded'
  BY DEF DInv, Inv, TypeOK, CreditsCounted, CreditsBounded, Unsettled

\* With one process, every step keeps the count.
LEMMA NextDInv ==
  ASSUME OneProcess, DInv, [Next]_vars
  PROVE  CreditsCounted' /\ CreditsBounded'
  <1> USE ConstantsAssumption DEF Tasks, Goto, table, control, request, wallet, history
  <1>0. Inv /\ TypeOK /\ CreditsCounted /\ CreditsBounded /\ \A p, q \in Processes : p = q
    BY DEF DInv, Inv, OneProcess
  <1>1. ASSUME NEW k \in Tasks, NEW step \in {"got", "create"}, pc' = [pc EXCEPT ![k] = step],
               pc[k] \in {"select", "create"}, purpose' = purpose,
               UNCHANGED <<processed, credits, tx>>, faults' = faults \/ faults' = faults + 1
        PROVE  CreditsCounted' /\ CreditsBounded'
    <2>1. \A p \in Processes : ToCredit(p)' => ToCredit(p)
      BY <1>0, <1>1 DEF ToCredit, TypeOK
    <2>2. \A p \in Processes : pc[p] = "mark" => pc'[p] = "mark"
      BY <1>0, <1>1 DEF TypeOK
    <2> QED
      BY <1>1, <2>1, <2>2, CreditsFrame
  <1>2. ASSUME NEW k \in Tasks, GetBalanceStep(k) \/ BalanceUnread(k) \/ DefaultNotCreated(k)
        PROVE  CreditsCounted' /\ CreditsBounded'
    BY <1>1, <1>2 DEF GetBalanceStep, BalanceFound, BalanceMissing, DefaultCreated,
                      BalanceUnread, DefaultNotCreated, Answer, FaultHappens
  <1>3. ASSUME NEW r \in Requests, RequestStep(r) \/ DeductFails(r)
        PROVE  CreditsCounted' /\ CreditsBounded'
    <2>1. /\ UNCHANGED <<processed, credits, tx>>
          /\ faults' = faults \/ faults' = faults + 1
          /\ \E step \in Steps : pc' = [pc EXCEPT ![r] = step]
          /\ \E why \in Purposes \cup {purpose[r]} : purpose' = [purpose EXCEPT ![r] = why]
      BY <1>0, <1>3
      DEF RequestStep, StartRequest, Admit, Served, ServeCrashed, DeductRefused, Deduct, Reply,
          DeductFails, GetBalance, WriteDeduction, FaultHappens, Steps, Purposes, TypeOK
    <2>2. \A p \in Processes : p # r /\ pc'[p] = pc[p] /\ purpose'[p] = purpose[p]
      BY <1>0, <2>1 DEF TypeOK
    <2> QED
      BY <2>1, <2>2, CreditsFrame DEF ToCredit
  <1>4. ASSUME NEW p \in Processes, Poll(p)
        PROVE  CreditsCounted' /\ CreditsBounded'
    BY <1>4, CreditsFrame DEF Poll, ToCredit
  <1>5. ASSUME NEW p \in Processes, Priced(p)
        PROVE  CreditsCounted' /\ CreditsBounded'
    <2>1. UNCHANGED <<processed, credits, tx, faults>> /\ pc[p] = "pricing"
      BY <1>5 DEF Priced
    <2>2. \A q \in Processes : ToCredit(q) /\ pc[q] # "mark"
      BY <1>0, <2>1 DEF ToCredit
    <2> QED
      BY <2>1, <2>2, CreditsFrame
  <1>6. ASSUME NEW p \in Processes, Credit(p) \/ CreditFails(p)
        PROVE  CreditsCounted' /\ CreditsBounded'
    <2>1. /\ pc[p] = "got" /\ purpose[p] = "credit" /\ tx[p] \in Txs
          /\ UNCHANGED <<processed, tx>> /\ purpose' = purpose
      BY <1>0, <1>6 DEF Credit, CreditFails, Crediting, TypeOK
    <2>2. ToCredit(p) /\ Unsettled(tx[p]) /\ \A q \in Processes : pc[q] # "mark"
      BY <1>0, <2>1 DEF ToCredit, CreditsCounted, Unsettled
    <2>3. \A t \in Txs : Unsettled(t)' => Unsettled(t)
      BY <2>1, <2>2 DEF Unsettled
    <2>4. CASE Credit(p)
      <3>1. /\ faults' = faults /\ credits' = [credits EXCEPT ![tx[p]] = credits[tx[p]] + 1]
            /\ pc' = [pc EXCEPT ![p] = "mark"]
        BY <2>4 DEF Credit, WriteCredit
      <3>2. ~Unsettled(tx[p])' /\ \A q \in Processes : ~ToCredit(q)'
        BY <1>0, <2>1, <3>1 DEF Unsettled, ToCredit, TypeOK
      <3> QED
        BY <1>0, <2>1, <2>2, <2>3, <3>1, <3>2 DEF CreditsCounted, CreditsBounded, TypeOK
    <2>5. CASE CreditFails(p)
      <3>1. /\ faults' = faults + 1 /\ pc' = [pc EXCEPT ![p] = "idle"]
            /\ credits' = credits \/ credits' = [credits EXCEPT ![tx[p]] = credits[tx[p]] + 1]
        BY <2>5 DEF CreditFails, WriteCredit, FaultHappens, Unmarked
      <3>2. \A q \in Processes : ~ToCredit(q)'
        BY <1>0, <3>1 DEF ToCredit, TypeOK
      <3>3. \A t \in Txs : credits[t] \in Nat /\ faults \in Nat
        BY <1>0 DEF TypeOK
      <3>4. credits[tx[p]] <= faults
        BY <1>0, <2>1, <2>2 DEF CreditsCounted
      <3>5. \A t \in Txs : t # tx[p] => credits'[t] = credits[t]
        BY <1>0, <2>1, <3>1 DEF TypeOK
      <3>6. credits'[tx[p]] <= faults + 1
        BY <1>0, <2>1, <3>1, <3>3, <3>4 DEF TypeOK
      <3>7. CreditsCounted'
        BY <1>0, <2>3, <3>1, <3>2, <3>3, <3>5, <3>6 DEF CreditsCounted
      <3>8. CreditsBounded'
        <4> SUFFICES ASSUME NEW t \in Txs
                     PROVE  credits'[t] <= 1 + faults'
          BY DEF CreditsBounded
        <4>1. credits[t] <= 1 + faults /\ credits[t] \in Nat /\ faults \in Nat
          BY <1>0, <3>3 DEF CreditsBounded
        <4> DEFINE c == credits'[t]
        <4>2. faults' = faults + 1
          BY <3>1
        <4>3. c \in Nat
          BY <1>0, <2>1, <3>1, <4>1 DEF TypeOK
        <4>4. c <= faults + 1 \/ c = credits[t]
          BY <3>5, <3>6
        <4> HIDE DEF c
        <4>5. c <= 1 + faults'
          BY <4>1, <4>2, <4>3, <4>4
        <4> QED
          BY <4>5 DEF c
      <3> QED
        BY <3>7, <3>8
    <2> QED
      BY <1>6, <2>4, <2>5
  <1>7. ASSUME NEW p \in Processes, MarkProcessed(p) \/ MarkFails(p)
        PROVE  CreditsCounted' /\ CreditsBounded'
    <2>1. /\ UNCHANGED <<tx, credits>> /\ tx[p] \in Txs /\ AfterMark(p)
      BY <1>0, <1>7 DEF MarkProcessed, MarkFails, TypeOK
    <2>2. \A q \in Processes : ~ToCredit(q)'
      BY <1>0, <2>1 DEF AfterMark, NextPayment, GetBalance, ToCredit, TypeOK
    <2>3. CASE MarkProcessed(p)
      <3>1. processed' = processed \cup {tx[p]} /\ faults' = faults
        BY <2>3 DEF MarkProcessed
      <3>2. \A t \in Txs : Unsettled(t)' => Unsettled(t)
        BY <1>0, <3>1 DEF Unsettled
      <3> QED
        BY <1>0, <2>1, <2>2, <3>1, <3>2 DEF CreditsCounted, CreditsBounded
    <2>4. CASE MarkFails(p)
      <3>1. processed' = processed /\ faults' = faults + 1
        BY <2>4 DEF MarkFails, FaultHappens
      <3> QED
        BY <2>1, <2>2, <3>1, CreditsFrame
    <2> QED
      BY <1>7, <2>3, <2>4
  <1>8. ASSUME NEW p \in Processes, Notify(p) \/ (\E t \in Txs : SkipProcessed(p, t))
        PROVE  CreditsCounted' /\ CreditsBounded'
    <2>1. /\ UNCHANGED <<processed, credits, tx>>
          /\ faults' = faults
          /\ pc[p] # "mark" /\ pc' = [pc EXCEPT ![p] = "idle"]
      BY <1>8 DEF Notify, SkipProcessed, AtPayment, NextPayment
    <2>2. \A q \in Processes : ~ToCredit(q)' /\ pc[q] # "mark"
      BY <1>0, <2>1 DEF ToCredit, TypeOK
    <2> QED
      BY <2>1, <2>2, CreditsFrame
  <1>9. ASSUME NEW p \in Processes, NEW t \in Txs, TakePayment(p, t)
        PROVE  CreditsCounted' /\ CreditsBounded'
    <2>1. /\ UNCHANGED <<processed, credits, faults>> /\ t \notin processed /\ pc[p] = "idle"
          /\ tx' = [tx EXCEPT ![p] = t]
          /\ \E step \in {"mark", "pricing"} : pc' = [pc EXCEPT ![p] = step]
      BY <1>9 DEF TakePayment, IsProcessed, AtPayment
    <2>2. \A q \in Processes : tx'[q] \notin processed /\ pc[q] # "mark"
      BY <1>0, <2>1 DEF TypeOK
    <2>3. \A s \in Txs : Unsettled(s)' => Unsettled(s)
      BY <2>1, <2>2 DEF Unsettled
    <2> QED
      BY <1>0, <2>1, <2>2, <2>3 DEF CreditsCounted, CreditsBounded
  <1>10. ASSUME NEW t \in Txs, PaymentArrives(t)
         PROVE  CreditsCounted' /\ CreditsBounded'
    BY <1>10, CreditsFrame DEF PaymentArrives, ToCredit
  <1>11. ASSUME NEW p \in Processes, Crash(p)
         PROVE  CreditsCounted' /\ CreditsBounded'
    <2>1. UNCHANGED <<processed, credits, tx, purpose>> /\ faults' = faults + 1
      BY <1>11 DEF Crash, FaultHappens
    <2>2. \A q \in Processes : pc'[q] \in {"idle", "over", pc[q]}
      BY <1>11 DEF Crash
    <2>3. \A q \in Processes : ToCredit(q)' => ToCredit(q)
      BY <2>1, <2>2 DEF ToCredit
    <2> QED
      BY <2>1, <2>3, CreditsFrame
  <1>12. ASSUME UNCHANGED vars
         PROVE  CreditsCounted' /\ CreditsBounded'
    BY <1>12, CreditsFrame DEF vars, ToCredit
  <1>13. ASSUME NEW p \in Processes, WalletStep(p)
         PROVE  CreditsCounted' /\ CreditsBounded'
    BY <1>4, <1>5, <1>6, <1>7, <1>8, <1>9, <1>13 DEF WalletStep
  <1>14. ASSUME Fault
         PROVE  CreditsCounted' /\ CreditsBounded'
    BY <1>2, <1>3, <1>6, <1>7, <1>8, <1>11, <1>14 DEF Fault
  <1> QED
    BY <1>2, <1>3, <1>10, <1>12, <1>13, <1>14 DEF Next

(***************************************************************************)
(* In one process a payment is credited again only after a fault, for any  *)
(* payments, polls and window.                                             *)
(***************************************************************************)
THEOREM CreditsBoundedAlways ==
  ASSUME OneProcess
  PROVE  Spec => []CreditsBounded
  <1>1. DInv /\ [Next]_vars => DInv'
    BY NextInv, NextDInv DEF DInv
  <1>2. DInv => CreditsBounded
    BY DEF DInv
  <1> QED
    BY <1>1, <1>2, InitDInv, PTL DEF Spec
-----------------------------------------------------------------------------
\* Admitted, and deduct has not decided yet.
Unbilled(r) ==
  \/ pc[r] = "awaiting"
  \/ pc[r] \in {"select", "create", "got"} /\ purpose[r] = "charge"

\* The balance r was admitted on is still there.
Funded(r) ==
  \/ r \in overtaken
  \/ Owner[r] \in blind
  \/ admittedOn[r] <= Worth(Owner[r])

\* What r has come to: it is being served, or was refused and is over.
Placed(r) ==
  /\ pc[r] = "awaiting" => purpose[r] = "admit"
  /\ r \in refused => purpose[r] = "warn" /\ pc[r] \notin {"idle", "awaiting"}

FInv == /\ CInv
        /\ \A r \in Requests : Placed(r)
        /\ \A r \in Requests : Unbilled(r) => Funded(r)
        /\ RefusalNeedsOverlap

\* At the start no request is admitted or refused.
LEMMA InitFInv == Init => FInv
  <1> SUFFICES ASSUME Init PROVE FInv
    OBVIOUS
  <1>1. \A r \in Requests : Placed(r) /\ ~Unbilled(r)
    BY DEF Init, Tasks, Placed, Unbilled
  <1> QED
    BY <1>1, InitCInv DEF Init, FInv, RefusalNeedsOverlap

\* A step that bills and admits nobody and leaves each user worth at least as
\* much as before keeps admitted requests funded.
LEMMA FundsFrame ==
  ASSUME FInv, UNCHANGED <<admittedOn, refused>>,
         overtaken \subseteq overtaken', blind \subseteq blind',
         \A r \in refused : cost'[r] = cost[r],
         \A u \in Users : u \in blind \/ (Worth(u) \in Nat /\ Worth(u)' \in Nat /\ Worth(u) <= Worth(u)'),
         \A r \in Requests : Unbilled(r)' => Unbilled(r),
         \A r \in Requests : Placed(r)'
  PROVE  /\ \A r \in Requests : Placed(r)'
         /\ \A r \in Requests : Unbilled(r)' => Funded(r)'
         /\ RefusalNeedsOverlap'
  <1>1. ASSUME NEW r \in Requests, Unbilled(r)'
        PROVE  Funded(r)'
    <2>1. Funded(r) /\ Owner[r] \in Users /\ admittedOn[r] \in Nat
      BY <1>1, ConstantsAssumption DEF FInv, CInv, Inv, TypeOK
    <2>2. CASE r \in overtaken \/ Owner[r] \in blind
      BY <2>2 DEF Funded
    <2>3. CASE r \notin overtaken /\ Owner[r] \notin blind
      <3>1. /\ admittedOn[r] <= Worth(Owner[r]) /\ admittedOn'[r] = admittedOn[r]
            /\ Worth(Owner[r]) \in Nat /\ Worth(Owner[r])' \in Nat
            /\ Worth(Owner[r]) <= Worth(Owner[r])'
        BY <2>1, <2>3 DEF Funded
      <3>2. admittedOn'[r] <= Worth(Owner[r])'
        BY <2>1, <3>1
      <3> QED
        BY <3>2 DEF Funded
    <2> QED
      BY <2>2, <2>3
  <1>2. RefusalNeedsOverlap'
    BY DEF FInv, RefusalNeedsOverlap
  <1> QED
    BY <1>1, <1>2

\* The worth of a user whose row a step leaves alone.
LEMMA WorthStays ==
  ASSUME TypeOK, UNCHANGED <<rows, balance>>
  PROVE  \A u \in Users : Worth(u) \in Nat /\ Worth(u)' \in Nat /\ Worth(u) <= Worth(u)'
  <1>1. \A u \in Users : Worth(u) \in Nat /\ Worth(u)' = Worth(u)
    BY ConstantsAssumption DEF TypeOK, Worth
  <1>2. \A n \in Nat : n <= n
    OBVIOUS
  <1> QED
    BY <1>1, <1>2

\* With one process, every step keeps admitted requests funded.
LEMMA NextFInv ==
  ASSUME OneProcess, FInv, [Next]_vars
  PROVE  /\ \A r \in Requests : Placed(r)'
         /\ \A r \in Requests : Unbilled(r)' => Funded(r)'
         /\ RefusalNeedsOverlap'
  <1> DEFINE Goal == /\ \A r \in Requests : Placed(r)'
                     /\ \A r \in Requests : Unbilled(r)' => Funded(r)'
                     /\ RefusalNeedsOverlap'
  <1> USE ConstantsAssumption DEF Tasks, Goto, table, control, request, wallet, history
  <1>0. /\ CInv /\ TypeOK /\ RefusalNeedsOverlap
        /\ \A k \in Tasks : Knows(k)
        /\ \A r \in Requests : Placed(r) /\ (Unbilled(r) => Funded(r))
    BY DEF FInv, CInv, Inv
  <1>1. ASSUME UNCHANGED <<rows, balance, admittedOn, cost, refused, overtaken>>,
               blind \subseteq blind',
               \A r \in Requests : Unbilled(r)' => Unbilled(r),
               \A r \in Requests : Placed(r)'
        PROVE  Goal
    BY <1>0, <1>1, WorthStays, FundsFrame
  <1>2. ASSUME NEW k \in Tasks, GetBalanceStep(k) \/ BalanceUnread(k) \/ DefaultNotCreated(k)
        PROVE  Goal
    <2>1. /\ UNCHANGED <<admittedOn, cost, refused, overtaken, purpose>> /\ blind \subseteq blind'
          /\ pc[k] \in {"select", "create"}
          /\ \E step \in {"create", "got"} : pc' = [pc EXCEPT ![k] = step]
      BY <1>2 DEF GetBalanceStep, BalanceFound, BalanceMissing, DefaultCreated, BalanceUnread,
                  DefaultNotCreated, Answer
    <2>2. \A r \in Requests : (Unbilled(r)' => Unbilled(r)) /\ Placed(r)'
      BY <1>0, <2>1 DEF TypeOK, Unbilled, Placed
    <2>3. CASE UNCHANGED <<rows, balance>>
      BY <1>1, <2>1, <2>2, <2>3
    <2>4. CASE DefaultCreated(k)
      <3>1. UserOf(k) \notin rows
        BY <1>0, <2>4 DEF DefaultCreated, Knows
      <3>2. /\ rows' = rows \cup {UserOf(k)}
            /\ balance' = [balance EXCEPT ![UserOf(k)] = DEFAULT]
        BY <2>4, <3>1 DEF DefaultCreated
      <3>3. \A u \in Users : Worth(u)' = Worth(u) /\ Worth(u) \in Nat
        BY <1>0, <3>1, <3>2 DEF TypeOK, Worth
      <3>4. \A u \in Users : Worth(u) \in Nat /\ Worth(u)' \in Nat /\ Worth(u) <= Worth(u)'
        <4>1. \A n \in Nat : n <= n
          OBVIOUS
        <4> QED
          BY <3>3, <4>1
      <3> QED
        BY <2>1, <2>2, <3>4, FundsFrame
    <2>5. UNCHANGED <<rows, balance>> \/ DefaultCreated(k)
      BY <1>2 DEF GetBalanceStep, BalanceFound, BalanceMissing, BalanceUnread, DefaultNotCreated
    <2> QED
      BY <2>3, <2>4, <2>5
  <1>3. ASSUME NEW r \in Requests, StartRequest(r) \/ ServeCrashed(r) \/ Reply(r)
        PROVE  Goal
    <2>1. UNCHANGED <<rows, balance, admittedOn, cost, refused, overtaken, blind>>
      BY <1>3 DEF StartRequest, ServeCrashed, Reply
    <2>2. \A q \in Requests : (Unbilled(q)' => Unbilled(q)) /\ Placed(q)'
      BY <1>0, <1>3, <2>1 DEF StartRequest, ServeCrashed, Reply, GetBalance, TypeOK, Unbilled, Placed
    <2> QED
      BY <1>1, <2>1, <2>2
  <1>4. ASSUME NEW r \in Requests, Admit(r)
        PROVE  Goal
    <2>1. /\ pc[r] = "got" /\ purpose[r] = "admit"
          /\ admittedOn' = [admittedOn EXCEPT ![r] = got[r]]
          /\ UNCHANGED <<rows, balance, cost, refused, overtaken, blind>>
          /\ \/ /\ pc' = [pc EXCEPT ![r] = "select"]
                /\ purpose' = [purpose EXCEPT ![r] = "warn"]
             \/ pc' = [pc EXCEPT ![r] = "awaiting"] /\ purpose' = purpose
      BY <1>4 DEF Admit, GetBalance
    <2>2. /\ r \notin refused
          /\ admittedOn'[r] = got[r]
          /\ \A q \in Requests : q # r => admittedOn'[q] = admittedOn[q]
      BY <1>0, <2>1 DEF Placed, TypeOK
    <2>3. \A q \in Requests : Placed(q)'
      BY <1>0, <2>1, <2>2 DEF Placed, TypeOK
    <2>4. \A q \in Requests : q # r /\ Unbilled(q)' => Unbilled(q)
      BY <1>0, <2>1 DEF Unbilled, TypeOK
    <2>5. Owner[r] \notin blind => got[r] = Worth(Owner[r])
      BY <1>0, <2>1 DEF Knows, UserOf, Worth
    <2>6. got[r] \in Nat /\ (got[r] = Worth(Owner[r]) => got[r] <= Worth(Owner[r]))
      BY <1>0 DEF TypeOK
    <2>7. \A u : Worth(u)' = Worth(u)
      BY <2>1 DEF Worth
    <2>8. \A q \in Requests : Unbilled(q)' => Funded(q)'
      <3> SUFFICES ASSUME NEW q \in Requests, Unbilled(q)' PROVE Funded(q)'
        OBVIOUS
      <3>1. CASE q = r
        BY <2>1, <2>2, <2>5, <2>6, <2>7, <3>1 DEF Funded
      <3>2. CASE q # r
        BY <1>0, <2>1, <2>2, <2>4, <2>7, <3>2 DEF Funded
      <3> QED
        BY <3>1, <3>2
    <2>9. RefusalNeedsOverlap'
      BY <1>0, <2>1, <2>2 DEF RefusalNeedsOverlap, TypeOK
    <2> QED
      BY <2>3, <2>8, <2>9
  <1>5. ASSUME NEW r \in Requests, Served(r)
        PROVE  Goal
    <2>1. PICK c \in Costs : /\ cost' = [cost EXCEPT ![r] = c]
                             /\ GetBalance(r, IF c > 0 THEN "charge" ELSE "warn")
      BY <1>5 DEF Served
    <2>2. /\ pc[r] = "awaiting"
          /\ UNCHANGED <<rows, balance, admittedOn, refused, overtaken, blind>>
      BY <1>5 DEF Served
    <2>3. r \notin refused /\ \A q \in refused : cost'[q] = cost[q]
      BY <1>0, <2>1, <2>2 DEF Placed, TypeOK
    <2>4. \A q \in Requests : (Unbilled(q)' => Unbilled(q)) /\ Placed(q)'
      BY <1>0, <2>1, <2>2, <2>3 DEF GetBalance, TypeOK, Unbilled, Placed
    <2>5. \A u \in Users : Worth(u) \in Nat /\ Worth(u)' \in Nat /\ Worth(u) <= Worth(u)'
      BY <1>0, <2>2, WorthStays
    <2> QED
      BY <2>2, <2>3, <2>4, <2>5, FundsFrame
  <1>6. ASSUME NEW r \in Requests, DeductRefused(r)
        PROVE  Goal
    <2>1. /\ pc[r] = "got" /\ purpose[r] = "charge" /\ got[r] < cost[r]
          /\ refused' = refused \cup {r}
          /\ pc' = [pc EXCEPT ![r] = "select"] /\ purpose' = [purpose EXCEPT ![r] = "warn"]
          /\ UNCHANGED <<rows, balance, admittedOn, cost, overtaken, blind>>
      BY <1>6 DEF DeductRefused, Charging, TooSmall, GetBalance
    <2>2. /\ Unbilled(r) /\ Funded(r)
          /\ \A q \in Requests : (Unbilled(q)' => Unbilled(q)) /\ Placed(q)'
      BY <1>0, <2>1 DEF TypeOK, Unbilled, Placed
    <2>3. \A u : Worth(u)' = Worth(u)
      BY <2>1 DEF Worth
    <2>4. \A q \in Requests : Unbilled(q)' => Funded(q)'
      BY <1>0, <2>1, <2>2, <2>3 DEF Funded
    <2>5. Owner[r] \notin blind => got[r] = Worth(Owner[r])
      BY <1>0, <2>1 DEF Knows, UserOf, Worth
    <2>6. got[r] \in Nat /\ cost[r] \in Nat /\ admittedOn[r] \in Nat
      BY <1>0 DEF TypeOK
    <2>7. r \in overtaken \/ Owner[r] \in blind \/ cost[r] > admittedOn[r]
      BY <2>1, <2>2, <2>5, <2>6 DEF Funded
    <2>8. RefusalNeedsOverlap'
      BY <1>0, <2>1, <2>7 DEF RefusalNeedsOverlap
    <2> QED
      BY <2>2, <2>4, <2>8
  <1>7. ASSUME NEW r \in Requests, Deduct(r) \/ DeductFails(r)
        PROVE  Goal
    <2>1. /\ pc[r] = "got" /\ purpose[r] = "charge"
          /\ pc' = [pc EXCEPT ![r] = "select"] /\ purpose' = [purpose EXCEPT ![r] = "warn"]
          /\ UNCHANGED <<rows, admittedOn, cost, refused, blind>>
          /\ WriteDeduction(r) \/ UNCHANGED <<balance, overtaken>>
      BY <1>7 DEF Deduct, DeductFails, Charging, GetBalance
    <2>2. \A q \in Requests : (Unbilled(q)' => Unbilled(q) /\ q # r) /\ Placed(q)'
      BY <1>0, <2>1 DEF TypeOK, Unbilled, Placed
    <2>3. CASE UNCHANGED <<balance, overtaken>>
      BY <1>1, <2>1, <2>2, <2>3
    <2>4. CASE ~UNCHANGED <<balance, overtaken>>
      <3>1. /\ balance' = [balance EXCEPT ![Owner[r]] = ChargeBase(r) - cost[r]]
            /\ overtaken' = overtaken \cup InFlight(r)
        BY <2>1, <2>4 DEF WriteDeduction
      <3>2. \A q \in Requests : Unbilled(q)' /\ Owner[q] = Owner[r] => q \in overtaken'
        BY <1>0, <2>2, <3>1 DEF InFlight, Unbilled, Placed
      <3>3. \A u : u # Owner[r] => Worth(u)' = Worth(u)
        BY <1>0, <2>1, <3>1 DEF Worth, TypeOK
      <3>4. \A q \in Requests : Unbilled(q)' => Funded(q)'
        BY <1>0, <2>1, <2>2, <3>1, <3>2, <3>3 DEF Funded
      <3>5. RefusalNeedsOverlap'
        BY <1>0, <2>1, <3>1 DEF RefusalNeedsOverlap
      <3> QED
        BY <2>2, <3>4, <3>5
    <2> QED
      BY <2>3, <2>4
  <1>8. ASSUME NEW p \in Processes, Credit(p) \/ CreditFails(p)
        PROVE  Goal
    <2>1. /\ pc[p] = "got" /\ \E step \in Steps : pc' = [pc EXCEPT ![p] = step]
          /\ UNCHANGED <<purpose, admittedOn, cost, refused, overtaken, blind>>
          /\ WriteCredit(p) \/ UNCHANGED <<rows, balance>>
      BY <1>8 DEF Credit, CreditFails, Crediting, Unmarked, Steps
    <2>2. \A q \in Requests : (Unbilled(q)' => Unbilled(q)) /\ Placed(q)'
      BY <1>0, <2>1 DEF TypeOK, Unbilled, Placed
    <2>3. CASE UNCHANGED <<rows, balance>>
      BY <1>1, <2>1, <2>2, <2>3
    <2>4. CASE WriteCredit(p)
      <3> DEFINE v == UserOf(p)
      <3>1. v \notin blind => got[p] = Worth(v)
        BY <1>0, <2>1 DEF Knows, Worth
      <3>2. /\ rows' = rows \cup {v}
            /\ balance' = [balance EXCEPT ![v] = got[p] + Usd[tx[p]]]
        BY <2>4 DEF WriteCredit
      <3>3. got[p] \in Nat /\ Usd[tx[p]] \in Nat
        BY <1>0 DEF TypeOK
      <3> HIDE DEF v
      <3>4. \A u \in Users : u \in blind \/ (Worth(u) \in Nat /\ Worth(u)' \in Nat /\ Worth(u) <= Worth(u)')
        <4> SUFFICES ASSUME NEW u \in Users, u \notin blind
                     PROVE  Worth(u) \in Nat /\ Worth(u)' \in Nat /\ Worth(u) <= Worth(u)'
          OBVIOUS
        <4>1. Worth(u) \in Nat
          BY <1>0 DEF TypeOK, Worth
        <4>2. CASE u = v
          <5>1. Worth(u)' = got[p] + Usd[tx[p]] /\ Worth(u) = got[p]
            BY <1>0, <3>1, <3>2, <4>2 DEF TypeOK, Worth
          <5> QED
            BY <3>3, <5>1
        <4>3. CASE u # v
          <5>1. Worth(u)' = Worth(u)
            BY <1>0, <3>2, <4>3 DEF TypeOK, Worth
          <5> QED
            BY <4>1, <5>1
        <4> QED
          BY <4>2, <4>3
      <3> QED
        BY <2>1, <2>2, <3>4, FundsFrame
    <2> QED
      BY <2>1, <2>3, <2>4
  <1>9. ASSUME NEW p \in Processes,
               \/ Poll(p) \/ Priced(p) \/ MarkProcessed(p) \/ MarkFails(p) \/ Notify(p)
               \/ \E t \in Txs : SkipProcessed(p, t) \/ TakePayment(p, t)
        PROVE  Goal
    <2>1. /\ UNCHANGED <<rows, balance, admittedOn, cost, refused, overtaken, blind>>
          /\ pc' = pc \/ \E step \in Steps : pc' = [pc EXCEPT ![p] = step]
          /\ purpose' = purpose \/ \E why \in Purposes : purpose' = [purpose EXCEPT ![p] = why]
      BY <1>9 DEF Poll, Priced, MarkProcessed, MarkFails, Notify, SkipProcessed, TakePayment,
                  AfterMark, NextPayment, GetBalance, Steps, Purposes
    <2>2. \A q \in Requests : pc'[q] = pc[q] /\ purpose'[q] = purpose[q]
      BY <1>0, <2>1 DEF TypeOK
    <2>3. \A q \in Requests : (Unbilled(q)' => Unbilled(q)) /\ Placed(q)'
      BY <1>0, <2>1, <2>2 DEF Unbilled, Placed
    <2> QED
      BY <1>1, <2>1, <2>3
  <1>10. ASSUME NEW p \in Processes, Crash(p)
         PROVE  Goal
    <2>1. UNCHANGED <<rows, balance, purpose, admittedOn, cost, refused, overtaken, blind>>
      BY <1>10 DEF Crash
    <2>2. \A q \in Requests : pc'[q] = pc[q] \/ pc'[q] = "over"
      BY <1>10 DEF Crash
    <2>3. \A q \in Requests : (Unbilled(q)' => Unbilled(q)) /\ Placed(q)'
      BY <1>0, <2>1, <2>2 DEF Unbilled, Placed
    <2> QED
      BY <1>1, <2>1, <2>3
  <1>11. ASSUME UNCHANGED vars \/ \E t \in Txs : PaymentArrives(t)
         PROVE  Goal
    <2>1. UNCHANGED <<rows, balance, pc, purpose, admittedOn, cost, refused, overtaken, blind>>
      BY <1>11 DEF vars, PaymentArrives
    <2>2. \A q \in Requests : (Unbilled(q)' => Unbilled(q)) /\ Placed(q)'
      BY <1>0, <2>1 DEF Unbilled, Placed
    <2> QED
      BY <1>1, <2>1, <2>2
  <1>12. ASSUME NEW r \in Requests, RequestStep(r)
         PROVE  Goal
    BY <1>3, <1>4, <1>5, <1>6, <1>7, <1>12 DEF RequestStep
  <1>13. ASSUME NEW p \in Processes, WalletStep(p)
         PROVE  Goal
    BY <1>8, <1>9, <1>13 DEF WalletStep
  <1>14. ASSUME Fault
         PROVE  Goal
    BY <1>2, <1>7, <1>8, <1>9, <1>10, <1>14 DEF Fault
  <1> HIDE DEF Goal
  <1>15. Goal
    BY <1>2, <1>11, <1>12, <1>13, <1>14 DEF Next
  <1> QED
    BY <1>15 DEF Goal

(***************************************************************************)
(* In one process, for any users, requests, costs, payments and faults, a  *)
(* served request is refused for want of balance only if it cost more than *)
(* the balance it was admitted on, the user was charged for another        *)
(* message meanwhile, or a balance could not be read.                      *)
(***************************************************************************)
THEOREM RefusalNeedsOverlapAlways ==
  ASSUME OneProcess
  PROVE  Spec => []RefusalNeedsOverlap
  <1>1. FInv /\ [Next]_vars => FInv'
    BY NextCInv, NextFInv DEF FInv
  <1>2. FInv => RefusalNeedsOverlap
    BY DEF FInv
  <1> QED
    BY <1>1, <1>2, InitFInv, PTL DEF Spec
-----------------------------------------------------------------------------
\* What the bill of a request has come to: it is decided once, and charges
\* what serving the request did cost.
Decided(r) ==
  /\ r \in charged \cup refused => purpose[r] = "warn" /\ pc[r] \notin {"idle", "awaiting"}
  /\ pc[r] \in {"select", "create", "got"} /\ purpose[r] = "charge" => cost[r] \in Costs

AInv == CInv /\ CreditsCounted /\ CreditsBounded /\ \A r \in Requests : Decided(r)

\* At the start every account holds the default and no bill is decided.
LEMMA InitAbstract == Init => Abs!Init /\ AInv
  <1> SUFFICES ASSUME Init PROVE Abs!Init /\ AInv
    OBVIOUS
  <1>1. Abs!Init
    BY DEF Init, Abs!Init, Worth
  <1>2. \A r \in Requests : Decided(r)
    BY DEF Init, Decided, Tasks
  <1> QED
    BY <1>1, <1>2, InitCInv, InitDInv DEF AInv, DInv

\* No request is billed again.
LEMMA NextDecided ==
  ASSUME AInv, [Next]_vars
  PROVE  \A r \in Requests : Decided(r)'
  <1> DEFINE Goal == \A r \in Requests : Decided(r)'
  <1> USE ConstantsAssumption DEF Tasks, Goto, table, control, request, wallet, history
  <1>0. TypeOK /\ \A r \in Requests : Decided(r)
    BY DEF AInv, CInv, Inv
  <1>1. ASSUME NEW k \in Tasks, GetBalanceStep(k) \/ BalanceUnread(k) \/ DefaultNotCreated(k)
        PROVE  Goal
    <2>1. /\ UNCHANGED <<cost, charged, refused, purpose>>
          /\ pc[k] \in {"select", "create"}
          /\ \E step \in {"create", "got"} : pc' = [pc EXCEPT ![k] = step]
      BY <1>1 DEF GetBalanceStep, BalanceFound, BalanceMissing, DefaultCreated, BalanceUnread,
                  DefaultNotCreated, Answer
    <2> QED
      BY <1>0, <2>1 DEF TypeOK, Decided
  <1>2. ASSUME NEW r \in Requests, StartRequest(r) \/ Admit(r) \/ ServeCrashed(r) \/ Reply(r)
        PROVE  Goal
    BY <1>0, <1>2 DEF StartRequest, Admit, ServeCrashed, Reply, GetBalance, TypeOK, Decided
  <1>3. ASSUME NEW r \in Requests, Served(r)
        PROVE  Goal
    BY <1>0, <1>3 DEF Served, GetBalance, TypeOK, Decided
  <1>4. ASSUME NEW r \in Requests, DeductRefused(r) \/ Deduct(r) \/ DeductFails(r)
        PROVE  Goal
    <2>1. /\ cost' = cost /\ charged' \subseteq charged \cup {r} /\ refused' \subseteq refused \cup {r}
          /\ pc' = [pc EXCEPT ![r] = "select"] /\ purpose' = [purpose EXCEPT ![r] = "warn"]
      BY <1>4 DEF DeductRefused, Deduct, DeductFails, WriteDeduction, GetBalance
    <2> QED
      BY <1>0, <2>1 DEF TypeOK, Decided
  <1>5. ASSUME NEW p \in Processes,
               WalletStep(p) \/ CreditFails(p) \/ MarkFails(p)
        PROVE  Goal
    <2>1. /\ UNCHANGED <<cost, charged, refused>>
          /\ \A r \in Requests : pc'[r] = pc[r] /\ purpose'[r] = purpose[r]
      <3> USE <1>0 DEF TypeOK
      <3>1. CASE Poll(p) \/ Priced(p) \/ Notify(p)
        BY <3>1 DEF Poll, Priced, Notify, NextPayment, GetBalance
      <3>2. CASE Credit(p) \/ CreditFails(p)
        BY <3>2 DEF Credit, CreditFails, WriteCredit, NextPayment, GetBalance
      <3>3. CASE MarkProcessed(p) \/ MarkFails(p)
        BY <3>3 DEF MarkProcessed, MarkFails, AfterMark, NextPayment, GetBalance
      <3>4. ASSUME NEW t \in Txs, SkipProcessed(p, t) \/ TakePayment(p, t)
            PROVE  /\ UNCHANGED <<cost, charged, refused>>
                   /\ \A r \in Requests : pc'[r] = pc[r] /\ purpose'[r] = purpose[r]
        <4>1. CASE SkipProcessed(p, t)
          BY <4>1 DEF SkipProcessed, NextPayment
        <4>2. CASE TakePayment(p, t)
          BY <4>2 DEF TakePayment
        <4> QED
          BY <3>4, <4>1, <4>2
      <3> QED
        BY <1>5, <3>1, <3>2, <3>3, <3>4 DEF WalletStep
    <2> QED
      BY <1>0, <2>1 DEF Decided
  <1>6. ASSUME NEW p \in Processes, Crash(p)
        PROVE  Goal
    BY <1>0, <1>6 DEF Crash, TypeOK, Decided
  <1>7. ASSUME NEW t \in Txs, PaymentArrives(t)
        PROVE  Goal
    BY <1>0, <1>7 DEF PaymentArrives, Decided
  <1>8. CASE UNCHANGED vars
    BY <1>0, <1>8 DEF vars, Decided
  <1> QED
    BY <1>1, <1>2, <1>3, <1>4, <1>5, <1>6, <1>7, <1>8 DEF Next, Fault, RequestStep

\* A step that no account and no bill shows is none of the abstract ledger.
LEMMA AbsRests ==
  ASSUME \A u \in Users : Worth(u)' = Worth(u), UNCHANGED <<processed, credits, charged, refused, blind>>
  PROVE  UNCHANGED Abs!vars
  BY DEF Abs!vars, Abs!money, Abs!bills

\* A step that writes one user's row sets that user's account.
LEMMA AccountSet ==
  ASSUME TypeOK', NEW u \in Users, NEW amount, u \in blind \/ Worth(u)' = amount,
         \A v \in Users : v # u => Worth(v)' = Worth(v)
  PROVE  Abs!Set(u, amount)
  <1>1. \A v \in Users : Worth(v)' \in Nat
    BY ConstantsAssumption DEF TypeOK, Worth
  <1> QED
    BY <1>1 DEF Abs!Set

\* What a task that is to write has read is what its user has.
LEMMA ReadIsWorth ==
  ASSUME AInv, NEW k \in Tasks, pc[k] = "got"
  PROVE  UserOf(k) \in blind \/ got[k] = Worth(UserOf(k))
  BY DEF AInv, CInv, Knows, Worth

\* credit: the upsert adds the payment's worth to the account.
LEMMA CreditIsAbstract ==
  ASSUME AInv, TypeOK', NEW p \in Processes, Crediting(p), WriteCredit(p),
         UNCHANGED <<processed, charged, refused, blind>>
  PROVE  Abs!Next
  <1>1. TypeOK /\ AtTx(p) /\ CreditsCounted /\ p \in Tasks /\ p \notin Requests
    BY ConstantsAssumption DEF AInv, CInv, Inv, Tasks
  <1>2. PICK t \in Txs, u \in Users : t = tx[p] /\ u = Payer[t] /\ u = UserOf(p)
    BY <1>1, ConstantsAssumption DEF TypeOK, AtTx, Crediting, UserOf
  <1>3. t \notin processed
    BY <1>1, <1>2 DEF CreditsCounted, ToCredit, Crediting
  <1>4. u \in blind \/ got[p] = Worth(u)
    BY <1>1, <1>2, ReadIsWorth DEF Crediting
  <1>5. /\ rows' = rows \cup {u} /\ balance' = [balance EXCEPT ![u] = got[p] + Usd[t]]
        /\ credits' = [credits EXCEPT ![t] = @ + 1]
    BY <1>2 DEF WriteCredit
  <1>6. Worth(u)' = got[p] + Usd[t] /\ \A v \in Users : v # u => Worth(v)' = Worth(v)
    BY <1>1, <1>5 DEF TypeOK, Worth
  <1>7. Abs!Set(u, Worth(u) + Usd[t])
    BY <1>4, <1>6, AccountSet
  <1>8. Abs!Credit(t)
    BY <1>2, <1>3, <1>5, <1>7 DEF Abs!Credit, Abs!Known, Abs!bills
  <1> QED
    BY <1>8 DEF Abs!Next

\* deduct: the UPDATE takes the cost from the account, if there is a row.
LEMMA DeductIsAbstract ==
  ASSUME AInv, TypeOK', NEW r \in Requests, Charging(r), ~TooSmall(r), WriteDeduction(r),
         UNCHANGED <<rows, processed, credits, refused, blind>>
  PROVE  [Abs!Next]_(Abs!vars)
  <1> DEFINE u == Owner[r]
  <1>1. TypeOK /\ Decided(r) /\ r \in Tasks /\ UserOf(r) = u /\ u \in Users
    BY ConstantsAssumption DEF AInv, CInv, Inv, Tasks, UserOf
  <1>2. cost[r] \in Costs /\ r \notin charged \cup refused
    BY <1>1 DEF Decided, Charging
  <1>3. got[r] \in Nat /\ cost[r] \in Nat /\ cost[r] <= got[r]
    BY <1>1, ConstantsAssumption DEF TypeOK, TooSmall, Tasks
  <1>4. u \in blind \/ got[r] = Worth(u)
    BY <1>1, ReadIsWorth DEF Charging
  <1>5. CASE u \in rows
    <2>1. balance' = [balance EXCEPT ![u] = got[r] - cost[r]] /\ charged' = charged \cup {r}
      BY <1>5 DEF WriteDeduction, ChargeBase
    <2>2. Worth(u)' = got[r] - cost[r] /\ \A v \in Users : v # u => Worth(v)' = Worth(v)
      BY <1>1, <1>5, <2>1 DEF TypeOK, Worth
    <2>3. Abs!Set(u, Worth(u) - cost[r])
      BY <1>1, <1>4, <2>2, AccountSet
    <2>4. Abs!Charge(r, cost[r])
      BY <1>1, <1>2, <1>3, <1>4, <2>1, <2>3 DEF Abs!Charge, Abs!Unbilled
    <2> QED
      BY <1>2, <2>4 DEF Abs!Next
  <1>6. CASE u \notin rows
    <2>1. UNCHANGED <<balance, charged>>
      BY <1>6 DEF WriteDeduction
    <2>2. \A v \in Users : Worth(v)' = Worth(v)
      BY <2>1 DEF Worth
    <2> QED
      BY <2>1, <2>2, AbsRests
  <1> QED
    BY <1>5, <1>6

\* Every step of the ledger is a step of the abstract one, or none.
LEMMA StepIsAbstract ==
  ASSUME AInv, TypeOK', [Next]_vars
  PROVE  [Abs!Next]_(Abs!vars)
  <1> DEFINE Goal == [Abs!Next]_(Abs!vars)
  <1> USE ConstantsAssumption DEF table, control, request, wallet, history
  <1>0. /\ TypeOK /\ \A k \in Tasks : Knows(k)
        /\ \A p \in Processes : AtTx(p)
        /\ \A r \in Requests : Decided(r)
    BY DEF AInv, CInv, Inv
  <1>1. ASSUME UNCHANGED <<rows, balance, processed, credits, charged, refused, blind>>
        PROVE  Goal
    <2>1. \A u \in Users : Worth(u)' = Worth(u)
      BY <1>1 DEF Worth
    <2> QED
      BY <1>1, <2>1, AbsRests
  <1>2. ASSUME NEW k \in Tasks, BalanceFound(k) \/ BalanceMissing(k) \/ DefaultNotCreated(k)
        PROVE  Goal
    BY <1>1, <1>2 DEF BalanceFound, BalanceMissing, DefaultNotCreated
  <1>3. ASSUME NEW k \in Tasks, BalanceUnread(k)
        PROVE  Goal
    <2>1. UserOf(k) \in Users
      BY <1>0, <1>3, UserOfType DEF AInv, CInv, BalanceUnread
    <2>2. \A u \in Users : Worth(u)' = Worth(u)
      BY <1>3 DEF BalanceUnread, Worth
    <2>3. Abs!Misread(UserOf(k))
      BY <1>3, <2>2 DEF BalanceUnread, Abs!Misread, Abs!money, Abs!bills
    <2> QED
      BY <2>1, <2>3 DEF Abs!Next
  <1>4. ASSUME NEW k \in Tasks, DefaultCreated(k)
        PROVE  Goal
    <2>1. /\ UserOf(k) \notin rows /\ rows' = rows \cup {UserOf(k)}
          /\ balance' = [balance EXCEPT ![UserOf(k)] = DEFAULT]
          /\ UNCHANGED <<processed, credits, charged, refused, blind>>
      BY <1>0, <1>4 DEF DefaultCreated, Knows
    <2>2. \A u \in Users : Worth(u)' = Worth(u)
      BY <1>0, <2>1 DEF TypeOK, Worth
    <2> QED
      BY <2>1, <2>2, AbsRests
  <1>5. ASSUME NEW r \in Requests,
               StartRequest(r) \/ Admit(r) \/ Served(r) \/ ServeCrashed(r) \/ Reply(r)
        PROVE  Goal
    BY <1>1, <1>5 DEF StartRequest, Admit, Served, ServeCrashed, Reply
  <1>6. ASSUME NEW r \in Requests, DeductRefused(r)
        PROVE  Goal
    <2>1. r \in Tasks /\ UserOf(r) = Owner[r] /\ pc[r] = "got" /\ purpose[r] = "charge"
      BY <1>6 DEF DeductRefused, Charging, Tasks, UserOf
    <2>2. Owner[r] \in blind \/ got[r] = Worth(Owner[r])
      BY <2>1, ReadIsWorth
    <2>3. got[r] \in Nat /\ cost[r] \in Nat /\ cost[r] > got[r]
      BY <1>0, <1>6, <2>1 DEF DeductRefused, TooSmall, TypeOK
    <2>4. cost[r] \in Costs /\ r \notin charged \cup refused
      BY <1>0, <2>1 DEF Decided
    <2>5. /\ UNCHANGED <<rows, balance, processed, credits, charged, blind>>
          /\ refused' = refused \cup {r}
      BY <1>6 DEF DeductRefused
    <2>6. \A u \in Users : Worth(u)' = Worth(u)
      BY <2>5 DEF Worth
    <2>7. Abs!Refuse(r, cost[r])
      BY <2>2, <2>3, <2>4, <2>5, <2>6 DEF Abs!Refuse, Abs!Unbilled, Abs!money
    <2> QED
      BY <2>4, <2>7 DEF Abs!Next
  <1>7. ASSUME NEW r \in Requests, Deduct(r) \/ DeductFails(r)
        PROVE  Goal
    BY <1>1, <1>7, DeductIsAbstract DEF Deduct, DeductFails
  <1>8. ASSUME NEW p \in Processes,
               \/ Poll(p) \/ Priced(p) \/ Notify(p) \/ MarkFails(p) \/ Crash(p)
               \/ \E t \in Txs : SkipProcessed(p, t) \/ TakePayment(p, t)
        PROVE  Goal
    BY <1>1, <1>8 DEF Poll, Priced, Notify, MarkFails, Crash, SkipProcessed, TakePayment
  <1>9. ASSUME NEW p \in Processes, Credit(p) \/ CreditFails(p)
        PROVE  Goal
    BY <1>1, <1>9, CreditIsAbstract DEF Credit, CreditFails
  <1>10. ASSUME NEW p \in Processes, MarkProcessed(p)
         PROVE  Goal
    <2>1. tx[p] \in Txs /\ (Payer[tx[p]] \in Users => credits[tx[p]] > 0)
      BY <1>0, <1>10 DEF TypeOK, AtTx, MarkProcessed
    <2>2. \A u \in Users : Worth(u)' = Worth(u)
      BY <1>10 DEF MarkProcessed, Worth
    <2>3. Abs!Settle(tx[p])
      BY <1>10, <2>1, <2>2 DEF MarkProcessed, Abs!Settle, Abs!Known, Abs!bills
    <2> QED
      BY <2>1, <2>3 DEF Abs!Next
  <1>11. ASSUME NEW t \in Txs, PaymentArrives(t)
         PROVE  Goal
    BY <1>1, <1>11 DEF PaymentArrives
  <1>12. CASE UNCHANGED vars
    BY <1>1, <1>12 DEF vars
  <1> QED
    BY <1>2, <1>3, <1>4, <1>5, <1>6, <1>7, <1>8, <1>9, <1>10, <1>11, <1>12
    DEF Next, Fault, GetBalanceStep, RequestStep, WalletStep

(***************************************************************************)
(* In one process the ledger implements LedgerAbs: balances change as if   *)
(* credit and deduct were atomic, a payment adds nothing once it is marked *)
(* and a request is charged or refused once, for any users, payments,      *)
(* requests and faults.                                                    *)
(***************************************************************************)
THEOREM ImplementsAbsAlways ==
  ASSUME OneProcess
  PROVE  Spec => ImplementsAbs
  <1>1. AInv /\ [Next]_vars => AInv' /\ [Abs!Next]_(Abs!vars)
    <2> SUFFICES ASSUME AInv, [Next]_vars PROVE AInv' /\ [Abs!Next]_(Abs!vars)
      OBVIOUS
    <2>1. CInv' /\ TypeOK'
      BY NextCInv DEF AInv, CInv, Inv
    <2>2. CreditsCounted' /\ CreditsBounded'
      BY NextDInv DEF AInv, CInv, DInv
    <2> QED
      BY <2>1, <2>2, NextDecided, StepIsAbstract DEF AInv
  <1> QED
    BY <1>1, InitAbstract, PTL DEF Spec, ImplementsAbs, Abs!Spec
=============================================================================
