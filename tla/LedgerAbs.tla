------------------------------ MODULE LedgerAbs ------------------------------
(***************************************************************************)
(* What the money promises its users: one account each, which holds the    *)
(* default to begin with and changes in single steps only.  A payment of a *)
(* known user adds its worth, is settled only after it did, and adds       *)
(* nothing afterwards; a request takes its cost once, if the account       *)
(* covers it, or is refused once because it does not.  All bets are off    *)
(* for a user whose balance was once misread.                              *)
(***************************************************************************)
EXTENDS Naturals

CONSTANTS Users, Requests, Owner, Txs, Payer, Usd, Costs, DEFAULT   \* as in Ledger

VARIABLES account,   \* what each user has
          credits,   \* how often each payment was credited
          settled,   \* payments that are through
          charged,   \* requests that were paid
          refused,   \* requests that the account did not cover
          misread    \* users whose balance was once answered in error

money == <<account, credits, settled>>
bills == <<charged, refused>>
vars  == <<money, bills, misread>>

Init == /\ account = [u \in Users |-> DEFAULT]
        /\ credits = [t \in Txs |-> 0]
        /\ settled = {} /\ charged = {} /\ refused = {} /\ misread = {}

\* Only u's account changes, to the given amount unless u was misread.
Set(u, amount) == /\ account' \in [Users -> Nat]
                  /\ \A v \in Users \ {u} : account'[v] = account[v]
                  /\ u \in misread \/ account'[u] = amount

Known(t) == Payer[t] \in Users

Credit(t) == /\ Known(t)
             /\ t \notin settled
             /\ Set(Payer[t], account[Payer[t]] + Usd[t])
             /\ credits' = [credits EXCEPT ![t] = @ + 1]
             /\ UNCHANGED <<settled, bills, misread>>

Settle(t) == /\ Known(t) => credits[t] > 0
             /\ settled' = settled \cup {t}
             /\ UNCHANGED <<account, credits, bills, misread>>

Unbilled(r) == r \notin charged \cup refused

Charge(r, cost) == /\ Unbilled(r)
                   /\ Owner[r] \in misread \/ cost <= account[Owner[r]]
                   /\ Set(Owner[r], account[Owner[r]] - cost)
                   /\ charged' = charged \cup {r}
                   /\ UNCHANGED <<credits, settled, refused, misread>>

Refuse(r, cost) == /\ Unbilled(r)
                   /\ Owner[r] \in misread \/ cost > account[Owner[r]]
                   /\ refused' = refused \cup {r}
                   /\ UNCHANGED <<money, charged, misread>>

Misread(u) == /\ misread' = misread \cup {u}
              /\ UNCHANGED <<money, bills>>

Next == \/ \E t \in Txs : Credit(t) \/ Settle(t)
        \/ \E r \in Requests, cost \in Costs : Charge(r, cost) \/ Refuse(r, cost)
        \/ \E u \in Users : Misread(u)

Spec == Init /\ [][Next]_vars
=============================================================================
