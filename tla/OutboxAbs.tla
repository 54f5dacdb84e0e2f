------------------------------ MODULE OutboxAbs ------------------------------
(***************************************************************************)
(* What the outbox promises about a reply.  Each of its rows is written    *)
(* once, a second one only after a lost answer; Telegram can accept a row  *)
(* only while it is in hand; a row counts as sent only when Telegram       *)
(* accepted it, and nothing happens to it afterwards; and every copy the   *)
(* user gets beyond the first is owed to an answer that was lost before.   *)
(* A row that a fault leaves in 'processing' is stuck.                     *)
(***************************************************************************)
EXTENDS Naturals

CONSTANTS Messages,   \* replies
          Requests    \* INSERT requests a reply may take, one row each

Rows == Messages \X Requests

VARIABLES life,       \* the stage of each row
          accepted,   \* how often Telegram accepted each reply
          lost        \* answers lost on the way of each reply

vars == <<life, accepted, lost>>

Init == /\ life = [r \in Rows |-> "none"]
        /\ accepted = [m \in Messages |-> 0]
        /\ lost = [m \in Messages |-> 0]

Becomes(r, stage) == life' = [life EXCEPT ![r] = stage]
AllBecome(rows, stage) == life' = [r \in Rows |-> IF r \in rows THEN stage ELSE life[r]]
CountOne(f, m) == [f EXCEPT ![m] = @ + 1]

Written(m) == \E i \in Requests : life[<<m, i>>] # "none"

\* HF may or may not learn that the row was written.
Write(m, i) == /\ life[<<m, i>>] = "none"
               /\ Written(m) => lost[m] > 0
               /\ Becomes(<<m, i>>, "waiting")
               /\ lost' \in {lost, CountOne(lost, m)}
               /\ UNCHANGED accepted

Take(rows) == /\ \A r \in rows : life[r] = "waiting"
              /\ AllBecome(rows, "held")
              /\ UNCHANGED <<accepted, lost>>

\* A copy goes out.  It is the last one unless an answer is lost.
Deliver(m, i) == /\ life[<<m, i>>] = "held"
                 /\ accepted[m] <= lost[m]
                 /\ accepted' = CountOne(accepted, m)
                 /\ \/ lost' = lost /\ \E s \in {"sent", "stuck"} : Becomes(<<m, i>>, s)
                    \/ /\ lost' = CountOne(lost, m)
                       /\ \E s \in {"waiting", "failed", "stuck"} : Becomes(<<m, i>>, s)

Reject(r) == /\ life[r] = "held"
             /\ \E s \in {"waiting", "failed", "stuck"} : Becomes(r, s)
             /\ UNCHANGED <<accepted, lost>>

Strand(rows) == /\ \A r \in rows : life[r] \in {"waiting", "held"}
                /\ AllBecome(rows, "stuck")
                /\ UNCHANGED <<accepted, lost>>

Next == \/ \E m \in Messages, i \in Requests : Write(m, i) \/ Deliver(m, i) \/ Reject(<<m, i>>)
        \/ \E rows \in SUBSET Rows : Take(rows) \/ Strand(rows)

Spec == Init /\ [][Next]_vars
=============================================================================
