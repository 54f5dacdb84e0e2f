------------------------------ MODULE MCLedger ------------------------------
(***************************************************************************)
(* Ledger on small instances: one user with two messages in flight, a      *)
(* payment of this user and one whose comment names nobody.                *)
(***************************************************************************)
EXTENDS Ledger, TLC

CONSTANTS alice, r1, r2, t1, t2, p1

MCUsers     == {alice}
MCRequests  == {r1, r2}
MCOwner     == [r \in {r1, r2} |-> alice]
MCTxs       == {t1, t2}
MCPayer     == t1 :> alice @@ t2 :> Nobody
MCUsd       == t1 :> 1 @@ t2 :> 1
MCProcesses == {p1}
MCCosts     == {0, 1, 2}
MCNoRequests == {}
MCNoOwner    == [r \in {} |-> alice]
=============================================================================
