---------------------------- MODULE MCUpdateQueue ---------------------------
(***************************************************************************)
(* UpdateQueue on small instances.  MCOverlap: two consumers at once, as   *)
(* when a new HF Space container starts before the old one has stopped.    *)
(* MCOne: the single consumer of the deployment, with more rows than one   *)
(* batch takes.                                                            *)
(***************************************************************************)
EXTENDS UpdateQueue

CONSTANTS c1, c2, u1, u2, u3

MCOverlap == {c1, c2}
MCOne     == {c1}
MCTwoUpdates   == {u1, u2}
MCThreeUpdates == {u1, u2, u3}
=============================================================================
