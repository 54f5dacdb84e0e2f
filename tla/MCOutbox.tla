------------------------------ MODULE MCOutbox ------------------------------
(***************************************************************************)
(* Outbox on a small instance: one reply whose Markdown Telegram rejects,  *)
(* and two drains that overlap.                                            *)
(***************************************************************************)
EXTENDS Outbox

CONSTANTS m1, d1, d2

MCOneMessage  == {m1}
MCBadMarkdown == {m1}
MCDrains      == {d1, d2}
=============================================================================
