------------------------------ MODULE MCSession ------------------------------
(***************************************************************************)
(* Three messages and a /clear of one user, two to a batch; two requests   *)
(* in two units of time, three turns of history; one payment, one fault.   *)
(***************************************************************************)
EXTENDS Session

MCKinds == <<"message", "message", "clear", "message">>
=============================================================================
