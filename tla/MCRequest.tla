------------------------------ MODULE MCRequest ------------------------------
(***************************************************************************)
(* One request of each kind, one call of which may fail.  The token counts *)
(* are one for each way through the kernel, the shaper and the             *)
(* long-context transformer; the balances pay nothing, a FAST answer only, *)
(* or anything.                                                            *)
(***************************************************************************)
EXTENDS Request

Sent(kind, attached, caption, photos, balance) ==
  [kind |-> kind, attached |-> attached, caption |-> caption, photos |-> photos,
   balance |-> balance]

Rich == 1000000000

MCUpdates ==
  {Sent("text", FALSE, FALSE, 0, balance) : balance \in {0, 1500000, Rich}} \cup
  {Sent("voice", TRUE, FALSE, 0, Rich), Sent("voice", FALSE, FALSE, 0, 1500000)} \cup
  {Sent("photo", TRUE, FALSE, 0, 0), Sent("photo", TRUE, TRUE, 0, Rich),
   Sent("photo", FALSE, FALSE, 0, Rich)} \cup
  {Sent("album", FALSE, TRUE, photos, Rich) : photos \in {1, 2, 7}}

MCIntents == {"EXAM"}
MCSizes == {<<"LOW", 100>>, <<"LOW", 1000>>, <<"LOW", 6500>>,
            <<"CRITICAL", 1000>>, <<"CRITICAL", 3000>>, <<"CRITICAL", 33000>>}
=============================================================================
