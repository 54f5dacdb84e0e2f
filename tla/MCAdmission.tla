----------------------------- MODULE MCAdmission ----------------------------
(***************************************************************************)
(* Admission at the token counts around which its decisions change: the    *)
(* 300 tokens of the FAST estimate, the output caps, the counts whose      *)
(* estimate crosses a threshold, and the 32000 of the long context.        *)
(***************************************************************************)
EXTENDS Admission

MCInputTokens ==
  {1, 32, 266, 267, 299, 300, 426, 427, 444, 445, 666, 667,
   5925, 5926, 5927, 12592, 12593, 12594, 32000, 32001, 40000}
MCEmbeddingTokens == {0, 75, 512}
MCRerankTokens == {0, 500, 8000, 8258, 8259, 10750}
MCBalances == {0, 44240, 150000, 1000000, 2000000, 3000000, 6000000, 10000000, 100000000}
=============================================================================
