CONSTANTS
  InputTokens <- MCInputTokens
  EmbeddingTokens <- MCEmbeddingTokens
  RerankTokens <- MCRerankTokens
  Balances <- MCBalances
SPECIFICATION Spec
INVARIANTS TypeOK AllowNeverHeavy AdmittedCanPay EstimateMonotone
\* A request that is denied or executed is over.
CHECK_DEADLOCK FALSE
