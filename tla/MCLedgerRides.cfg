CONSTANTS
  alice = alice
  r1 = r1
  r2 = r2
  t1 = t1
  t2 = t2
  p1 = p1
  Nobody = Nobody
  Users <- MCUsers
  Requests <- MCRequests
  Owner <- MCOwner
  Txs <- MCTxs
  Payer <- MCPayer
  Usd <- MCUsd
  Processes <- MCProcesses
  Costs <- MCCosts
  Estimate = 1
  DEFAULT = 2
  WINDOW = 1
  MaxFaults = 0
SPECIFICATION Spec
INVARIANTS NoFreeRides
CHECK_DEADLOCK FALSE
