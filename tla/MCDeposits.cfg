SPECIFICATION FairSpec
CONSTANTS
  t1 = t1
  Transfers = {t1}
  Workers = {w1, w2}
  Amount <- ThreeEach
  Rates <- ThreeRates
  Required = 2
  MaxReorgs = 1
  MaxCrashes = 1
INVARIANTS
  ConfirmedIsCredited
  CreditExact
  ReversalExact
PROPERTIES
  DepositContractSpec
  MinedIsCredited
CHECK_DEADLOCK FALSE
