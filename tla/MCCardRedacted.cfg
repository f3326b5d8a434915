SPECIFICATION FairSpec
CONSTANTS
  a1 = a1
  a2 = a2
  Redacted = Redacted
  Auths = {a1}
  Deliveries = {d1}
  Amount <- TwoEach
  Abroad = {}
  Rates <- OneRate
  Cleared <- TwoEach
  Openings = {3}
  PerTxLimit = 0
  DailyLimit = 0
  CardChanges <- NoCardChanges
  StoredToken <- TokenRedacted
  FaultKinds = {}
  MaxFaults = 0
PROPERTY HoldsResolved
CHECK_DEADLOCK FALSE
