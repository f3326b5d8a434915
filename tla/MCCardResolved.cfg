SPECIFICATION FairSpec
CONSTANTS
  a1 = a1
  a2 = a2
  Redacted = Redacted
  Auths = {a1, a2}
  Deliveries = {d1}
  Amount <- TwoEach
  Abroad = {a2}
  Rates <- TwoRates
  Cleared <- TwoEach
  Openings = {7}
  PerTxLimit = 2
  DailyLimit = 3
  CardChanges <- NoCardChanges
  StoredToken <- TokenKept
  FaultKinds = {"forgotten"}
  MaxFaults = 1
INVARIANT HeldIsOutstanding
PROPERTY HoldsResolved
CHECK_DEADLOCK FALSE
