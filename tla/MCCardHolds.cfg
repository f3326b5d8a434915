SPECIFICATION Spec
CONSTANTS
  a1 = a1
  a2 = a2
  Redacted = Redacted
  Auths = {a1}
  Deliveries = {d1, d2}
  Amount <- TwoEach
  Abroad = {}
  Rates <- TwoRates
  Cleared <- TwoEach
  Openings = {2, 3}
  PerTxLimit = 0
  DailyLimit = 0
  CardChanges <- AllCardChanges
  StoredToken <- TokenKept
  FaultKinds = {"read", "hold", "row", "record", "handler", "timeout", "forgotten", "lost", "outage", "crash", "replay", "malformed"}
  MaxFaults = 2
INVARIANTS
  TypeOK
  ApprovedHasHold
  HeldCovers
PROPERTY HoldContractSpec
CHECK_DEADLOCK FALSE
