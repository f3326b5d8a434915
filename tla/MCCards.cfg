SPECIFICATION Spec
CONSTANTS
  k1 = k1
  k2 = k2
  c1 = c1
  c2 = c2
  Keys = {k1, k2}
  NoKey = NoKey
  KeyLimits <- MCKeyLimits
  Limits = {1, 2}
  Calls = {c1, c2}
  MaxCards = 1
  Funds = 2
  MaxRequests = 4
  MaxFaults = 2
INVARIANTS
  
  CeilingHeld
  FrozenStaysFrozen
  RowFollowsIssuer
  LimitInForce
SYMMETRY Slots
CHECK_DEADLOCK FALSE
