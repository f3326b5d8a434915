SPECIFICATION FairSpec
CONSTANTS
  u1 = u1
  u2 = u2
  Users = {u1, u2}
  Requests <- CheckedRequests
  Calls = {c1, c2}
  MaxAttempts = 3
INVARIANT AvailableNonNegative
PROPERTIES
  SerialSpec
  CallsReturn
