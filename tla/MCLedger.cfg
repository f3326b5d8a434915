SPECIFICATION Spec
CONSTANTS
  u1 = u1
  u2 = u2
  Users = {u1, u2}
  Calls = {c1, c2}
  Requests <- AllRequests
  MaxAttempts = 2
INVARIANTS
  TypeOK
  ZeroSum
  OverdraftBounded
  AnswerTruthful
PROPERTIES
  AppliedOnce
  FeeWithPosting
