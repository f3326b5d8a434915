SPECIFICATION FairSpec
CONSTANTS
  Events = {2, 3}
  Workers = {w1}
  Job = job
  NoEvent = NoEvent
  Calls = {c1}
  Nameless = {3}
  MaxSubmits = 2
  MaxAttempts = 2
  MaxReplays = 1
  MaxFaults = 2
INVARIANTS AttemptsBounded ProcessedReachedRow
PROPERTIES EventsSettle
CHECK_DEADLOCK FALSE
