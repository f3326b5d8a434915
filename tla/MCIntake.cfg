SPECIFICATION FairSpec
CONSTANTS
  tx = tx
  Events = {tx}
  Workers = {w1}
  Job = job
  NoEvent = NoEvent
  Users = {u1, u2}
  NoUser = NoUser
  Calls = {c1, c2}
  Transfers <- MCTransfers
  Small <- MCSmall
  Unnumbered <- MCUnnumbered
  MaxItems = 2
  PageSize = 3
  MaxAsks = 3
  MaxAttempts = 2
  MaxReplays = 0
  MaxFaults = 1
INVARIANTS MoneyGoesToPayee ProcessedIsRecorded
PROPERTIES TransfersFound
CHECK_DEADLOCK FALSE
