SPECIFICATION Spec
CONSTANTS
  phone = phone
  laptop = laptop
  t1 = t1
  t2 = t2
  t3 = t3
  c1 = c1
  c2 = c2
  Devices = {phone, laptop}
  Tokens = {t1, t2, t3}
  Calls = {c1, c2}
  NoToken = NoToken
  MaxRequests = 5
  MaxFaults = 1
SYMMETRY Symmetry
INVARIANTS FrozenStaysOut OldPasswordEnds HonestIsNoThief
PROPERTIES TokenBuysOnce
CHECK_DEADLOCK FALSE
