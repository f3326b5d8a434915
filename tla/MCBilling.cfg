SPECIFICATION Spec
CONSTANTS
  Users = {u1}
  NoUser = NoUser
  Price <- MCPrice
  DunningDays = 2
  MonthLength = 4
  LastDay = 8
  MaxBalance = 2
  MaxFaults = 2
PROPERTIES GraceRespected PassSettles
CHECK_DEADLOCK FALSE
