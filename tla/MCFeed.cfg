SPECIFICATION FeedSpec
CONSTANTS
  r1 = r1
  r2 = r2
  r3 = r3
  r4 = r4
  cards = cards
  deposits = deposits
  Rows = {r1, r2, r3, r4}
  Tables = {cards, deposits}
  TableOf <- MCTableOf
  PageSize = 1
  LastTime = 4
  MaxFailures = 1
SYMMETRY MCSymmetry
INVARIANTS PagesInOrder EverythingShown NoEmptyPage
CHECK_DEADLOCK FALSE
