CONSTANTS
  a = a
  b = b
  Data <- MCData
  Items <- MCItems
  Boards <- MCBoards
  NoItem = NoItem
  OutCap = 1
  MaxChanges = 5
  MaxFailures = 2
SPECIFICATION FairSpec
CHECK_DEADLOCK FALSE
INVARIANTS TypeOK NoLostChange
PROPERTIES FeedSpec CatchesUp
