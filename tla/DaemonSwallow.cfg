CONSTANTS
  a = a
  empty = empty
  h1 = h1
  m1 = m1
  Bodies = {a, empty}
  Empty = empty
  Big = {}
  Offers <- PushOffers
  Targets = {m1}
  NoTarget = NoTarget
  NoItem = NoItem
  NoData = NoData
  MaxSeen = 2
  OutCap = 2
  Loop = Loop
  Handlers = {h1}
  MaxCopies = 2
  MaxEdits = 0
  MaxMisses = 0
  MaxRequests = 2
  MaxChanges = 0
  MaxRestarts = 0
SPECIFICATION ClaimSpec
CHECK_DEADLOCK FALSE
PROPERTY SwallowsOnlyItsOwn
