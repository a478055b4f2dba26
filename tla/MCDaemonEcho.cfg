CONSTANTS
  a = a
  empty = empty
  h1 = h1
  h2 = h2
  m1 = m1
  Bodies = {a, empty}
  Empty = empty
  Big = {}
  Offers <- EchoOffers
  Targets = {m1}
  NoTarget = NoTarget
  NoItem = NoItem
  NoData = NoData
  MaxSeen = 1
  OutCap = 1
  Loop = Loop
  Handlers = {h1, h2}
  MaxCopies = 1
  MaxEdits = 0
  MaxMisses = 1
  MaxRequests = 2
  MaxChanges = 0
  MaxRestarts = 0
SPECIFICATION FairSpec
CHECK_DEADLOCK FALSE
INVARIANTS SeenBounded SwallowsOwed NoEcho PathNamesSavedFile
PROPERTY Settles
