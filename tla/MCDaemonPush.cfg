CONSTANTS
  a = a
  b = b
  big = big
  empty = empty
  h1 = h1
  m1 = m1
  Bodies = {a, b, empty, big}
  Empty = empty
  Big = {big}
  Offers <- PushOffers
  Targets = {m1}
  NoTarget = NoTarget
  NoItem = NoItem
  NoData = NoData
  MaxSeen = 1
  OutCap = 1
  Loop = Loop
  Handlers = {h1}
  MaxCopies = 2
  MaxEdits = 1
  MaxMisses = 1
  MaxRequests = 0
  MaxChanges = 1
  MaxRestarts = 1
SPECIFICATION Spec
CHECK_DEADLOCK FALSE
SYMMETRY Interchangeable
INVARIANTS TypeOK NoRepeat LastSentWasAcked PushesInCopyOrder StaleBound
PROPERTY ImplementsOutbox
