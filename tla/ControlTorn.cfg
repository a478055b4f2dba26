CONSTANTS
  Clients = {c1, c2}
  desk = desk
  Names <- MCNames
  NoName = NoName
  NoClient = NoClient
  Absent = Absent
  Empty = Empty
  Torn = Torn
  InitialDisks <- MCLater
  MaxStarts = 2
  MaxFailures = 0
  MaxFlips = 0
SPECIFICATION Spec
CHECK_DEADLOCK FALSE
INVARIANT RestartReads
