CONSTANTS
  Clients = {c1, c2}
  desk = desk
  Names <- MCNames
  NoName = NoName
  NoClient = NoClient
  Absent = Absent
  Empty = Empty
  Torn = Torn
  InitialDisks <- MCBoth
  MaxStarts = 2
  MaxFailures = 1
  MaxFlips = 1
SPECIFICATION FairSpec
CHECK_DEADLOCK FALSE
INVARIANTS TypeOK LockLent FileWhole AnsweredHolds
PROPERTY HandlersEnd
