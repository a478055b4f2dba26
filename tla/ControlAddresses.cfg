CONSTANTS
  Clients = {c1}
  desk = desk
  Names <- MCNames
  NoName = NoName
  NoClient = NoClient
  Absent = Absent
  Empty = Empty
  Torn = Torn
  InitialDisks <- MCLater
  MaxStarts = 1
  MaxFailures = 0
  MaxFlips = 1
SPECIFICATION Spec
CHECK_DEADLOCK FALSE
INVARIANT AddressesAgree
