CONSTANTS
  t1 = t1
  t2 = t2
  plain = plain
  suffixed = suffixed
  box1 = box1
  None = None
  Threads = {t1, t2}
  Names = {plain, suffixed}
  Paths <- MCPaths
  Cand <- MCCand
  MaxTry = 3
  Unstatable = {}
  Old <- MCFirst
  Containers = {box1}
  Blocks = 2
  MaxJobs = 2
  MaxChanges = 1
  MaxRestarts = 1
SPECIFICATION FairSpec
CHECK_DEADLOCK FALSE
INVARIANTS TypeOK UnracedIntact ContainerCopiesWhole FirstFreeName
PROPERTY SavesEnd
