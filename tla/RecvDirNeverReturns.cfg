CONSTANTS
  t1 = t1
  t2 = t2
  plain = plain
  suffixed = suffixed
  box1 = box1
  None = None
  Threads = {t1}
  Names = {plain, suffixed}
  Paths <- MCPaths
  Cand <- MCCand
  MaxTry = 3
  Unstatable <- MCTooLong
  Old = {}
  Containers = {box1}
  Blocks = 2
  MaxJobs = 2
  MaxChanges = 0
  MaxRestarts = 0
SPECIFICATION FairSpec
CHECK_DEADLOCK FALSE
PROPERTY ReceiveReturns
