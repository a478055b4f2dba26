CONSTANTS
  a = a
  b = b
  huge = huge
  A = A
  B = B
  Machines <- MCMachines
  Users <- MCUsers
  Contents <- MCContents
  Big <- MCBig
  Copied <- MCCopied
  Uploads <- MCUploads
  Hosts <- MCHosts
  Peers <- MCPeers
  NoHash = NoHash
  OutCap = 1
  NoPush = NoPush
  NoAsk = NoAsk
  MaxCalls = 3
  MaxUploads = 1
  MaxRestarts = 1
SPECIFICATION FairSpec
CHECK_DEADLOCK FALSE
INVARIANTS TypeOK ArrivalOrder RepeatsUnanswered
PROPERTIES ImplementsOutboxes ImplementsDelivery CallsEnd
