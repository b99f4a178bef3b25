SPECIFICATION FairSpec
CONSTANTS
  MOD = 4
  NofSdus = 3
  Starts = {1, 2}
  QueueLen = 2
  Buffer = 2
  Timeouts = {TRUE, FALSE}
  MaxFaults = 1
INVARIANTS
  TypeOK
  DecipheredInOrder
PROPERTIES
  HandoverIsLossless
  EverythingArrives
