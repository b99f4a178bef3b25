SPECIFICATION FairSpec
CONSTANTS
  MOD = 4
  NofSdus = 3
  Starts = {1}
  QueueLen = 2
  Buffer = 2
  Timeouts = {FALSE}
  MaxFaults = 1
PROPERTIES
  UnackedAreRetransmitted
