SPECIFICATION FairSpec
CONSTANTS
  MOD = 8
  Window = 4
  PollPdu = 1
  QueueLen = 1
  Discards = {}
  MinPdu = 1
  MaxPdu = 2
  InFlight = 1
  MaxLoss = 1
  MaxRetx = 1
  SduLen <- Lengths
PROPERTIES
  EverythingDelivered
