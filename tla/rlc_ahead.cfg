SPECIFICATION Spec
CONSTANTS
  MOD = 8
  Window = 2
  PollPdu = 1
  QueueLen = 2
  Discards = {}
  MinPdu = 1
  MaxPdu = 1
  InFlight = 2
  MaxLoss = 1
  MaxRetx = 1
  SduLen <- Lengths
INVARIANT
  StaysInWindow
