SPECIFICATION Spec
CONSTANTS
  MOD = 4
  Window = 2
  PollPdu = 1
  QueueLen = 2
  Discards = {2}
  MinPdu = 0
  MaxPdu = 2
  InFlight = 2
  MaxLoss = 1
  MaxRetx = 1
  SduLen <- Lengths
CONSTRAINT NotAhead
INVARIANTS
  TypeOK
  MissingIsKept
  NoProtocolFailure
PROPERTIES
  ImplementsService
