SPECIFICATION FairSpec
CONSTANTS
  Capacity = 2
  MaxTimers = 3
  Wheel = 2
  Tics = 4
  Durations = {1, 3}
  Plain = {0}
  End = End
INVARIANTS
  TypeOK
  WheelHoldsRunning
  FreeListExact
PROPERTIES
  ImplementsService
  CallbackSeesExpired
