CONSTANTS
  Nodes = {n1, n2}
  Apps = {x1}
  FirstId = 2
  IdMod = 100
  Departures = {}
  MaxEpoch = 1
  MaxSetup = 2
  MaxReq = 2
  MaxInd = 1
SPECIFICATION FairSpec
INVARIANTS
  OnlyRepeatedSetupsAbort
PROPERTIES
  RequestsAnswered
\* The bounds end every behaviour, and so does a failed assertion.
CHECK_DEADLOCK FALSE
