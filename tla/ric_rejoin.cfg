CONSTANTS
  Nodes = {n1}
  Apps = {x1, x2}
  FirstId = 2
  IdMod = 100
  Departures = {"shutdown", "loss"}
  MaxEpoch = 2
  MaxSetup = 2
  MaxReq = 3
  MaxInd = 1
SPECIFICATION Spec
SYMMETRY Symmetry
INVARIANTS
  TypeOK
  AnswersReachAsker
  NoUnmappedAnswer
  InFlightIsSupervised
  AnswerFindsPendingEvent
  TablesAgree
\* The bounds end every behaviour, and so does a failed assertion.
CHECK_DEADLOCK FALSE
