SPECIFICATION FairSpec
CONSTANTS
  Window = 3
  AnswersAgain = FALSE
  MaxGen = 2
  MaxReq = 2
  MaxSetup = 2
  MaxInd = 1
INVARIANTS
  TypeOK
  IndicationsAreSubscribed
  AnswersAreOpen
  SetupIsSupervised
  NoAssertionFails
PROPERTIES
  RequestsHandled
  SetsUp
\* The bounds end every behaviour, and so does a failed assertion.
CHECK_DEADLOCK FALSE
