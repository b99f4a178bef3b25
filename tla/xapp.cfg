\* One calling thread, as in the repository's xApps.
CONSTANTS
  UIs = {u1}
  MaxProc = 2
  MaxSetup = 2
  MaxInd = 1
SPECIFICATION PeerSpec
INVARIANTS
  TypeOK
  AnswersMatchCalls
  ReturnedReportsAreSubscribed
  IndicationsFindReports
  OutstandingIsSupervised
  TimeoutMeansOutstanding
  ProceduresMatch
  OneCallerInv
PROPERTIES
  ImplementsService
  CallsEnd
  SetupEnds
