SPECIFICATION FairSpec
CONSTANTS
  MaxCalls = 2
  AuthPackets = 1
  Faults = {"drop", "bad"}
INVARIANTS TypeOK NilMeansDone AnswersMatch NoLeak
PROPERTIES CallReturns
CHECK_DEADLOCK FALSE
