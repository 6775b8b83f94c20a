SPECIFICATION FairSpec
CONSTANTS
  MaxSent = 6
  MaxNotices = 2
  MaxRequests = 1
INVARIANTS TypeOK ShownInOrder NeverStale
PROPERTIES AnswerReturns DrawsWholeShots
CHECK_DEADLOCK FALSE
