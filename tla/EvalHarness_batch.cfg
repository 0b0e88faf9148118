SPECIFICATION FairSpec
CONSTANTS
  Starts = 2
  Queue <- TwoRuns
  Members = 1
  Slots = 2
  MaxFaults = 1
  ZENOH = 1
  READY = 3
  POLL = 1
  SCORING_WAIT = 4
  LINGER = 1
  MARGIN = 4
INVARIANT OneSimulator
INVARIANT RowsAreOwn
INVARIANT SkippedIsReported
PROPERTY TimeoutAfterPoll
PROPERTY BatchEnds
PROPERTY ImplementsEvalQueue
CHECK_DEADLOCK FALSE
