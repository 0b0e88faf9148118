SPECIFICATION Spec
CONSTANTS
  NTrials = 1
  NTasks = 2
  MAX_RETRIES = 2
  MaxLate = 1
  Cables <- OneCable
INVARIANT CompletedTrialDidAllTasks
INVARIANT SceneAtGoal
PROPERTY RunEnds
CHECK_DEADLOCK FALSE
