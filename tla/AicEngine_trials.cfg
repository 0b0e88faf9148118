SPECIFICATION Spec
CONSTANTS
  NTrials = 2
  NTasks = 1
  MAX_RETRIES = 1
  MaxLate = 1
  Cables <- OneCable
INVARIANT CleanFinish
PROPERTY ImplementsTrialProgress
CHECK_DEADLOCK FALSE
PROPERTY ImplementsTrialRecording
