SPECIFICATION Spec
CONSTANTS
  NTrials = 1
  NTasks = 1
  MAX_RETRIES = 1
  MaxLate = 0
  Cables <- OneCable
INVARIANT SimulatorReadyHasBoard
CHECK_DEADLOCK FALSE
