SPECIFICATION OffLimitSpec
CONSTANTS
  OffLimitModels <- MCOffLimitModels
  Spawned = {"cable_0", "task_board"}
  Collisions = 2
  UpdatePeriod = 2
  MaxEntities = 4
INVARIANT EveryContactReported
CHECK_DEADLOCK FALSE
