SPECIFICATION SerialSpec
CONSTANTS
  Goal = {g1, g2}
  NoGoal = NoGoal
INVARIANT SuccessIsOwnPolicys
CHECK_DEADLOCK FALSE
