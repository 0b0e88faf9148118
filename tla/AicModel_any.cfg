SPECIFICATION Spec
CONSTANTS
  Goal = {g1, g2}
  NoGoal = NoGoal
SYMMETRY GoalSymmetry
INVARIANT AnswerAgreesWithStatus
CHECK_DEADLOCK FALSE
