SPECIFICATION Spec
CONSTANTS
  Goal = {g1, g2, g3}
  NoGoal = NoGoal
SYMMETRY GoalSymmetry
PROPERTY NoGoalBeginsBesideAnActiveOne
CHECK_DEADLOCK FALSE
