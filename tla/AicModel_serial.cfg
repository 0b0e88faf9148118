SPECIFICATION FairSerialSpec
CONSTANTS
  Goal = {g1, g2}
  NoGoal = NoGoal
INVARIANT HandleNamesRunningGoal
INVARIANT SucceededAfterOwnPolicy
PROPERTY GoalsEnd
CHECK_DEADLOCK FALSE
