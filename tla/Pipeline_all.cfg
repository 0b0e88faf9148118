SPECIFICATION PipelineSpec
CONSTANTS
  Modes <- MCModes
  Tasks = 2
  Missing = {2}
  MaxFaults = 2
  World <- MCWorld
  BaseFrame = "base_link"
  Aliases = {"world", "aic_world"}
  Entrances = {"sc_entrance", "sfp_entrance"}
  TfLinks <- MCTfLinks
  ScoringLinks <- MCScoringLinks
  FrameOptions = {"", "sfp_entrance"}
  MaxFrames = 5
  Strides = {1, 2}
  Lags = {0, 1}
  MinRun = 2
  StallSpan = 2
  StallLookback = 1
  MinKept = 3
  FallbackFrames = 2
  BagTicks = 5
  CmdMargin = 1
  MaxDt = 1
  Neighbours <- MCNeighbours
  Lookback = 1
  MinFrames = 2
  TrimMargin = 1
  RampFrames = 2
  WMax = 5
  Trainers = {"v3", "w1"}
  Conditions = 3
  Epochs = 3
  EvalEvery = 2
  Errors = {1, 2, 3}
  Trials = 4
  MinEpochs = 1
  MaxEpochs = 5
  Eta = 2
  Scores = {1, 2, 3}
  DefaultReps = 1
  Overrides <- MCOverrides
  Stratified = 5
  RunLimits = {1, 2}
  Grades <- MCGrades
INVARIANT KeptIsWhole
INVARIANT LabelsAreTrue
PROPERTY CampaignEnds
PROPERTY PortIsTrue
INVARIANT OfflineSeesTheStall
INVARIANT DemoEndsAtSeat
INVARIANT CheckpointIsTrained
INVARIANT HalvingIsFair
INVARIANT SuiteIsFair
CHECK_DEADLOCK FALSE
