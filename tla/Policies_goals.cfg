SPECIFICATION PoliciesSpec
CONSTANTS
  Configs <- MCConfigs
  Ports <- MCPorts
  Policies <- MCPolicyNames
  Episodes = 2
  Reach = 1
  Axes = {0, 1}
  Budget = 6
  MinRuntime = 2
  StallWindow = 2
  AxisWindow = 2
  K = 3
  ExecSteps = 1
  AuxBuffer = 2
  AuxMinSamples = 2
  AuxMinMag = 1
  AuxMaxMag = 2
  AuxSpread = 1
  AuxMargin = 1
  AuxFixedTravel = 3
  TravelCap = 2
  SearchCap = 3
  SearchMaxSteps = 2
  SpecialistCap = 2
  SpecialistMaxSteps = 3
  MaxAim = 1
  Goals = 2
  StageZ = 4
  StageSteps = 2
  SfpDepth = 4
  ScDepth = 2
  RetractDepth = 3
  LearnDepth = 5
  Standoff = 3
  Coarse = 4
  LatOffset = 2
  CorrectAt = 1
  RowCounts = {2, 5, 6}
  Span = 6
  Lifts = {2, 4}
  LatMax = 2
  ChunkLen = 2
  ScriptBudget = 2
  LegSteps = 1
INVARIANT TravelCapped
INVARIANT EnsembleFresh
PROPERTY OneHandoff
PROPERTY DepthBounded
INVARIANT IntegratorFresh
PROPERTY LateralInBounds
CHECK_DEADLOCK FALSE
