SPECIFICATION ServicesSpec
CONSTANTS
  OffLimitModels <- MCOffLimitModels
  Spawned = {"cable_0", "task_board"}
  Collisions = 2
  UpdatePeriod = 2
  MaxEntities = 3
  Cables = 2
  Ports = {"sfp_port_0"}
  Joints = {"shoulder_pan_joint", "elbow_joint"}
  Unknown = {"elbow"}
  MaxRequests = 3
  Cameras = 3
  SampleTopics = {"/fts_broadcaster/wrench"}
  DequeMaxLength = 2
  MaxTime = 3
  MaxWait = 1
  Topics <- MCTopics
  NTrials = 2
  MAX_RETRIES = 2
  KeepLast = 1
  MaxPending = 0
  Messages <- MCMessages
  MaxBag = 4
  Copies = 3
  Entrance = 15
  PlugPoses <- MCPlugPoses
  StartDistances = {0, 100}
  Durations = {3000, 30000}
  Jerks = {10}
INVARIANT PenaltyIsDeserved
PROPERTY NothingLeftBehind
PROPERTY ReleasedIsInserted
PROPERTY RequestsAreServed
INVARIANT ObservationIsOfOneInstant
INVARIANT OwnRecording
PROPERTY RecorderImplementsTrialRecording
INVARIANT CopiesHarmless
INVARIANT PointsAreMonotone
CHECK_DEADLOCK FALSE
