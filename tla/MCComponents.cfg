\* The congestion controllers, the send pipeline, the reorder buffer, the
\* network probe and the daemon's files, one at a time.
SPECIFICATION PartsFairSpec
CONSTANTS
  Rates = {1, 4}
  Rtts = {1, 2}
  Gaps = {0, 1, 3}
  Mtus = {1, 2}
  InitialRtt = 2
  FilterWindow = 2
  ProbeTime = 1
  InitialPackets = 5
  BwRtts = 1
  BwMin = 1
  RoundMin = 1
  Segment = 2
  BwWindow = 1
  CycleWrap = 16
  PipeChunks = 6
  PipeBatch = 5
  PipeData = 4
  PipeParity = 2
  PipeRoom = 1
  PipeNacks = 1
  PipeTwice = 1
  DupBudget = 1
  SpecLimit = 2
  Burst = 1
  MaxUnsent = 2
  LastSeq = 3
  MaxSeen = 3
  ProbeCount = 3
  PairCount = 1
  FileTasks = {t1, t2}
  MaxLines = 2
INVARIANTS
  BbrTypeOK
  WindowFloor
  EstimateIsFresh
  PipelineTypeOK
  ReorderExact
  ProbeIsSound
  
PROPERTIES
  PhaseOrder
  GainsInTurn
  ProbeRttEnds
  PipelineFlushes
  FlushEnds
CHECK_DEADLOCK FALSE
