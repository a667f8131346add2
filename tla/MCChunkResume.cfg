SPECIFICATION Spec
CONSTANTS
  Size = 3
  Zero = {}
  ChunkSizes = {1}
  ResumeModes = {TRUE}
  DataShards = 2
  ParityShards = 1
  BatchSize = 2
  FeedbackEvery = 2
  NackLimit = 2
  SaveEvery = 2
  Headroom = 0
  MaxParallel = 1
  FrameClass = "window"
  RequireFinalAck = TRUE
  VerifyChecksums = TRUE
  MaxDuplicates = 0
  MaxAttempts = 2
CHECK_DEADLOCK FALSE
INVARIANTS NoMutualWait

