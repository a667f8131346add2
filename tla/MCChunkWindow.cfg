SPECIFICATION Spec
CONSTANTS
  Size = 3
  Zero = {}
  ChunkSizes = {1}
  ResumeModes = {FALSE}
  DataShards = 4
  ParityShards = 1
  BatchSize = 1
  FeedbackEvery = 1
  NackLimit = 2
  SaveEvery = 2
  Headroom = 2
  MaxParallel = 2
  FrameClass = "large"
  RequireFinalAck = TRUE
  VerifyChecksums = TRUE
  MaxDuplicates = 0
  MaxAttempts = 1
CHECK_DEADLOCK FALSE
INVARIANTS NoMutualWait
