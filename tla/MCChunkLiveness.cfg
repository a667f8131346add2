SPECIFICATION FairSpec
CONSTANTS
  Size = 3
  Zero = {}
  ChunkSizes = {1}
  ResumeModes = {FALSE}
  DataShards = 2
  ParityShards = 1
  BatchSize = 2
  FeedbackEvery = 1
  NackLimit = 2
  SaveEvery = 2
  Headroom = 0
  MaxParallel = 1
  FrameClass = "window"
  RequireFinalAck = TRUE
  VerifyChecksums = TRUE
  MaxDuplicates = 2
  MaxAttempts = 1
CHECK_DEADLOCK FALSE
INVARIANT CancelledIsReceived
PROPERTY AttemptEnds
