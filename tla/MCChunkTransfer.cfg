SPECIFICATION Spec
CONSTANTS
  Size = 3
  Zero = {}
  ChunkSizes = {1, 2}
  ResumeModes = {TRUE, FALSE}
  DataShards = 2
  ParityShards = 1
  BatchSize = 2
  FeedbackEvery = 1
  NackLimit = 2
  SaveEvery = 2
  Headroom = 0
  MaxParallel = 1
  FrameClass = "datagram"
  RequireFinalAck = TRUE
  VerifyChecksums = TRUE
  MaxDuplicates = 0
  MaxAttempts = 2
CHECK_DEADLOCK FALSE
INVARIANTS TransferTypeOK FreshIsNeverRejected DeliveredIsStored
PROPERTY CopyIsAtomic
