\* One batch with a budget of one duplicate.
SPECIFICATION PipelineSpec
CONSTANTS
  PipeChunks = 4
  PipeBatch = 4
  PipeData = 4
  PipeParity = 2
  PipeRoom = 1
  PipeNacks = 1
  PipeTwice = 1
  DupBudget = 1
  SpecLimit = 2
  Burst = 1
  MaxUnsent = 2
INVARIANT
  DuplicatesCapped
CHECK_DEADLOCK FALSE
