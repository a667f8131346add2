\* One transfer, submitted, cancelled and re-prioritised.
SPECIFICATION Spec
CONSTANTS
  t1 = t1
  t2 = t2
  Ids <- MCOneId
  Clients = {c1}
  Workers = {w1}
  RequestPriority = {0, 12}
  MaxConcurrent = 1
  JobKind <- MCOneJobKind
  MaxCalls = 3
INVARIANT ActiveHasWorker
