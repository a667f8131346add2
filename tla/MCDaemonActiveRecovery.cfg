SPECIFICATION RecoverySpec
CONSTANTS
  t1 = t1
  t2 = t2
  Ids <- MCOneId
  JobKind <- MCOneJobKind
  Clients = {c1}
  Workers = {w1}
  RequestPriority = {0, 12}
  MaxConcurrent = 2
  MaxCalls = 2
  MaxProgress = 1
  MaxFaults = 0
  MaxCrashes = 1
SYMMETRY Symmetry
INVARIANTS ActiveRecoversQueued
