SPECIFICATION RecoverySpec
CONSTANTS
  t1 = t1
  t2 = t2
  Ids <- MCIds
  JobKind <- MCJobKind
  Clients = {c1, c2}
  Workers = {w1}
  RequestPriority = {12}
  MaxConcurrent = 2
  MaxCalls = 2
  MaxProgress = 1
  MaxFaults = 1
  MaxCrashes = 1
SYMMETRY Symmetry
INVARIANTS RecoveryTypeOK NoLostQueued AcceptedIsDurable CompletedIsTrue
