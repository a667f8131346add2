\* Two transfers, a copy and a receive job; two calls in flight, two permits and
\* a worker slot to spare; no symmetry, for liveness.
SPECIFICATION FairSpec
CONSTANTS
  t1 = t1
  t2 = t2
  Ids <- MCIds
  Clients = {c1, c2}
  Workers = {w1, w2, w3}
  RequestPriority = {0, 12}
  MaxConcurrent = 2
  JobKind <- MCJobKind
  MaxCalls = 2
INVARIANTS
  TypeOK
  NoLostQueued
  PermitsAccounted
PROPERTIES
  CancelStopsWorkers
  QueuedIsServed
