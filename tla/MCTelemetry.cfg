\* Two callers and one slow subscriber; three events over QUIC or as datagrams.
SPECIFICATION FairSpec
CONSTANTS
  s1 = s1
  Subs = {s1}
  Subscribers <- MCSubscribers
  Capacity = 2
  InboxSize = 1
  Callers = {c1, c2}
  Shapes <- MCShapes
  MaxEvents <- MCMaxEvents
  MaxDatagram = 3
  PreferredDatagram = 2
  SafeMtu = 2
  PeerCaps = {0, 2}
  LossWindow = 2
  MinSamples = 2
  LossLimit = 50
  DropEvery = 2
  CoalesceN = 2
  PersistentUni = TRUE
  MirrorSse = FALSE
  LargeFrame = 3
  MaxFrame = 4
  Batches <- MCBatches
  ChunkSize = 2
  MaxStreams = 1
  MaxConns = 2
  MaxDeaths = 1
INVARIANTS
  TelemetryTypeOK
  EventsReachSse
  OneRoute
  CountersAgree
  BatchIsExact
PROPERTIES
  FeedIsLive
  ComesToRest
CHECK_DEADLOCK FALSE
