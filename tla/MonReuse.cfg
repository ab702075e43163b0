SPECIFICATION NodeSpec
CONSTANTS
  NULL = NULL
  NAN = NAN
  PART = PART
  LittleEndian = TRUE
  Internals <- InternalAddresses
  Mappings <- MappedAddresses
  MaxFaults <- StartFaults
  PeriodicHandles = {"h1", "h2"}
  MaxNesting = 2
  KeptPeers = {"p"}
  Intervals = {0, 5, 9}
  MaxChains = 3
  Nodes = {"a", "b", "c"}
  Users = {"a"}
  Plugins = {"rtt", "bytes"}
  Paired = {"rtt"}
  MsgTypes = {"t1"}
  MaxHandles = 2
  MaxEvents <- MonitoringEvents
  SampleValues = {1, 2, 4}
  WindowSizes = {1, 2, 3}
  PublishingRate = 2
  MaxSamples = 4
  Modulus = 19
  WIN_SIZE = 3
  OVERFLOW_TH = 8
  LossTxEvery = 2
  Spread = 4
  First = 18
  SeqPackets = 23
  MaxRepeats = 1
  RttTxEvery = 2
  Skews = {1}
  Sharing <- SharedFar
  MaxTime = 2
  RttPackets <- RttSent
  MaxMeasures = 2
  Publishes = {"p1", "p2", "p3"}
  Queries = {"q"}
  Huge = {"p3"}
  Delays = {0, 3}
  PUBLISH_BUFFER_SIZE = 2
  RepFaults <- RepositoryFaults
  Width = 3
  Lists <- HostLists
  Replies <- AltoReplies
INVARIANT Reusable
\* A part stops when its bounds are used up.
CHECK_DEADLOCK FALSE
