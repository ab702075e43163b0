SPECIFICATION Spec
CONSTANTS
  a = a
  b = b
  c = c
  NULL = NULL
  Nodes = {a, b}
  CONNECTBUFSIZE = 2
  MAX_TRIALS = 2
  Requests <- CrossRequests
  PathMtu <- WidePath
  SameExternal <- NoPairs
  InternalPath <- NoPairs
  NoNat = {}
  MaxFaults <- OneClose
  WireCapacity = 2
  RttBelowTimeout = FALSE
INVARIANTS
  TypeOK
  RemoteIdKnown
  Retrying
  OneSlotPerPeer
  CallbackOwed
PROPERTY ImplementsService
\* The run ends when every request is resolved and every timer is off.
CHECK_DEADLOCK FALSE
