SPECIFICATION Spec
CONSTANTS
  a = a
  b = b
  c = c
  NULL = NULL
  Nodes = {a, b, c}
  CONNECTBUFSIZE = 2
  MAX_TRIALS = 2
  Requests <- ChainRequests
  PathMtu <- WidePath
  SameExternal <- NoPairs
  InternalPath <- NoPairs
  NoNat = {a, b, c}
  MaxFaults <- DataAndDup
  WireCapacity = 3
  RttBelowTimeout = FALSE
INVARIANT DataFromPeer
\* The run ends when every request is resolved and every timer is off.
CHECK_DEADLOCK FALSE
