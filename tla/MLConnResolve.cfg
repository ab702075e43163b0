SPECIFICATION LiveSpec
CONSTANTS
  a = a
  b = b
  c = c
  NULL = NULL
  Nodes = {a, b}
  CONNECTBUFSIZE = 1
  MAX_TRIALS = 2
  Requests <- CrossRequests
  PathMtu <- NarrowPath
  SameExternal <- AllPairs
  InternalPath <- NoPairs
  NoNat = {}
  MaxFaults <- CloseAndDup
  WireCapacity = 1
  RttBelowTimeout = FALSE
PROPERTY OpenResolved
\* The run ends when every request is resolved and every timer is off.
CHECK_DEADLOCK FALSE
