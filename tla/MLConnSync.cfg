SPECIFICATION DeliveringSpec
CONSTANTS
  a = a
  b = b
  c = c
  NULL = NULL
  Nodes = {a, b, c}
  CONNECTBUFSIZE = 2
  MAX_TRIALS = 2
  Requests <- FanRequests
  PathMtu <- WidePath
  SameExternal <- NoPairs
  InternalPath <- NoPairs
  NoNat = {a, b, c}
  MaxFaults <- LossyData
  WireCapacity = 8
  RttBelowTimeout = TRUE
INVARIANTS DataFromPeer AnswerFromPeer
PROPERTY OpenSucceeds
\* The run ends when every request is resolved and every timer is off.
CHECK_DEADLOCK FALSE
