SPECIFICATION Spec
CONSTANTS
  NULL = NULL
  Messages <- OneLong
  PayloadSizes = {1}
  RECVDATABUFSIZE = 1
  RTX_MAX_GAPS = 3
  RTX_RETRY = 1
  RtxHolds = 9
  InOrder = FALSE
  RttBelowTimeout = FALSE
  MaxFaults <- OneLoss
INVARIANT CompleteMeansArrived
\* The run ends when every message is handled.
CHECK_DEADLOCK FALSE
