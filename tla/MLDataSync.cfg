SPECIFICATION DeliveringSpec
CONSTANTS
  NULL = NULL
  Messages <- InSequence
  PayloadSizes = {1}
  RECVDATABUFSIZE = 4
  RTX_MAX_GAPS = 3
  RTX_RETRY = 1
  RtxHolds = 10
  InOrder = TRUE
  RttBelowTimeout = TRUE
  MaxFaults <- OneLoss
INVARIANT CompleteMeansArrived
PROPERTY Repaired
\* The run ends when every message is handled.
CHECK_DEADLOCK FALSE
