SPECIFICATION DeliveringSpec
CONSTANTS
  NULL = NULL
  Messages <- OneMessage
  PayloadSizes = {1, 2, 3}
  RECVDATABUFSIZE = 2
  RTX_MAX_GAPS = 2
  RTX_RETRY = 1
  RtxHolds = 8
  InOrder = FALSE
  RttBelowTimeout = FALSE
  MaxFaults <- OneEach
INVARIANTS TypeOK MissingCovered WithinBuffer OneSlotPerMessage DeliveredOnce
PROPERTY SlotsReclaimed
\* The run ends when every message is handled.
CHECK_DEADLOCK FALSE
