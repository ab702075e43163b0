SPECIFICATION Spec
CONSTANTS
  Publishes = {p1, p2, p3}
  Queries = {}
  Huge = {}
  Delays = {3}
  PUBLISH_BUFFER_SIZE = 2
  MaxFaults <- OneLate
INVARIANT SuccessMeansConfirmed
\* The run ends when every call was made and answered.
CHECK_DEADLOCK FALSE
