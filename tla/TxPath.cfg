SPECIFICATION LiveSpec
CONSTANTS
  TicksPerSec = 4
  MaxGap = 40
  Params <- ThreeRates
  Sizes = {1, 3}
  TXmaxSize = 4
  RTXmaxSize = 4
  MaxPackets = 4
  MaxChanges = 1
INVARIANTS TypeOK DrainPlanned SizesConsistent InOrder RateRespected
PROPERTY QueuedIsSent
