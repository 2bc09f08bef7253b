SPECIFICATION FairSpec
CONSTANTS
  MAX_QUEUE_SIZE = 4
  MaxPackets = 11
INVARIANTS
  AtMostOnce
  LosslessFifo
PROPERTIES
  OverrunNeedsFullQueue
  SleepOnlyWhenEmpty
  RefinesChannel
  EveryPacketProcessed
