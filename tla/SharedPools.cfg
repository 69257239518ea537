SPECIFICATION FairSharedSpec
CONSTANTS
  HasTopic = TRUE
  MaxMiss = 0
  PurgePeriod = 2
  PurgeSlack = 1
  MaxFrames = 2
  MaxIndex = 2
  DecodeThreads = {w1, w2}
  Capacity = 2
  Other = Other
  Idle = Idle
PROPERTIES
  RefinesPipeline
  StoppedLeavesPool
