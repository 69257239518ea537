SPECIFICATION FairSpec
CONSTANTS
  HasTopic = TRUE
  MaxMiss = 2
  PurgePeriod = 3
  PurgeSlack = 1
  MaxFrames = 4
  MaxIndex = 6
CHECK_DEADLOCK FALSE
INVARIANTS
  TypeOK
  FrameConserved
  OvertakesOnlyOnTimeout
PROPERTIES
  RefinesLossyFifo
  NeverSkipsAhead
  AheadIsTaken
  StoppedSenderExits
