CONSTANTS
  RingSize = 2
  MaxCalls = 2
  MaxPreviews = 1
  MaxEvents = 0
  Patient = FALSE
  SlowStart = FALSE
  EngineMayFail = FALSE
  SourceMayCrash = FALSE
  SinkMayCrash = FALSE
SPECIFICATION FairSpec
PROPERTIES SourceExits
CHECK_DEADLOCK FALSE
