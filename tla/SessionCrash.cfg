CONSTANTS
  RingSize = 2
  MaxCalls = 2
  MaxPreviews = 1
  MaxEvents = 0
  Patient = FALSE
  SlowStart = FALSE
  EngineMayFail = FALSE
  SourceMayCrash = TRUE
  SinkMayCrash = TRUE
SPECIFICATION FairSpec
PROPERTIES CrashTearsDown SinkLossEndsSource
CHECK_DEADLOCK FALSE
