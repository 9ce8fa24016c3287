CONSTANTS
  RingSize = 2
  MaxCalls = 3
  MaxPreviews = 2
  MaxEvents = 1
  Patient = TRUE
  SlowStart = TRUE
  EngineMayFail = TRUE
  SourceMayCrash = FALSE
  SinkMayCrash = FALSE
SPECIFICATION FairSpec
INVARIANTS TypeOK OneClear OneReceiver ReleasedClean
PROPERTIES ReleaseReturns PatientRelease StopTakesEffect
CHECK_DEADLOCK FALSE
