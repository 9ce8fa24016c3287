CONSTANTS
  Producers = {"engine", "flush"}
  MaxCalls = 3
  NoTask = NoTask
  Users = {"u1"}
  OwnStreams = {"videosource"}
  Views = {"v1", "v2"}
  Boxes = {"b1", "b2", "b3"}
  Sizes <- MCSizes
  Unset = Unset
  Home <- MCHome
  ContextMayFail = TRUE
  MaxEvents = 3
  MaxBatches = 2
  MaxAppCalls = 1
SPECIFICATION FairSystemSpec
INVARIANTS RenderersTypeOK PageMatchesStreams ThrowsExplained
PROPERTIES AppFifoSpec OfflineCleaned StaysSubscribed
CHECK_DEADLOCK FALSE
