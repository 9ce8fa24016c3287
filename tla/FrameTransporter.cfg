CONSTANTS
  Uids = {"u1"}
  Sources = {"u1", "videoSource"}
  MissMax = 0
  MaxFrames = 2
  MaxTasks = 1
  MaxCalls = 2
  MaxInits = 2
SPECIFICATION FairSpec
INVARIANTS NoTear NewerFrames
PROPERTIES UnseenKept FrameArrives InitializeReturns
