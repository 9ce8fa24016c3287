CONSTANTS
  Uids = {}
  Sources = {"devTest"}
  MissMax = 1
  MaxFrames = 1
  MaxTasks = 1
  MaxCalls = 0
  MaxInits = 1
SPECIFICATION Spec
INVARIANT DeviceTestSurvives
