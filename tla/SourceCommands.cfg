SPECIFICATION FairSpec
CONSTANTS
  MaxSessions = 2
  Used <- MCUsed
  Few = 1
  MayCrash = TRUE
  MayMisread = TRUE
  RingSize = 2
  Strings <- MCStrings
  Structs <- MCStructs
  BadProfiles <- MCBadProfiles
  NUL = "nul"
  Fresh <- MCOther
  Garbage = {FALSE}
  Field = 3
INVARIANTS CommandsTypeOK EngineHears StringsEnd FirstIsReady CaptureFollowsJoin
PROPERTIES StaysUp  ExitReported
CHECK_DEADLOCK FALSE
