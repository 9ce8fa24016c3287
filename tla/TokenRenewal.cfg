SPECIFICATION Spec
CONSTANTS
  MaxSessions = 1
  Used <- MCTokens
  Few = 0
  MayCrash = FALSE
  MayMisread = FALSE
  RingSize = 2
  Strings <- MCStrings
  Structs <- MCStructs
  BadProfiles <- MCBadProfiles
  NUL = "nul"
  Fresh <- MCZeros
  Garbage = {TRUE, FALSE}
  Field = 3
INVARIANT TokenArrives
CHECK_DEADLOCK FALSE
