CONSTANTS
  Writers = {w1}
  Reader = r
  BlockNum = 1
  MaxMsgs = 2
  SelfClosing <- SinkEnds
  AllowForceStop = FALSE
  Torn = Torn
SPECIFICATION FairSpec
PROPERTIES EmptyBlockWrites
CHECK_DEADLOCK FALSE
