CONSTANTS
  Writers = {w1}
  Reader = r
  BlockNum = 3
  MaxMsgs = 7
  SelfClosing <- SinkEnds
  AllowForceStop = FALSE
  Torn = Torn
SPECIFICATION FairSpec
INVARIANTS TypeOK
PROPERTIES FifoSpec Drains CallsReturn
CHECK_DEADLOCK FALSE
