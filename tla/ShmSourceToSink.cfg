CONSTANTS
  Writers = {w1, w2}
  Reader = r
  BlockNum = 2
  MaxMsgs = 2
  SelfClosing <- NoEnds
  AllowForceStop = TRUE
  Torn = Torn
SPECIFICATION Spec
SYMMETRY WriterSymmetry
INVARIANTS BlockExclusion NoTornRead Conservation TicketAccounting
CHECK_DEADLOCK FALSE
