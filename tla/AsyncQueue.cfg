CONSTANTS
  Producers = {"engine", "flush", "monitor"}
  MaxCalls = 2
  NoTask = NoTask
SPECIFICATION FairSpec
INVARIANTS NoLostWakeup
PROPERTIES FifoSpec EveryTaskRuns
CHECK_DEADLOCK FALSE
