SPECIFICATION FairSpec
CONSTANTS
  TaskIds = {1, 2}
  Depth = 2
  StopBudgets = {1, 2}
  SendTime = 1
  Period = 3
  Options = {{"pump"}, {"receive"}, {"pump", "receive"}}
  MaxCalls = 1
  SpiFaults = TRUE
INVARIANTS
  TypeOK
  PumpGoneFirst
  OnePump
  NotHalfInitialised
  StopIsCooperative
PROPERTIES
  QueueMoves
  CallsReturn
CHECK_DEADLOCK FALSE
