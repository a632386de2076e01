SPECIFICATION FairSpec
CONSTANTS
  MaxClients = 2
  QueueCap = 1
  SockCap = 1
  MaxTx = 2
  MaxOther = 1
  MaxRx = 1
  MaxDue = 1
INVARIANTS TypeOK CleanStream OneClient
PROPERTIES Answered StatsKeepComing Greeted
CHECK_DEADLOCK FALSE
