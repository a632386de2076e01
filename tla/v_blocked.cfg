SPECIFICATION FairSpec
CONSTANTS
  MaxClients = 1
  QueueCap = 1
  SockCap = 1
  MaxTx = 1
  MaxOther = 1
  MaxRx = 1
  MaxDue = 1
PROPERTIES PollReturns
CHECK_DEADLOCK FALSE
