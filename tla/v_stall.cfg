SPECIFICATION LSpec
CONSTANTS
  Base = 8
  chT = 1
  chX = 2
  chW = 3
  chC = 4
  chS = 5
  chQ = 6
  ConfigShort = 2
  ConfigLong = 3
  WindowLen = 2
  MaxTotalPayload = 3
  ScanMax = 2
  Word = 1
  Bodies = {1, 2}
  Stalls = TRUE
INVARIANTS KilledOnlyWhenLate
VIEW LinkView
