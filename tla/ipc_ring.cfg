SPECIFICATION FairSpec
CONSTANTS
  kIpcRingCap = 4
  CounterMod = 10
  RxBufSize = 3
  Lens = {1, 2, 3, 4}
  MaxSent = 12
INVARIANTS TypeOK Fifo OnlyLosesOldest
PROPERTIES Heals Drains
CHECK_DEADLOCK FALSE
