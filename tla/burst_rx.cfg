SPECIFICATION FairSpec
CONSTANTS
  PayloadLens = {400, 900}
  Foreign = TRUE
  ChipErrors = TRUE
  MaxAired = 3
INVARIANTS TypeOK InOrderOnce NeverTorn NothingHeldBack
PROPERTIES LoopEnds
