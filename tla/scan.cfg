SPECIFICATION Spec
CONSTANTS
  CfgFreqs = {903, 915}
  Powers = {2, 10}
  Roles = {0, 1}
  ScanPlans <- AllPlans
  Temps = {50, 70}
  GuardianLevels = {}
  AirKinds = {TRUE, FALSE}
  FreqMayFail = FALSE
  InitMayFail = FALSE
  ResetPower = 0
  QueueCap = 2
  BurstSizes = {1}
  MaxFrames = 1
  MaxCmds = 4
INVARIANTS TallyOnChannel ChipMatchesConfig
PROPERTIES ScanReturnsHome
