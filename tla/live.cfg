SPECIFICATION FairSpec
CONSTANTS
  CfgFreqs = {915}
  Powers = {10}
  Roles = {0, 1}
  ScanPlans <- TwoChannels
  Temps = {50, 85}
  GuardianLevels = {}
  AirKinds = {TRUE}
  FreqMayFail = FALSE
  InitMayFail = TRUE
  ResetPower = 0
  QueueCap = 2
  BurstSizes = {1}
  MaxFrames = 2
  MaxCmds = 3
PROPERTIES FramesSettled ScanEnds
