SPECIFICATION Spec
CONSTANTS
  CfgFreqs = {903}
  Powers = {10}
  Roles = {0}
  ScanPlans <- NoPlans
  Temps = {50, 58, 64, 70, 85}
  GuardianLevels = {0, 1, 2}
  AirKinds = {}
  FreqMayFail = FALSE
  InitMayFail = FALSE
  ResetPower = 0
  QueueCap = 2
  BurstSizes = {1}
  MaxFrames = 0
  MaxCmds = 4
PROPERTIES RecoveryRestoresConfig
