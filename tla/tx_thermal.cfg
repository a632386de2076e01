SPECIFICATION Spec
CONSTANTS
  CfgFreqs = {0, 903}
  Powers = {2, 22}
  Roles = {0, 1, 2}
  ScanPlans <- OneChannel
  Temps = {50, 58, 64, 70, 85}
  GuardianLevels = {0, 1, 2}
  AirKinds = {}
  FreqMayFail = TRUE
  InitMayFail = TRUE
  ResetPower = 10
  QueueCap = 2
  BurstSizes = {1, 2}
  MaxFrames = 3
  MaxCmds = 4
INVARIANTS TypeOK OneTerminalEach CutoffSafe QueueBounded OkMeansAired PowerCap Listening
PROPERTIES ImplementsContract
