SPECIFICATION Spec
CONSTANTS
  Temps <- AllTemps
  GuardianLevels <- AllLevels
INVARIANTS TypeOK CutoffCools
PROPERTIES NoFlap
