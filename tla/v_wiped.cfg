SPECIFICATION Spec
CONSTANTS
  PayloadLens = {400, 900}
  Foreign = FALSE
  ChipErrors = FALSE
  MaxAired = 3
PROPERTIES NeverWiped
