SPECIFICATION Spec
CONSTANTS
  Chars = {"$", "LF"}
  MAXLINELENGTH = 3
  MAXWAITSENTENCE = 2
  RxSize = 1
  Endless = TRUE
  MaxBytes = 0
PROPERTIES WaitEnds
