SPECIFICATION Spec
CONSTANTS
  Chars = {"$", "*", "1", "CR", "LF"}
  MAXLINELENGTH = 6
  MAXWAITSENTENCE = 5
  RxSize = 1
  Endless = FALSE
  MaxBytes = 8
INVARIANTS BadChecksumRefused
