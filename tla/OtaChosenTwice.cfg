SPECIFICATION Spec
CONSTANTS
  AppCount = 2
  MaxSeq = 4
  Careful = TRUE
  Again = TRUE
PROPERTY OneAttempt
