SPECIFICATION Spec
CONSTANTS
  AppCount = 3
  MaxSeq = 6
  Careful = TRUE
  Again = FALSE
INVARIANT AlwaysBootable
PROPERTY BootsAsPromised
PROPERTY OneAttempt
PROPERTY BootPartitionAgrees
PROPERTY AlwaysBoots
