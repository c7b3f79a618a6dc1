\* Three block columns of one column, with the restores as tasks.
SPECIFICATION Spec
CONSTANTS
  M = 4
  N = 3
  BlockSize = 1
  FailedTpp = TRUE
  UseGpu = TRUE
  Workers = 2
INVARIANT
  ContribFormed
