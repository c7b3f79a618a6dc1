\* One block column as wide as the block: the contribution tiles start at 1.
SPECIFICATION Spec
CONSTANTS
  M = 2
  N = 1
  BlockSize = 1
  FailedTpp = TRUE
  UseGpu = FALSE
  Workers = 1
INVARIANT
  ContribZeroed
