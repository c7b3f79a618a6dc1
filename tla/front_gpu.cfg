\* The build in which restoring a block column is a task of its own.
SPECIFICATION Spec
CONSTANTS
  M = 6
  N = 5
  BlockSize = 2
  FailedTpp = TRUE
  UseGpu = TRUE
  Workers = 2
INVARIANTS
  AttemptsSeeAllUpdates
