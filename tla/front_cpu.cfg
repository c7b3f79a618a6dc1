\* Three block columns, the last one narrower, and a row below them.
SPECIFICATION Spec
CONSTANTS
  M = 6
  N = 5
  BlockSize = 2
  FailedTpp = TRUE
  UseGpu = FALSE
  Workers = 3
INVARIANTS
  TypeOK
  NoDataRace
  CountsReadInTime
  AttemptsSeeAllUpdates
  UpdatesAlignRows
  FailedColumnsUpToDate
  PivotsContiguous
  NoPairSplit
  ContribFormed
PROPERTIES
  CountsSettle
  FrontFactored
