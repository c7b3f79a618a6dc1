\* Blocks of 2 x 2 threads, outer block columns of two or four columns.
SPECIFICATION Spec
CONSTANTS
  TileSize = 2
  SuperNB = 5
  Jobs <- MCJobs
  Failing <- MCFailing
INVARIANTS
  NoDataRace
  FactorComplete
