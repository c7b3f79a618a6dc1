\* A front and two subtrees below a front with two block columns, three workers.
SPECIFICATION Spec
CONSTANTS
  NFront = 5
  Parent <- MCParent
  Subtree = {2, 3}
  NRow <- MCNRow
  NCol <- MCNCol
  Map <- MCMap
  BlockSize = 2
  Task <- PTask
  Handle <- PHandle
  Access <- PAccess
  Before <- PBefore
  Workers = 3
INVARIANTS
  NoDataRace
  EliminatedWhenSummed
  ContribFormed
