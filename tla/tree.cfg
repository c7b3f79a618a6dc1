\* A leaf and a subtree below an inner front and a root, two workers.
SPECIFICATION Spec
CONSTANTS
  NFront = 4
  Parent <- MCParent
  Subtree <- MCSubtree
  NCol <- MCNCol
  MaxDelay <- MCMaxDelay
  BlockSize = 2
  Map <- MCMap
  PivotMethod = "app_block"
  FailedTpp = TRUE
  Workers = 2
INVARIANTS
  TypeOK
  NoDataRace
  FrontSizedForDelays
  DelaysPlacedApart
  ColumnsAssembledFirst
  DestinationsDeclared
  ContribComplete
PROPERTIES
  HandlesRegistered
  ImplementsEliminationTree
  TreeFactored
