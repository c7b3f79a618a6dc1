\* Threshold partial pivoting only, with delayed columns from the children.
SPECIFICATION Spec
CONSTANTS
  NFront = 4
  Parent <- MCParent
  Subtree <- MCSubtree
  NCol <- MCNCol
  MaxDelay <- MCMaxDelay
  BlockSize = 2
  Map <- MCMap
  PivotMethod = "tpp"
  FailedTpp = TRUE
  Workers = 2
INVARIANT
  ColumnsAssembledFirst
