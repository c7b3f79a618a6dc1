\* The last of two block columns is narrow: its updates name a tile left of the contribution.
SPECIFICATION Spec
CONSTANTS
  NFront = 2
  Parent <- NarrowParent
  Subtree = {}
  NRow <- NarrowNRow
  NCol <- NarrowNCol
  Map <- NarrowMap
  BlockSize = 2
  Task <- PTask
  Handle <- PHandle
  Access <- PAccess
  Before <- PBefore
  Workers = 2
INVARIANT ContribBlocksInBounds
