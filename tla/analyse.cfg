CONSTANTS
  Inputs <- AllInputs
  Limit  <- TwiceLimit
SPECIFICATION SolveSpec
INVARIANTS
  EachFrontOnce SubtreesClosed OneContribution LayerIsCut WorkSpread PartsWhole SolvedInOrder
PROPERTY AllSolved
