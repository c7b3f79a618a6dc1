CONSTANTS
  Inputs <- TiedInputs
  Limit  <- TwiceLimit
SPECIFICATION SolveSpec
INVARIANT MarkedOnce
