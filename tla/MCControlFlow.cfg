CONSTANTS
  Functions <- MCFunctions
  MaxDepth = 8
SPECIFICATION FairSpec
PROPERTIES ImplementsPaths EventuallyStructured
