CONSTANTS
  tn = 3
  bn = 1
  numBins = 2
  Order = 5
  Permute = TRUE
  Shares <- MCBits
  Secrets <- MCOneKey
  Rands <- MCOneRand
  Alphas <- MCNonZero
  Unreadable <- MCFaults
  NoResult = NoResult
SPECIFICATION Spec
INVARIANTS
  LayersPeeled
  ResultExact
PROPERTIES
  ImplementsIdeal
