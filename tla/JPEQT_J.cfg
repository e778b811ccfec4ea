CONSTANTS
  tn = 4
  bn = 1
  numBins = 1
  Order = 5
  Permute = FALSE
  Shares <- MCBits
  Secrets <- MCOneKey
  Rands <- MCOneRand
  Alphas <- MCScalars
  Unreadable <- MCFaults
  NoResult = NoResult
SPECIFICATION FairSpec
INVARIANTS
  TypeOK
  OneInFlight
  ResultExact
  LengthsAgree
  ChainOrder
  AllOrNothing
PROPERTIES
  EveryoneStops
  ResultArrives
