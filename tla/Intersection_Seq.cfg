CONSTANTS
  Items <- MCItems
  NoItem = ""
  tn = 2
  numBins = 3
  Locations <- MCLocations
  Unreadable <- MCUnreadable
  Unwritable <- MCUnwritable
  CsvFiles <- MCCsvFiles
  BigSets <- MCBigSets
  numThreads = 1
SPECIFICATION FairSpec
INVARIANTS
  IntersectionWritten
  PairsTogether
PROPERTY
  SessionEnds
