CONSTANTS
  Items <- MCFive
  NoItem = ""
  tn = 1
  numBins = 6
  Locations <- MCFiveBins
  Unreadable <- MCNone
  Unwritable <- MCNone
  CsvFiles <- MCFiveCsv
  BigSets <- MCFiveBig
  numThreads = 2
SPECIFICATION Spec
INVARIANT
  EveryMatchKept
