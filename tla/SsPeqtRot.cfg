CONSTANTS
  tn = 2
  rowNum = 2
  colNum = 3
  EqualCells <- MCSomeCells
  Absent <- MCAbsent
  Unwritable <- MCUnwritable
SPECIFICATION FairSpec
INVARIANTS
  LabelsMeet
  PairsTogether
PROPERTY
  EveryoneStops
