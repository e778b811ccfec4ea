CONSTANTS
  tn = 1
  rowNum = 2
  colNum = 2
  EqualCells <- MCEqualCells
  Absent <- MCNone
  Unwritable <- MCNone
SPECIFICATION Spec
INVARIANTS
  LabelsMeet
