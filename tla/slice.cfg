CONSTANTS
  MaxInt = 7
  MaxSize = 4
  Bounds <- SmallBounds
  Absent = Absent
SPECIFICATION Spec
INVARIANTS
  TypeOK
  VisitedInBounds
  SelectsTheSlice
  EndsInTime
