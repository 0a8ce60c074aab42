SPECIFICATION TableSpec
CONSTANTS
  o1 = o1
  o2 = o2
  Objects = {o1, o2}
  NoObject = NoObject
  Things = {x1}
  Indices = {i1, i2, i3}
  NoIndex = NoIndex
  Exports = {t1}
  Imports = {c1}
  Batches <- Lists
INVARIANTS HandleDenotes NoHandleIsLost BorrowsEnd WritesPrefix NeverTraps ThingsAreWhatTheySeem
SYMMETRY AnyIndex
CHECK_DEADLOCK FALSE
