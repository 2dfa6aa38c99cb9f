CONSTANTS
  MaxPages = 4
  NumSlots = 2
  Values = {v1, v2}
  Free = Free
  OldCounts = {1, 2}
  MaxOld = 1
  MaxPut = 1
  ScanContent = v1
SPECIFICATION MCSpec
INVARIANTS
  TypeInvariant
  CountsMatchBitmaps
  ListHoldsPagesWithSpace
  AssertionsHold
  ScanIsComplete
PROPERTIES
  EachOnce
  DeletionsEnd
  ImplementsRecordStore
