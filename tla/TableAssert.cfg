CONSTANTS
  MaxPages = 3
  NumSlots = 2
  Values = {k1, k2, k3, k4}
  Free = Free
  OldCounts = {}
  MaxOld = 0
  MaxPut = 0
  Sessions = {s1}
  NoRid = NoRid
  MaxWrites = 2
  MaxDrift = 1
SPECIFICATION TableSpec
INVARIANTS
  InsertFindsSlot
