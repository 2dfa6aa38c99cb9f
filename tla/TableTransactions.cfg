CONSTANTS
  MaxPages = 4
  NumSlots = 1
  Values = {k1, k2, k3}
  Free = Free
  OldCounts = {}
  MaxOld = 0
  MaxPut = 0
  Sessions = {s1}
  NoRid = NoRid
  MaxWrites = 3
  MaxDrift = 1
SPECIFICATION TableSpec
INVARIANTS
  OnlyCommittedWritesStay
  IndexMatchesTable
