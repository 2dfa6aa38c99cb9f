CONSTANTS
  PoolSize = 2
  Files = {f1}
  MaxPages = 3
  Clients = {c1, c2}
  Values = {v1}
  Zero = Zero
  Absent = Absent
  NoPage = NoPage
SPECIFICATION PinsSpec
INVARIANTS
  PinnedPagesStay
