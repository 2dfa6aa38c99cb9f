CONSTANTS
  PoolSize = 2
  Files = {f1}
  MaxPages = 4
  Clients = {c1, c2}
  Values = {v1}
  Zero = Zero
  Absent = Absent
  NoPage = NoPage
SPECIFICATION WriteFaultSpec
SYMMETRY Symmetry
INVARIANTS
  PointersStayValid
  PinnedFramesAreNoVictims
  LeakedFramesAreReachable
  NoLostUpdate
PROPERTIES
  ImplementsLossyPageStore
