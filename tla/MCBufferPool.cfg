CONSTANTS
  PoolSize = 2
  Files = {f1}
  MaxPages = 3
  Clients = {c1, c2}
  Values = {v1}
  Zero = Zero
  Absent = Absent
  NoPage = NoPage
SPECIFICATION Spec
SYMMETRY Symmetry
INVARIANTS
  TypeInvariant
  PointersStayValid
  PinsMatchHolders
  VictimsAreUnpinned
  NoFrameTwice
  PageTableMatchesFrames
  NoLostUpdate
  AllocatedPagesAreReadable
PROPERTIES
  EvictionFollowsRelease
  ImplementsPageStore
