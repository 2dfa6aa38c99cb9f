SPECIFICATION InsertSpec
CONSTANTS
  Keys <- MCKeys
  Order = 3
CHECK_DEADLOCK FALSE
INVARIANT LookupsAreExact
