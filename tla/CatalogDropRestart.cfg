CONSTANTS
  Tables = {t1, t2}
  Indexes = {i1}
  None = None
SPECIFICATION StopSpec
INVARIANTS
  OpenDbSucceeds
