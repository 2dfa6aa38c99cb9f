CONSTANTS
  Tables = {t1, t2}
  Indexes = {i1, i2}
  None = None
SPECIFICATION Spec
INVARIANTS
  CatalogIsOpen
  ListedFilesExist
PROPERTIES
  RestartKeepsCatalog
