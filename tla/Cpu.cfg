SPECIFICATION Spec
CONSTANTS
  Uninit = Uninit
  NumProcs = 2
  Files <- AllFiles
  Values = {0, 1, 2, 17}
  PAGING_MAX_SYMTBL_SZ = 2
  Sizes = {1, 2}
  AreaLimit = 6
  MaxOverruns = 3
INVARIANTS
  TypeOK
  RegionsMatchPrograms
  AccessesStayInside
PROPERTIES
  ImplementsPrograms
