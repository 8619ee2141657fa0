SPECIFICATION Spec
CONSTANTS
  Uninit = Uninit
  NumProcs = 1
  Files <- Reader
  Values = {0, 1}
  PAGING_MAX_SYMTBL_SZ = 2
  Sizes = {1, 2}
  AreaLimit = 4
  MaxOverruns = 1
PROPERTIES
  ReadFillsRegister
