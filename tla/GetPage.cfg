SPECIFICATION Spec
CONSTANTS
  NumPages = 4
  PAGING_PAGESZ = 2
  Configs <- TwoConfigs
PROPERTY GetsPageInRam
CHECK_DEADLOCK FALSE
