SPECIFICATION Spec
CONSTANTS
  NumPages = 4
  PAGING_PAGESZ = 2
  Configs <- TwoConfigs
INVARIANTS
  TypeOK
  EachFrameOneOwner
  VictimsAreResident
  NoRamFrameLeaks
PROPERTIES
  SwapKeepsContent
  ResidentsKeepContent
  OthersUntouched
CHECK_DEADLOCK FALSE
