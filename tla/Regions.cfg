SPECIFICATION Spec
CONSTANTS
  Rgids = {r1, r2, r3}
  Sizes = {0, 1, 2}
  AreaLimit = 4
  MaxOverruns = 1
SYMMETRY RgidSymmetry
INVARIANTS
  TypeOK
  RegionsSound
PROPERTIES
  NoSpaceLost
  ReuseBeforeGrowth
