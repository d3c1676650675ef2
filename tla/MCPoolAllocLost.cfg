SPECIFICATION Spec
CONSTANTS
  MaxPools = 3
  DefBlockCount = 3
  PageSize = 16
  BlockAlign = 16
  HeadSize = 8
  UINT32_MAX = 255
  Regions = {r1, r2, r3}
  NULL = NULL
  BlockSizes = {24, 40}
  ReserveCounts = {1}
  MaxRequest = 1
SYMMETRY RegionSymmetry
INVARIANT LiveLocatable
CHECK_DEADLOCK FALSE
