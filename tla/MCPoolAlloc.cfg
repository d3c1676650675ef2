SPECIFICATION Spec
CONSTANTS
  MaxPools = 3
  DefBlockCount = 3
  PageSize = 16
  BlockAlign = 16
  HeadSize = 8
  UINT32_MAX = 255
  Regions = {r1, r2, r3}
  NULL = NULL
  BlockSizes = {24, 40}
  ReserveCounts = {1}
  MaxRequest = 2
SYMMETRY RegionSymmetry
INVARIANTS
  TypeOK
  LiveDisjoint
  LiveInHeap
  TableRegions
  HeadersExact
  PoolCounters
  ScansComplete
  SizesReported
PROPERTIES
  LockLeakOnlyWhenLost
  ImplementsBlockStore
\* The allocator may stop: it is shut down, or m_mtxLock is left locked.
CHECK_DEADLOCK FALSE
