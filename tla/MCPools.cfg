CONSTANTS
  UINT32_MAX = 63
  NULL = NULL
  JUNK = JUNK
  Arenas = {a1, a2, a3}
  PoolIds = {0, 1, 2}
  Capacities = {0, 12, 60}
  SpareLimits = {0, 2}
  ARNM_BYTES = 8
  ACQUIRED_MAX = 3
  Requests = {0, 1, 8, 9, 16, 17, 32, 33, 63}
  WORD = 6
  Ladders <- SizeLists
  FIXED_UINT32_MAX = 127
  FIXED_UINT16_MAX = 4
  FixedCapacities = {0, 1, 16, 20, 24, 25, 56, 112, 124}
  FixedAddresses <- Places
  DEFAULT_MIN_LOG2 = 4
  DEFAULT_MAX_LOG2 = 4
  DEFAULT_ALLOC_ARENA_CAPACITY = 1
  BlockOptions <- Shapes
  BlockSizes = {0, 9, 17, 60}
  BlockLogs = {2, 6}
  MaxLent = 3
SPECIFICATION AnySpec
SYMMETRY Names
INVARIANT ArenasAccounted
INVARIANT SmallestGradeThatFits
INVARIANT ArenasFindHome
INVARIANT FixedBlockHoldsArenas
INVARIANT GradedBlocksDisjoint
INVARIANT GradedEveryByteServes
PROPERTY ArrivesFresh
