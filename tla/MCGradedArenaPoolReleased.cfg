CONSTANTS
  UINT32_MAX = 63
  NULL = NULL
  JUNK = JUNK
  Arenas = {a1, a2, a3}
  PoolIds = {0, 1, 2}
  Capacities = {}
  SpareLimits = {0, 1}
  ARNM_BYTES = 8
  ACQUIRED_MAX = 3
  Requests = {0, 1, 8, 9, 16, 17, 32, 33, 63}
  WORD = 6
  Ladders <- SizeLists
SPECIFICATION GradedSpec
SYMMETRY Names
INVARIANT ReleasedGradeIsUsable
