CONSTANTS
  UINT32_MAX = 71
  UINT16_MAX = 31
  MAX_BUCKET_LOG2 = 1
  NULL = NULL
  Values = {a, b}
  HostAddresses = {h1, h2, h3}
  ArenaCapacities = {40}
  Log2s = {0, 1, 5}
  Steps = {0, 1}
  DEFAULT_INDEX_GROW_STEP_SIZE = 2
  ElementSizes = {0, 3}
  Counts = {0, 3, 6, 30}
SPECIFICATION Spec
SYMMETRY Names
INVARIANT BlocksAreItsOwn
PROPERTY StableAddresses
PROPERTY FreeUnwindsArena
PROPERTY IsSequence
