CONSTANTS
  UINT32_MAX = 39
  NULL = NULL
  HostBlocks = {h1, h2}
  Blobs = {blob}
  Sizes = {0, 5, 16, 30, 35}
  Capacities = {0, 12, 16, 35}
  OptionSets <- MCOptionSets
  DEFAULT_CAPACITY = 24
  DEFAULT_FULL_REMAINING = 8
SPECIFICATION Spec
SYMMETRY Names
INVARIANT BlocksDisjoint
INVARIANT BlocksOwned
INVARIANT NoOpenArenaBehindMarker
INVARIANT NoHostLeak
INVARIANT OptionsRespected
PROPERTY OpensOnlyWhenFull
