SPECIFICATION EitherSpec
CONSTANTS
  UINT32_MAX = 79
  NULL = NULL
  HostBlocks = {h1, h2, h3, h4}
  Blobs = {lent}
  Sizes = {0, 5, 16, 20, 77}
  Capacities = {0, 28, 32, 77}
  Roles = {"writer", "reader"}
  Handles = {"DEFAULT", "ARENA_EXTERNAL"}
  Capacity = 72
  STATE_SIZE = 8
  DOC_SIZE = 8
  ChunkSizes = {5, 16, 56}
  TextSizes = {8, 20}
  OtherSizes = {8}
  MaxChunks = 3
  MaxOthers = 2
SYMMETRY SymmetricHost
INVARIANT EveryByteAccounted
INVARIANT NoSharedBytes
INVARIANT JsonBlocksAccounted
INVARIANT RunAccounts
INVARIANT ReleaseTellsTruth
