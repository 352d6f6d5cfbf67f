CONSTANTS
  UINT32_MAX = 15
  NULL = NULL
  NOBODY = NOBODY
  A = {a1, a2, a3}
  B = {b1, b2}
  C = {c1, c2}
  Keys <- AllKeys
  HashFunctions <- TwoHashes
  MIN_CAPACITY = 4
  ARNM_KEY_MAP_MAX_CAPACITY = 8
  BUCKET = 2
  KeySizes = {2, 4}
  INDEX_STEP = 2
  ARNM_BVEC_MAX_INDEX_CAPACITY = 3
  Counts = {0, 3, 4, 6, 7}
SPECIFICATION Spec
SYMMETRY Names
INVARIANT SlotsReachable
PROPERTY RoomAsPromised
PROPERTY IsKeyIds
