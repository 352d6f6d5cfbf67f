SPECIFICATION Spec
CONSTANTS
  UINT32_MAX = 15
  NULL = NULL
  Keys = {"k"}
  NO_KEY = "no key"
  Sizes = {0, 3}
  MAX_DEPTH = 3
  MaxNodes = 4
INVARIANT StackIsPath
INVARIANT ElementsMatchDocument
INVARIANT WrittenIsJson
PROPERTY IsJsonText
