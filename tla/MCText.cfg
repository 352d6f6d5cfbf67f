SPECIFICATION TextSpec
CONSTANTS
  WORD = 3
  Texts <- MCTexts
  NO_ANSWER = NO_ANSWER
  WIDE = 2048
  UINT64_TOP = 31
  INT64_TOP = 15
  UINT32_TOP = 7
  INT32_TOP = 3
  UUID_TEXT = 5
  UUID_SIZE = 2
  FIELDS_MAX = 2
  KEPT = KEPT
  ZEROED = ZEROED
CHECK_DEADLOCK FALSE
INVARIANT LongestValidPrefix
INVARIANT ConvertersAgree
INVARIANT ReadObjectAgrees
INVARIANT ReadArrayAgrees
PROPERTY ScansEnd
