CONSTANTS
  UINT32_MAX = 15
  NULL = NULL
  LOWS = 6
  WORD_BITS = 2
  COUNT_MAX = 6
  ARRAY_MAX = 4
  SPARSE_MAX = 2
  BITMAP_LOG2 = 2
  FIRST_LOG2 = 1
  LOW_SIZE = 1
  VALUE_SIZE = 2
  ENTRY_SIZE = 2
  LOG2_MAX = 4
  Handles <- ClientHandles
  Offers <- ClientOffers
  Builds <- ClientBuilds
  Calls <- ClientCalls
  Ranges <- ClientRanges
  Queries <- ClientQueries
  Pages <- ClientPages
  UNION_BITS_FROM = 4
  Budgets = {0, 1, 2, 9}
SPECIFICATION RoaringSpec
VIEW WithoutAnswer
INVARIANT BlocksAccounted
INVARIANT ReadsAgree
INVARIANT QueriesAgree
PROPERTY IsValueSets
