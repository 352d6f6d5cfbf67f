CONSTANTS
  UINT32_MAX = 15
  UINT16_MAX = 2
  NULL = NULL
  Values = {v1, v2}
  Capacities = {0, 1, 3, 4, 9}
  ElementSizes = {0, 1, 2, 3}
SPECIFICATION Spec
INVARIANT BlockHoldsSlots
PROPERTY IsBoundedQueue
