CONSTANTS
  UINT32_MAX = 23
  UINT16_MAX = 1
  NULL = NULL
  Values = {v1}
  Capacities = {16}
  ElementSizes = {1}
SPECIFICATION Spec
INVARIANT ElementsHaveOwnSlots
