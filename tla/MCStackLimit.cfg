CONSTANTS
  Values = {v1, v2}
  Raw = Raw
  Capacity = 3
SPECIFICATION Spec
INVARIANT StoresAtMostCapacity
CHECK_DEADLOCK FALSE
