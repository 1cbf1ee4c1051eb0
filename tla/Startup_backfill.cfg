SPECIFICATION Spec
CONSTANTS
  Values = {v1, v2}
  Empty = Empty
INVARIANTS AmountAsEntered
