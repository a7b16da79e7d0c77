SPECIFICATION Spec
CONSTANTS
  Id = {m, a}
  First = m
  MaxSent = 3
INVARIANTS AllCleared
CHECK_DEADLOCK FALSE
