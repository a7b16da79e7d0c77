SPECIFICATION Spec
CONSTANTS
  Id = {m, a, b}
  First = m
  MaxSent = 4
INVARIANTS NodesAllocated
PROPERTIES ImplementsMailbox Delivered
CHECK_DEADLOCK FALSE
