SPECIFICATION Spec
CONSTANTS
  Header = 2
  Size = 14
  Length = {1, 3}
  Caller = {a, b}
  Exclusive = TRUE
INVARIANTS HeadersIntact FreedBytesStay EndsWhenSpent
PROPERTIES ImplementsAllocator
CHECK_DEADLOCK FALSE
