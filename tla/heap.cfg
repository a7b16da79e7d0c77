SPECIFICATION Spec
CONSTANTS
  Header = 8
  PageSize = 64
  size_array <- TwoSizes
  Lengths = {10, 16, 40, 45}
  Word = 65536
  MaxAddr = 200
INVARIANTS ApartUntilDamaged NothingLost BlocksMapped AlignedNeverFaults
PROPERTIES DataStays
CHECK_DEADLOCK FALSE
