SPECIFICATION Spec
CONSTANTS
  Units = 6
  BootPages = 2
  Client = {kernel, p}
  Kernel = kernel
  Exclusive = TRUE
INVARIANTS PageHasOneOwner LimitsNeverGiven PanicOnlyWhenFull BitmapExact
PROPERTIES AllocationReturns
CHECK_DEADLOCK FALSE
