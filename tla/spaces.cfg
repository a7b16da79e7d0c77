SPECIFICATION Spec
CONSTANTS
  Entries = 5
  Last = 17
  HeapPages = 2
  Aligned = TRUE
  Undisturbed = TRUE
  Kernel = k
  Process = {p, q}
  Creator = c
  Dirty = {}
  NONE = NONE
  JUNK = JUNK
INVARIANTS SpacesWhole TlbCoherent FramesApart NothingLeftMapped NeverFaults
PROPERTIES ImplementsSpaces
SYMMETRY ProcessSymmetry
CHECK_DEADLOCK FALSE
