SPECIFICATION Spec
CONSTANTS
  Struck = {"SHIFT", "RSHIFT", "RCONTROL", "ENTER", "PRINTSCREEN", "PAUSE", "LESS", "GUI"}
  LINE_SIZE = 2
  MaxDown = 2
INVARIANTS TypeOK HeardFromRest TableInStep
PROPERTIES Recovers
CHECK_DEADLOCK FALSE
