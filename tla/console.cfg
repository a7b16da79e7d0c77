SPECIFICATION Spec
CONSTANTS
  SCREEN_WIDTH = 2
  SCREEN_HEIGHT = 4
  Printer = {p}
  Printable = {x, y}
  BLANK = BLANK
  MaxScrolls = 1
INVARIANTS CursorOnScreen NeverBeyond
PROPERTIES Returns WritesOnPaper
CHECK_DEADLOCK FALSE
