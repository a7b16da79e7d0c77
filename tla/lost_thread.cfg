SPECIFICATION Spec
CONSTANTS
  Thread = {m, a, b}
  Main = m
  NULL = NULL
  Processes = {}
  Spawners = {m}
  Returning = {a, b}
INVARIANTS NoThreadLost
CHECK_DEADLOCK FALSE
