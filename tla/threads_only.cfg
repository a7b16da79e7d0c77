SPECIFICATION Spec
CONSTANTS
  Thread = {m, a, b, c}
  Main = m
  NULL = NULL
  Processes = {}
  Spawners = {m, a, b}
  Returning = {}
INVARIANTS NoThreadLost CursorAtEnd
PROPERTIES EveryThreadRuns RefinesRoundRobin
