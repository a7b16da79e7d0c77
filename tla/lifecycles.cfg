SPECIFICATION Spec
CONSTANTS
  Thread = {m, a, b, c}
  Main = m
  NULL = NULL
  Processes = {a, b}
  Spawners = {m}
  Returning = {a, c}
INVARIANTS QueueSound DeadNeverQueued RunsAtHome
PROPERTIES HeapsStay
CHECK_DEADLOCK FALSE
