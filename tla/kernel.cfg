SPECIFICATION KernelSpec
CONSTANTS
  Thread = {m, a, c}
  Main = m
  NULL = NULL
  Processes = {a}
  Spawners = {m}
  Returning = {a, c}
  MaxSent = 3
PROPERTIES KernelDelivers
CHECK_DEADLOCK FALSE
