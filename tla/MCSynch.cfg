SPECIFICATION MCSpec
CONSTANTS
  Thread = {p, q, c, d}
  Producer = {p, q}
  NoThread = none
  MaxCalls = 2
  Reader = {r, s}
  Writer = {w}
  Char = {x, y}
  EOF = eof
  MaxTyped = 2
  MaxPuts = 2
INVARIANTS MonitorSafe NoMissedSignal QueueInv ConsoleInv
PROPERTIES WaitsEnd
CHECK_DEADLOCK FALSE
