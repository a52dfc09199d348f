SPECIFICATION Spec
CONSTANTS
  Workers = {w1, w2}
  Apps = {a1, a2}
  Cmds = {c1, c2}
  NoCmd = NoCmd
  PipeCap = 2
  Stops = TRUE
PROPERTY StopReturns
CHECK_DEADLOCK FALSE
