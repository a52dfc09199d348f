SPECIFICATION Spec
CONSTANTS
  None = None
  Addrs = {a1}
  Ids = {i1, i2}
  Workers = {w1, w2}
  Budgets <- MCFailure
  Attempts = 0
  MaxReads = 1
PROPERTY ErrorIsTold
CHECK_DEADLOCK FALSE
