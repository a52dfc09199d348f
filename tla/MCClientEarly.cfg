SPECIFICATION Spec
CONSTANTS
  Apps = {a1, a2}
  W = w
  Budgets <- MCEarly
  Kinds = {"tcp"}
  Attempts = 1
INVARIANTS CloseIsLast
CHECK_DEADLOCK FALSE
