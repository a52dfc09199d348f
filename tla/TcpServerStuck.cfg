SPECIFICATION Spec
CONSTANTS
  None = None
  Conns = {c1}
  Objs = {o1}
  Workers = {w1, w2}
  Apps = {a1}
  AppOps = {"send"}
  MaxOps = 2
  MaxIn = 0
  Room = 1
  MaxWrites = 2
  PoolCap = 1
  Stops = FALSE
PROPERTY SentReachesWire
CHECK_DEADLOCK FALSE
