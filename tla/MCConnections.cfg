SPECIFICATION MCSpec
CONSTANTS
  Threads = {w1, w2}
  Elems = {o1, o2}
  Size = 2
  Empty = Empty
  Locked = Locked
  MaxSeq = 3
  Workers = {w1, w2}
  None = None
  Conns = {c1, c2}
  Objs = {o1, o2}
  Apps = {a1}
  AppOps = {"disconnect"}
  MaxOps = 1
  MaxIn = 1
  Room = 1
  MaxWrites = 1
  PoolCap = 1
  FlowConns = {d1}
  FlowObjs = {p1}
  FlowApps = {b1, b2}
  FlowOps = {"send", "pause", "resume"}
  FlowMaxOps = 4
  FlowMaxWrites = 2
  FlowPoolCap = 0
  PullBufs = {p2, p3, p4}
  PullSize = 2
  PullConns = 3
  PullIn = 3
  Capacity = 2
  PullPoolSize = 1
  Remembers = FALSE
SYMMETRY Symm
INVARIANTS Exclusive NoneLost LockOwned LifeOwnObject LifeCloseIsLast FlowReadIsArmed FlowSentInOrder
CHECK_DEADLOCK FALSE
