SPECIFICATION MCSpec
CONSTANTS
  Threads = {t1, t2, t3}
  NoThread = NoThread
  MaxOps = 3
  MaxDepth = 3
  NestedReads = FALSE
  NoTask = NoTask
  Workers = {w1, w2}
  Submitters = {s1, s2}
  Finite = {}
  Tasks = {k1, k2, k3}
  MaxQueue = 1
  Policies = {"WAIT_FOR"}
  Threads0 = 1
  Targets = {1, 2}
  MaxAdjust = 1
  SleepEnough = TRUE
  StopFrom = {"done"}
  Apps = {a1, a2}
  Cmds = {c1, c2}
  NoCmd = NoCmd
  PipeCap = 3
  Stops = TRUE
  None = None
  Addrs = {p1}
  Ids = {i1, i2}
  UdpBudgets <- MCUdpBudgets
  UdpAttempts = 0
  MaxReads = 1
  Out = {o1, o2, o3}
  Empty = {o2}
  NodeBudgets <- MCNodeBudgets
INVARIANTS NoLostWakeup CleanStop StopIsClean UdpCloseIsLast
PROPERTIES IsReadWriteLock WaitReturns AcceptedRuns WaitForReturns SentIsHandled ReceivedIsHandled UdpStopReturns
CHECK_DEADLOCK FALSE
