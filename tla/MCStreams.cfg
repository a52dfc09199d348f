SPECIFICATION MCSpec
CONSTANTS
  None = None
  Conns = {c1}
  Objs = {o1}
  Workers = {w1, w2}
  Apps = {a1, a2}
  AppOps = {"send", "disconnect"}
  MaxOps = 2
  MaxIn = 0
  Room = 2
  MaxWrites = 2
  PoolCap = 0
  Stops = FALSE
  Targets = {d1, d2}
  Connectors = {b1}
  AgentBudgets <- MCAgentBudgets
  Stories <- MCStories
  HeaderLen = 2
  MaxPackSize = 2
  Sizes <- MCSizes
  MaxPauses = 3
  Streams <- MCStreamsRead
  HttpConns = {h1, h2}
  MaxPending = 1
  MaxReleases = 2
  W = w
  A = a
  Patient = TRUE
  SyncBudgets <- MCSyncBudgets
INVARIANTS ConnectIsTold LayersInOrder
PROPERTIES SentReachesWire StopReturns ConnectResolved Settles NothingHeldBack HttpSettles
CHECK_DEADLOCK FALSE
