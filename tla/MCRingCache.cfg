SPECIFICATION MCSpec
CONSTANTS
  Threads = {t1, t2, t3}
  Size = 2
  Gens = 2
  SeqMod = 3
  Empty = Empty
  Locked = Locked
  NoTask = NoTask
  Workers = {w1, w2}
  Submitters = {s1, s2}
  Finite = {s1}
  Tasks = {k1, k2, k3}
  MaxQueue = 1
  Policies = {"WAIT_FOR", "CALLER_RUN", "CALL_FAIL"}
  Threads0 = 1
  Targets = {1, 2}
  MaxAdjust = 0
  SleepEnough = TRUE
  StopFrom = {"idle", "adj_enter", "adj_spawn", "adj_count", "set", "done"}
SYMMETRY Symm
INVARIANTS IdsDistinct CountExact IndexesExact LiveResolves AcceptedOnce
CHECK_DEADLOCK FALSE
