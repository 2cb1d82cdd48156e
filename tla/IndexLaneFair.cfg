SPECIFICATION FairSpec
CONSTANTS
  api = api
  worker = worker
  m1 = m1
  m2 = m2
  w1 = w1
  w2 = w2
  NoTask = NoTask
  Procs = {api}
  Tasks = {m1, w1, w2}
  ProcOf <- OneProcess
  Writers = {w1, w2}
  MaxDepth = 1
  Crashes = FALSE
  SessionLoss = TRUE
  LateCancels = FALSE
PROPERTY MaintenanceNotStarved
INVARIANT LocalExclusion
