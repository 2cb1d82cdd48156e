SPECIFICATION Spec
CONSTANTS
  api = api
  worker = worker
  m1 = m1
  m2 = m2
  w1 = w1
  w2 = w2
  NoTask = NoTask
  Procs = {api, worker}
  Tasks = {m1, m2, w1, w2}
  ProcOf <- TwoProcesses
  Writers = {w1, w2}
  MaxDepth = 2
  Crashes = TRUE
  SessionLoss = FALSE
  LateCancels = TRUE
INVARIANTS
  TypeOK
  ExclusiveAlone
  CountersAgree
  NoOrphanAdvisoryLock
  NoLostWakeup
  LaneInv
PROPERTY ImplementsLane
