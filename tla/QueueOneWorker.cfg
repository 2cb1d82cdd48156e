SPECIFICATION Spec
CONSTANTS
  batch = batch
  reindex = reindex
  j1 = j1
  j2 = j2
  j3 = j3
  c1 = c1
  c2 = c2
  NoJob = NoJob
  Requests = {batch}
  Batches = {batch}
  Jobs = {j1, j2}
  Consumers = {c1}
  MaxAttempts = 2
  SubmissionLimit = 1
  MaxAbandons = 1
  LostReplies = FALSE
  StatusTTL = TRUE
SYMMETRY Symmetry
CHECK_DEADLOCK FALSE
INVARIANTS
  TypeOK
  StatusHonest
  RetryBudget
  PayloadKept
