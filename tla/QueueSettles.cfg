SPECIFICATION FairSpec
CONSTANTS
  batch = batch
  reindex = reindex
  j1 = j1
  j2 = j2
  j3 = j3
  c1 = c1
  c2 = c2
  NoJob = NoJob
  Requests = {batch, reindex}
  Batches = {batch}
  Jobs = {j1}
  Consumers = {c1, c2}
  MaxAttempts = 2
  SubmissionLimit = 1
  MaxAbandons = 1
  LostReplies = FALSE
  StatusTTL = FALSE
CHECK_DEADLOCK FALSE
PROPERTY JobsSettle
INVARIANTS
  NoJobLost
