------------------------ MODULE MaintenanceQueueProofs ------------------------
(***************************************************************************)
(* QueueInv is inductive for any number of requests, jobs, consumer loops, *)
(* crashes and expired hashes; with one loop, LoopInv is too.              *)
(***************************************************************************)
EXTENDS MaintenanceQueue, TLAPS

LEMMA ClaimStep ==
    ASSUME QueueInv, NEW c \in Consumers, Claim(c)
    PROVE  QueueInv'
<1> USE DEF QueueInv, Claim, Deliver, Goto, submission, record, queue, worker, history
<1>1. TypeOK'
  BY QueueAssumption DEF TypeOK, Places, Statuses
<1>2. NamedAccepted'
  BY DEF NamedAccepted, TypeOK, Accepted
<1>3. EntriesDistinct'
  BY DEF EntriesDistinct
<1>4. AckJustified'
  BY DEF AckJustified, TypeOK, NamedAccepted, Accepted
<1>5. UndoHarmless'
  BY DEF UndoHarmless, TypeOK, NamedAccepted, AckJustified, Accepted
<1>6. NoJobLost'
  BY DEF NoJobLost, Waiting, Accepted, TypeOK, AckJustified, NamedAccepted
<1>7. PayloadKept'
  BY DEF PayloadKept, StagedDurably, Accepted, TypeOK, UndoHarmless, AckJustified, NamedAccepted
<1> QED
  BY <1>1, <1>2, <1>3, <1>4, <1>5, <1>6, <1>7

LEMMA MarkRunningAttemptStep ==
    ASSUME QueueInv, NEW c \in Consumers, MarkRunningAttempt(c)
    PROVE  QueueInv'
<1> USE DEF QueueInv, MarkRunningAttempt, Goto, submission, record, queue, worker, history
<1>1. TypeOK'
  BY DEF TypeOK, Places, Statuses
<1>2. NamedAccepted'
  BY DEF NamedAccepted, TypeOK, Accepted
<1>3. EntriesDistinct'
  BY DEF EntriesDistinct
<1>4. AckJustified'
  BY DEF AckJustified, TypeOK, NamedAccepted, Accepted
<1>5. UndoHarmless'
  BY DEF UndoHarmless, TypeOK, NamedAccepted, AckJustified, Accepted
<1>6. NoJobLost'
  BY DEF NoJobLost, Waiting, Accepted, TypeOK, AckJustified, NamedAccepted
<1>7. PayloadKept'
  BY DEF PayloadKept, StagedDurably, Accepted, TypeOK, UndoHarmless, AckJustified, NamedAccepted
<1> QED
  BY <1>1, <1>2, <1>3, <1>4, <1>5, <1>6, <1>7

LEMMA MarkRunningStep ==
    ASSUME QueueInv, NEW c \in Consumers, MarkRunning(c)
    PROVE  QueueInv'
<1> USE DEF QueueInv, MarkRunning, SetStatus, Goto, submission, record, queue, worker, history
<1>1. TypeOK'
  BY DEF TypeOK, Places, Statuses
<1>2. NamedAccepted'
  BY DEF NamedAccepted, TypeOK, Accepted
<1>3. EntriesDistinct'
  BY DEF EntriesDistinct
<1>4. AckJustified'
  BY DEF AckJustified, TypeOK, NamedAccepted, Accepted
<1>5. UndoHarmless'
  BY DEF UndoHarmless, TypeOK, NamedAccepted, AckJustified, Accepted
<1>6. NoJobLost'
  BY DEF NoJobLost, Waiting, Accepted, TypeOK, AckJustified, NamedAccepted
<1>7. PayloadKept'
  BY DEF PayloadKept, StagedDurably, Accepted, TypeOK, UndoHarmless, AckJustified, NamedAccepted
<1> QED
  BY <1>1, <1>2, <1>3, <1>4, <1>5, <1>6, <1>7

LEMMA LoadPayloadStep ==
    ASSUME QueueInv, NEW c \in Consumers, LoadPayload(c)
    PROVE  QueueInv'
<1> USE DEF QueueInv, LoadPayload, Goto, submission, record, queue, worker, history
<1>1. TypeOK'
  BY DEF TypeOK, Places, Statuses
<1>2. NamedAccepted'
  BY DEF NamedAccepted, TypeOK, Accepted
<1>3. EntriesDistinct'
  BY DEF EntriesDistinct
<1>4. AckJustified'
  BY DEF AckJustified, TypeOK, NamedAccepted, Accepted
<1>5. UndoHarmless'
  BY DEF UndoHarmless, TypeOK, NamedAccepted, AckJustified, Accepted
<1>6. NoJobLost'
  BY DEF NoJobLost, Waiting, Accepted, TypeOK, AckJustified, NamedAccepted
<1>7. PayloadKept'
  BY DEF PayloadKept, StagedDurably, Accepted, TypeOK, UndoHarmless, AckJustified, NamedAccepted
<1> QED
  BY <1>1, <1>2, <1>3, <1>4, <1>5, <1>6, <1>7

LEMMA DoWorkStep ==
    ASSUME QueueInv, NEW c \in Consumers, DoWork(c)
    PROVE  QueueInv'
<1> USE DEF QueueInv, DoWork, Goto, submission, record, queue, worker, history
<1>1. TypeOK'
  BY DEF TypeOK, Places, Statuses, NamedAccepted, Accepted
<1>2. NamedAccepted'
  BY DEF NamedAccepted, TypeOK, Accepted
<1>3. EntriesDistinct'
  BY DEF EntriesDistinct
<1>4. AckJustified'
  BY DEF AckJustified, TypeOK, NamedAccepted, Accepted
<1>5. UndoHarmless'
  BY DEF UndoHarmless, TypeOK, NamedAccepted, AckJustified, Accepted
<1>6. NoJobLost'
  BY DEF NoJobLost, Waiting, Accepted, TypeOK, AckJustified, NamedAccepted
<1>7. PayloadKept'
  BY DEF PayloadKept, StagedDurably, Accepted, TypeOK, UndoHarmless, AckJustified, NamedAccepted
<1> QED
  BY <1>1, <1>2, <1>3, <1>4, <1>5, <1>6, <1>7

LEMMA DeletePayloadStep ==
    ASSUME QueueInv, NEW c \in Consumers, DeletePayload(c)
    PROVE  QueueInv'
<1> USE DEF QueueInv, DeletePayload, Goto, submission, record, queue, worker, history
<1>1. TypeOK'
  BY DEF TypeOK, Places, Statuses
<1>2. NamedAccepted'
  BY DEF NamedAccepted, TypeOK, Accepted
<1>3. EntriesDistinct'
  BY DEF EntriesDistinct
<1>4. AckJustified'
  BY DEF AckJustified, TypeOK, NamedAccepted, Accepted
<1>5. UndoHarmless'
  BY DEF UndoHarmless, TypeOK, NamedAccepted, AckJustified, Accepted
<1>6. NoJobLost'
  BY DEF NoJobLost, Waiting, Accepted, TypeOK, AckJustified, NamedAccepted
<1>7. PayloadKept'
  BY DEF PayloadKept, StagedDurably, Accepted, TypeOK, UndoHarmless, AckJustified, NamedAccepted
<1> QED
  BY <1>1, <1>2, <1>3, <1>4, <1>5, <1>6, <1>7

LEMMA ExecutionFailsStep ==
    ASSUME QueueInv, NEW c \in Consumers, ExecutionFails(c)
    PROVE  QueueInv'
<1> USE DEF QueueInv, ExecutionFails, Goto, submission, record, queue, worker, history
<1>1. TypeOK'
  BY DEF TypeOK, Places, Statuses
<1>2. NamedAccepted'
  BY DEF NamedAccepted, TypeOK, Accepted
<1>3. EntriesDistinct'
  BY DEF EntriesDistinct
<1>4. AckJustified'
  BY DEF AckJustified, TypeOK, NamedAccepted, Accepted
<1>5. UndoHarmless'
  BY DEF UndoHarmless, TypeOK, NamedAccepted, AckJustified, Accepted
<1>6. NoJobLost'
  BY DEF NoJobLost, Waiting, Accepted, TypeOK, AckJustified, NamedAccepted
<1>7. PayloadKept'
  BY DEF PayloadKept, StagedDurably, Accepted, TypeOK, UndoHarmless, AckJustified, NamedAccepted
<1> QED
  BY <1>1, <1>2, <1>3, <1>4, <1>5, <1>6, <1>7

LEMMA MarkSucceededStep ==
    ASSUME QueueInv, NEW c \in Consumers, MarkSucceeded(c)
    PROVE  QueueInv'
<1> USE DEF QueueInv, MarkSucceeded, SetStatus, Goto, submission, record, queue, worker, history
<1>1. TypeOK'
  BY DEF TypeOK, Places, Statuses
<1>2. NamedAccepted'
  BY DEF NamedAccepted, TypeOK, Accepted
<1>3. EntriesDistinct'
  BY DEF EntriesDistinct
<1>4. AckJustified'
  BY DEF AckJustified, TypeOK, NamedAccepted, Accepted
<1>5. UndoHarmless'
  BY DEF UndoHarmless, TypeOK, NamedAccepted, AckJustified, Accepted
<1>6. NoJobLost'
  BY DEF NoJobLost, Waiting, Accepted, TypeOK, AckJustified, NamedAccepted
<1>7. PayloadKept'
  BY DEF PayloadKept, StagedDurably, Accepted, TypeOK, UndoHarmless, AckJustified, NamedAccepted
<1> QED
  BY <1>1, <1>2, <1>3, <1>4, <1>5, <1>6, <1>7

LEMMA DeadLetterStep ==
    ASSUME QueueInv, NEW c \in Consumers, DeadLetter(c)
    PROVE  QueueInv'
<1> USE DEF QueueInv, DeadLetter, Goto, submission, record, queue, worker, history
<1>1. TypeOK'
  BY DEF TypeOK, Places, Statuses
<1>2. NamedAccepted'
  BY DEF NamedAccepted, TypeOK, Accepted
<1>3. EntriesDistinct'
  BY DEF EntriesDistinct
<1>4. AckJustified'
  BY DEF AckJustified, TypeOK, NamedAccepted, Accepted
<1>5. UndoHarmless'
  BY DEF UndoHarmless, TypeOK, NamedAccepted, AckJustified, Accepted
<1>6. NoJobLost'
  BY DEF NoJobLost, Waiting, Accepted, TypeOK, AckJustified, NamedAccepted
<1>7. PayloadKept'
  BY DEF PayloadKept, StagedDurably, Accepted, TypeOK, UndoHarmless, AckJustified, NamedAccepted
<1> QED
  BY <1>1, <1>2, <1>3, <1>4, <1>5, <1>6, <1>7

LEMMA AckStep ==
    ASSUME QueueInv, NEW c \in Consumers, Ack(c)
    PROVE  QueueInv'
<1> USE DEF QueueInv, Ack, Leave, submission, record, queue, worker, history
<1>1. TypeOK'
  BY DEF TypeOK, Places, Statuses
<1>2. NamedAccepted'
  BY DEF NamedAccepted, TypeOK, Accepted
<1>3. EntriesDistinct'
  BY DEF EntriesDistinct
<1>4. AckJustified'
  BY DEF AckJustified, TypeOK, NamedAccepted, Accepted
<1>5. UndoHarmless'
  BY DEF UndoHarmless, TypeOK, NamedAccepted, AckJustified, Accepted
<1>6. NoJobLost'
  BY DEF NoJobLost, Waiting, Accepted, TypeOK, AckJustified, NamedAccepted
<1>7. PayloadKept'
  BY DEF PayloadKept, StagedDurably, Accepted, TypeOK, UndoHarmless, AckJustified, NamedAccepted
<1> QED
  BY <1>1, <1>2, <1>3, <1>4, <1>5, <1>6, <1>7

LEMMA AbandonStep ==
    ASSUME QueueInv, NEW c \in Consumers, Abandon(c)
    PROVE  QueueInv'
<1> USE DEF QueueInv, Abandon, Leave, submission, record, queue, worker, history
<1>1. TypeOK'
  BY QueueAssumption DEF TypeOK, Places, Statuses
<1>2. NamedAccepted'
  BY DEF NamedAccepted, TypeOK, Accepted
<1>3. EntriesDistinct'
  BY DEF EntriesDistinct
<1>4. AckJustified'
  BY DEF AckJustified, TypeOK, NamedAccepted, Accepted
<1>5. UndoHarmless'
  BY DEF UndoHarmless, TypeOK, NamedAccepted, AckJustified, Accepted
<1>6. NoJobLost'
  BY DEF NoJobLost, Waiting, Accepted, TypeOK, AckJustified, NamedAccepted
<1>7. PayloadKept'
  BY DEF PayloadKept, StagedDurably, Accepted, TypeOK, UndoHarmless, AckJustified, NamedAccepted
<1> QED
  BY <1>1, <1>2, <1>3, <1>4, <1>5, <1>6, <1>7

LEMMA StageBatchStep ==
    ASSUME QueueInv, NEW r \in Batches, StageBatch(r)
    PROVE  QueueInv'
<1> USE DEF QueueInv, StageBatch, submission, record, queue, worker, history
<1>1. TypeOK'
  BY DEF TypeOK, Places, Statuses
<1>2. NamedAccepted'
  BY DEF NamedAccepted, TypeOK, Accepted
<1>3. EntriesDistinct'
  BY DEF EntriesDistinct
<1>4. AckJustified'
  BY DEF AckJustified, TypeOK, NamedAccepted, Accepted
<1>5. UndoHarmless'
  BY DEF UndoHarmless, TypeOK, NamedAccepted, AckJustified, Accepted
<1>6. NoJobLost'
  BY DEF NoJobLost, Waiting, Accepted, TypeOK, AckJustified, NamedAccepted
<1>7. PayloadKept'
  BY DEF PayloadKept, StagedDurably, Accepted, TypeOK, UndoHarmless, AckJustified, NamedAccepted
<1> QED
  BY <1>1, <1>2, <1>3, <1>4, <1>5, <1>6, <1>7

LEMMA EnqueueFailedStep ==
    ASSUME QueueInv, NEW r \in Batches, EnqueueFailed(r)
    PROVE  QueueInv'
<1> USE DEF QueueInv, EnqueueFailed, submission, record, queue, worker, history
<1>1. TypeOK'
  BY DEF TypeOK, Places, Statuses
<1>2. NamedAccepted'
  BY DEF NamedAccepted, TypeOK, Accepted
<1>3. EntriesDistinct'
  BY DEF EntriesDistinct
<1>4. AckJustified'
  BY DEF AckJustified, TypeOK, NamedAccepted, Accepted
<1>5. UndoHarmless'
  BY DEF UndoHarmless, TypeOK, NamedAccepted, AckJustified, Accepted
<1>6. NoJobLost'
  BY DEF NoJobLost, Waiting, Accepted, TypeOK, AckJustified, NamedAccepted
<1>7. PayloadKept'
  BY DEF PayloadKept, StagedDurably, Accepted, TypeOK, UndoHarmless, AckJustified, NamedAccepted
<1> QED
  BY <1>1, <1>2, <1>3, <1>4, <1>5, <1>6, <1>7

LEMMA UnstageBatchStep ==
    ASSUME QueueInv, NEW r \in Batches, UnstageBatch(r)
    PROVE  QueueInv'
<1> USE DEF QueueInv, UnstageBatch, submission, record, queue, worker, history
<1>1. TypeOK'
  BY DEF TypeOK, Places, Statuses
<1>2. NamedAccepted'
  BY DEF NamedAccepted, TypeOK, Accepted
<1>3. EntriesDistinct'
  BY DEF EntriesDistinct
<1>4. AckJustified'
  BY DEF AckJustified, TypeOK, NamedAccepted, Accepted
<1>5. UndoHarmless'
  BY DEF UndoHarmless, TypeOK, NamedAccepted, AckJustified, Accepted
<1>6. NoJobLost'
  BY DEF NoJobLost, Waiting, Accepted, TypeOK, AckJustified, NamedAccepted
<1>7. PayloadKept'
  BY DEF PayloadKept, StagedDurably, Accepted, TypeOK, UndoHarmless, AckJustified, NamedAccepted
<1> QED
  BY <1>1, <1>2, <1>3, <1>4, <1>5, <1>6, <1>7

LEMMA CooldownEndsStep ==
    ASSUME QueueInv, NEW r \in Requests, CooldownEnds(r)
    PROVE  QueueInv'
<1> USE DEF QueueInv, CooldownEnds, submission, record, queue, worker, history
<1>1. TypeOK'
  BY DEF TypeOK, Places, Statuses
<1>2. NamedAccepted'
  BY DEF NamedAccepted, TypeOK, Accepted
<1>3. EntriesDistinct'
  BY DEF EntriesDistinct
<1>4. AckJustified'
  BY DEF AckJustified, TypeOK, NamedAccepted, Accepted
<1>5. UndoHarmless'
  BY DEF UndoHarmless, TypeOK, NamedAccepted, AckJustified, Accepted
<1>6. NoJobLost'
  BY DEF NoJobLost, Waiting, Accepted, TypeOK, AckJustified, NamedAccepted
<1>7. PayloadKept'
  BY DEF PayloadKept, StagedDurably, Accepted, TypeOK, UndoHarmless, AckJustified, NamedAccepted
<1> QED
  BY <1>1, <1>2, <1>3, <1>4, <1>5, <1>6, <1>7

LEMMA StatusExpiresStep ==
    ASSUME QueueInv, NEW j \in Jobs, StatusExpires(j)
    PROVE  QueueInv'
<1> USE DEF QueueInv, StatusExpires, submission, record, queue, worker, history
<1>1. TypeOK'
  BY DEF TypeOK, Places, Statuses
<1>2. NamedAccepted'
  BY DEF NamedAccepted, TypeOK, Accepted
<1>3. EntriesDistinct'
  BY DEF EntriesDistinct
<1>4. AckJustified'
  BY DEF AckJustified, TypeOK, NamedAccepted, Accepted
<1>5. UndoHarmless'
  BY DEF UndoHarmless, TypeOK, NamedAccepted, AckJustified, Accepted
<1>6. NoJobLost'
  BY DEF NoJobLost, Waiting, Accepted, TypeOK, AckJustified, NamedAccepted
<1>7. PayloadKept'
  BY DEF PayloadKept, StagedDurably, Accepted, TypeOK, UndoHarmless, AckJustified, NamedAccepted
<1> QED
  BY <1>1, <1>2, <1>3, <1>4, <1>5, <1>6, <1>7

LEMMA WindowEndsStep ==
    ASSUME QueueInv, NEW k \in Kinds, WindowEnds(k)
    PROVE  QueueInv'
<1> USE DEF QueueInv, WindowEnds, submission, record, queue, worker, history
<1>1. TypeOK'
  BY QueueAssumption DEF TypeOK, Places, Statuses
<1>2. NamedAccepted'
  BY DEF NamedAccepted, TypeOK, Accepted
<1>3. EntriesDistinct'
  BY DEF EntriesDistinct
<1>4. AckJustified'
  BY DEF AckJustified, TypeOK, NamedAccepted, Accepted
<1>5. UndoHarmless'
  BY DEF UndoHarmless, TypeOK, NamedAccepted, AckJustified, Accepted
<1>6. NoJobLost'
  BY DEF NoJobLost, Waiting, Accepted, TypeOK, AckJustified, NamedAccepted
<1>7. PayloadKept'
  BY DEF PayloadKept, StagedDurably, Accepted, TypeOK, UndoHarmless, AckJustified, NamedAccepted
<1> QED
  BY <1>1, <1>2, <1>3, <1>4, <1>5, <1>6, <1>7

LEMMA PurgeDeadLettersStep ==
    ASSUME QueueInv, PurgeDeadLetters
    PROVE  QueueInv'
<1> USE DEF QueueInv, PurgeDeadLetters, submission, record, queue, worker, history
<1>1. TypeOK'
  BY DEF TypeOK, Places, Statuses
<1>2. NamedAccepted'
  BY DEF NamedAccepted, TypeOK, Accepted
<1>3. EntriesDistinct'
  BY DEF EntriesDistinct
<1>4. AckJustified'
  BY DEF AckJustified, TypeOK, NamedAccepted, Accepted
<1>5. UndoHarmless'
  BY DEF UndoHarmless, TypeOK, NamedAccepted, AckJustified, Accepted
<1>6. NoJobLost'
  BY DEF NoJobLost, Waiting, Accepted, TypeOK, AckJustified, NamedAccepted
<1>7. PayloadKept'
  BY DEF PayloadKept, StagedDurably, Accepted, TypeOK, UndoHarmless, AckJustified, NamedAccepted
<1> QED
  BY <1>1, <1>2, <1>3, <1>4, <1>5, <1>6, <1>7

LEMMA StutterStep ==
    ASSUME QueueInv, UNCHANGED vars
    PROVE  QueueInv'
<1> USE DEF QueueInv, vars
<1>1. TypeOK'
  BY DEF TypeOK, Places, Statuses
<1>2. NamedAccepted'
  BY DEF NamedAccepted, TypeOK, Accepted
<1>3. EntriesDistinct'
  BY DEF EntriesDistinct
<1>4. AckJustified'
  BY DEF AckJustified, TypeOK, NamedAccepted, Accepted
<1>5. UndoHarmless'
  BY DEF UndoHarmless, TypeOK, NamedAccepted, AckJustified, Accepted
<1>6. NoJobLost'
  BY DEF NoJobLost, Waiting, Accepted, TypeOK, AckJustified, NamedAccepted
<1>7. PayloadKept'
  BY DEF PayloadKept, StagedDurably, Accepted, TypeOK, UndoHarmless, AckJustified, NamedAccepted
<1> QED
  BY <1>1, <1>2, <1>3, <1>4, <1>5, <1>6, <1>7

LEMMA MarkFailedTerminal ==
    ASSUME QueueInv, NEW c \in Consumers, pc[c] = "fail",
           SetStatus(job[c], "FAILED"), Goto(c, "bury"), UNCHANGED <<job, attempt>>,
           UNCHANGED <<submission, req, backlog, pending, dead, history>>
    PROVE  QueueInv'
<1> USE DEF QueueInv, SetStatus, Goto, submission, record, queue, worker, history
<1>1. TypeOK'
  BY DEF TypeOK, Places, Statuses
<1>2. NamedAccepted'
  BY DEF NamedAccepted, TypeOK, Accepted
<1>3. EntriesDistinct'
  BY DEF EntriesDistinct
<1>4. AckJustified'
  BY DEF AckJustified, TypeOK, NamedAccepted, Accepted
<1>5. UndoHarmless'
  BY DEF UndoHarmless, TypeOK, NamedAccepted, AckJustified, Accepted
<1>6. NoJobLost'
  BY DEF NoJobLost, Waiting, Accepted, TypeOK, AckJustified, NamedAccepted
<1>7. PayloadKept'
  BY DEF PayloadKept, StagedDurably, Accepted, TypeOK, UndoHarmless, AckJustified, NamedAccepted
<1> QED
  BY <1>1, <1>2, <1>3, <1>4, <1>5, <1>6, <1>7

LEMMA MarkFailedRetry ==
    ASSUME QueueInv, NEW c \in Consumers, pc[c] = "fail",
           SetStatus(job[c], "RETRYING"), Leave(c),
           UNCHANGED <<submission, req, backlog, pending, dead, history>>
    PROVE  QueueInv'
<1> USE DEF QueueInv, SetStatus, Leave, submission, record, queue, worker, history
<1>1. TypeOK'
  BY QueueAssumption DEF TypeOK, Places, Statuses
<1>2. NamedAccepted'
  BY QueueAssumption DEF NamedAccepted, TypeOK, Accepted
<1>3. EntriesDistinct'
  BY QueueAssumption DEF EntriesDistinct
<1>4. AckJustified'
  BY QueueAssumption DEF AckJustified, TypeOK, NamedAccepted, Accepted
<1>5. UndoHarmless'
  BY QueueAssumption DEF UndoHarmless, TypeOK, NamedAccepted, AckJustified, Accepted
<1>6. NoJobLost'
  BY QueueAssumption DEF NoJobLost, Waiting, Accepted, TypeOK, AckJustified, NamedAccepted
<1>7. PayloadKept'
  BY QueueAssumption DEF PayloadKept, StagedDurably, Accepted, TypeOK, UndoHarmless, AckJustified, NamedAccepted
<1> QED
  BY <1>1, <1>2, <1>3, <1>4, <1>5, <1>6, <1>7

LEMMA MarkFailedStep ==
    ASSUME QueueInv, NEW c \in Consumers, MarkFailed(c)
    PROVE  QueueInv'
BY MarkFailedTerminal, MarkFailedRetry DEF MarkFailed

LEMMA ReadStatusGoesOn ==
    ASSUME QueueInv, NEW c \in Consumers, pc[c] = "got",
           NEW p \in {"start", "missing"}, p = "missing" => hash[job[c]] = "absent",
           Goto(c, p), UNCHANGED <<job, attempt>>,
           UNCHANGED <<submission, req, backlog, pending, record, dead, history>>
    PROVE  QueueInv'
<1> USE DEF QueueInv, Goto, submission, record, queue, worker, history
<1>1. TypeOK'
  BY QueueAssumption DEF TypeOK, Places, Statuses
<1>2. NamedAccepted'
  BY DEF NamedAccepted, TypeOK, Accepted
<1>3. EntriesDistinct'
  BY DEF EntriesDistinct
<1>4. AckJustified'
  BY DEF AckJustified, TypeOK, NamedAccepted, Accepted
<1>5. UndoHarmless'
  BY DEF UndoHarmless, TypeOK, NamedAccepted, AckJustified, Accepted
<1>6. NoJobLost'
  BY DEF NoJobLost, Waiting, Accepted, TypeOK, AckJustified, NamedAccepted
<1>7. PayloadKept'
  BY DEF PayloadKept, StagedDurably, Accepted, TypeOK, UndoHarmless, AckJustified, NamedAccepted
<1> QED
  BY <1>1, <1>2, <1>3, <1>4, <1>5, <1>6, <1>7

LEMMA ReadStatusLeaves ==
    ASSUME QueueInv, NEW c \in Consumers, pc[c] = "got", Leave(c),
           UNCHANGED <<submission, req, backlog, pending, record, dead, history>>
    PROVE  QueueInv'
<1> USE DEF QueueInv, Leave, submission, record, queue, worker, history
<1>1. TypeOK'
  BY QueueAssumption DEF TypeOK, Places, Statuses
<1>2. NamedAccepted'
  BY DEF NamedAccepted, TypeOK, Accepted
<1>3. EntriesDistinct'
  BY DEF EntriesDistinct
<1>4. AckJustified'
  BY DEF AckJustified, TypeOK, NamedAccepted, Accepted
<1>5. UndoHarmless'
  BY DEF UndoHarmless, TypeOK, NamedAccepted, AckJustified, Accepted
<1>6. NoJobLost'
  BY DEF NoJobLost, Waiting, Accepted, TypeOK, AckJustified, NamedAccepted
<1>7. PayloadKept'
  BY DEF PayloadKept, StagedDurably, Accepted, TypeOK, UndoHarmless, AckJustified, NamedAccepted
<1> QED
  BY <1>1, <1>2, <1>3, <1>4, <1>5, <1>6, <1>7

LEMMA ReadStatusStep ==
    ASSUME QueueInv, NEW c \in Consumers, ReadStatus(c)
    PROVE  QueueInv'
BY ReadStatusGoesOn, ReadStatusLeaves DEF ReadStatus

-----------------------------------------------------------------------------
(* The stream                                                              *)

Injective(s) == \A m, n \in DOMAIN s : s[m] = s[n] => m = n

LEMMA HeadTail ==
    ASSUME NEW s \in Seq(Jobs), s # <<>>
    PROVE  /\ Head(s) \in Jobs /\ Tail(s) \in Seq(Jobs)
           /\ ToSet(s) = {Head(s)} \cup ToSet(Tail(s))
           /\ Injective(s) => Injective(Tail(s)) /\ Head(s) \notin ToSet(Tail(s))
<1>1. /\ Head(s) = s[1] /\ Len(s) \in Nat /\ Len(s) >= 1 /\ DOMAIN s = 1 .. Len(s)
      /\ Tail(s) \in Seq(Jobs) /\ DOMAIN Tail(s) = 1 .. Len(s) - 1
      /\ \A n \in 1 .. Len(s) - 1 : Tail(s)[n] = s[n + 1]
  OBVIOUS
<1>2. Head(s) \in Jobs
  BY <1>1
<1>3. ToSet(s) \subseteq {Head(s)} \cup ToSet(Tail(s))
  <2>1. SUFFICES ASSUME NEW n \in 1 .. Len(s), n # 1
                 PROVE  s[n] \in ToSet(Tail(s))
    BY <1>1 DEF ToSet
  <2>2. n - 1 \in DOMAIN Tail(s) /\ Tail(s)[n - 1] = s[n]
    BY <2>1, <1>1
  <2> QED
    BY <2>2 DEF ToSet
<1>4. {Head(s)} \cup ToSet(Tail(s)) \subseteq ToSet(s)
  BY <1>1 DEF ToSet
<1>5. ASSUME Injective(s)
      PROVE  Injective(Tail(s)) /\ Head(s) \notin ToSet(Tail(s))
  BY <1>1, <1>5 DEF Injective, ToSet
<1> QED
  BY <1>1, <1>2, <1>3, <1>4, <1>5

LEMMA Appended ==
    ASSUME NEW s \in Seq(Jobs), NEW j \in Jobs
    PROVE  /\ Append(s, j) \in Seq(Jobs)
           /\ ToSet(Append(s, j)) = ToSet(s) \cup {j}
           /\ Injective(s) /\ j \notin ToSet(s) => Injective(Append(s, j))
<1>1. /\ Len(s) \in Nat /\ DOMAIN s = 1 .. Len(s)
      /\ Append(s, j) \in Seq(Jobs) /\ DOMAIN Append(s, j) = 1 .. Len(s) + 1
      /\ Append(s, j)[Len(s) + 1] = j
      /\ \A n \in 1 .. Len(s) : Append(s, j)[n] = s[n]
  OBVIOUS
<1>2. ToSet(Append(s, j)) = ToSet(s) \cup {j}
  BY <1>1 DEF ToSet
<1>3. Injective(s) /\ j \notin ToSet(s) => Injective(Append(s, j))
  BY <1>1 DEF Injective, ToSet
<1> QED
  BY <1>1, <1>2, <1>3

LEMMA ReadNewStep ==
    ASSUME QueueInv, NEW c \in Consumers, ReadNew(c)
    PROVE  QueueInv'
<1> USE DEF QueueInv
<1> DEFINE j == Head(backlog)
<1>1. /\ pc[c] = "idle" /\ pc' = [pc EXCEPT ![c] = "got"] /\ job' = [job EXCEPT ![c] = j]
      /\ backlog' = Tail(backlog) /\ pending' = pending \cup {j}
      /\ UNCHANGED <<payload, api, dedup, rate, reply, req, hash, status, attempts, dead,
                     attempt, written, buried, abandoned>>
  BY DEF ReadNew, Deliver, Goto, submission, record, history
<1>2. /\ j \in Jobs /\ backlog' \in Seq(Jobs)
      /\ ToSet(backlog) = {j} \cup ToSet(backlog')
      /\ Injective(backlog) => Injective(backlog') /\ j \notin ToSet(backlog')
  BY HeadTail DEF ReadNew, TypeOK
<1> HIDE DEF j
<1>3. TypeOK'
  BY <1>1, <1>2, QueueAssumption DEF TypeOK, Places
<1>4. NamedAccepted'
  BY <1>1, <1>2 DEF NamedAccepted, TypeOK, Accepted
<1>5. EntriesDistinct'
  <2>1. Injective(backlog)
    BY DEF EntriesDistinct, Injective
  <2>2. \A m, n \in DOMAIN backlog' : backlog'[m] = backlog'[n] => m = n
    BY <1>2, <2>1 DEF Injective
  <2> QED
    BY <1>1, <1>2, <2>1, <2>2 DEF EntriesDistinct
<1>6. AckJustified'
  BY <1>1 DEF AckJustified, TypeOK
<1>7. UndoHarmless'
  BY <1>1 DEF UndoHarmless
<1>8. NoJobLost'
  BY <1>1, <1>2 DEF NoJobLost, Waiting, Accepted
<1>9. PayloadKept'
  BY <1>1 DEF PayloadKept, StagedDurably, Accepted
<1> QED
  BY <1>3, <1>4, <1>5, <1>6, <1>7, <1>8, <1>9

\* The script: what it does to api is up to its caller.
LEMMA EnqueueStep ==
    ASSUME QueueInv, NEW r \in Requests, NEW via \in {"submit", "replay"}, Enqueue(r, via),
           payload' = payload,
           api' \in [Batches -> {"new", "staged", "undo", "done"}],
           \A q \in Batches : /\ api'[q] # "done" => api[q] # "done"
                              /\ api'[q] = "staged" => api[q] = "staged",
           ~LostReplies /\ r \in Batches =>
               /\ r \notin written => r \in payload
               /\ api'[r] # "done" => reply'.state # "QUEUED"
    PROVE  QueueInv'
<1> USE DEF QueueInv
<1>1. UNCHANGED <<pending, dead, pc, job, attempt, written, buried, abandoned>>
  BY DEF Enqueue
<1>2. KindOf(r) \in Kinds
  BY DEF KindOf, Kinds
<1>3. CASE /\ UNCHANGED <<dedup, req, backlog, hash, status, attempts>>
           /\ rate' \in [Kinds -> 0 .. SubmissionLimit + 1]
           /\ \E s \in {"DEDUPLICATED", "RATE_LIMITED"} : reply' = [via |-> via, state |-> s]
  <2>1. TypeOK'
    BY <1>1, <1>3 DEF TypeOK
  <2>2. NamedAccepted' /\ EntriesDistinct' /\ AckJustified'
    BY <1>1, <1>3 DEF NamedAccepted, EntriesDistinct, AckJustified, Accepted
  <2>3. UndoHarmless'
    BY <1>1, <1>3 DEF UndoHarmless
  <2>4. NoJobLost' /\ PayloadKept'
    BY <1>1, <1>3 DEF NoJobLost, Waiting, PayloadKept, StagedDurably, Accepted
  <2> QED
    BY <2>1, <2>2, <2>3, <2>4
<1>4. CASE EnqueueQueued(r) /\ reply' = [via |-> via, state |-> "QUEUED"]
  <2>1. PICK j \in Jobs \ Accepted :
           /\ req' = [req EXCEPT ![j] = r]
           /\ backlog' = Append(backlog, j)
           /\ hash' = [hash EXCEPT ![j] = "full"]
           /\ status' = [status EXCEPT ![j] = "QUEUED"]
           /\ attempts' = [attempts EXCEPT ![j] = 0]
           /\ dedup' = [dedup EXCEPT ![r] = j]
    BY <1>4 DEF EnqueueQueued
  <2>2. rate' \in [Kinds -> 0 .. SubmissionLimit + 1]
    BY <1>2, <1>4, QueueAssumption DEF EnqueueQueued, Bump, TypeOK
  <2>3. /\ backlog' \in Seq(Jobs) /\ ToSet(backlog') = ToSet(backlog) \cup {j}
        /\ Injective(backlog) /\ j \notin ToSet(backlog) => Injective(backlog')
    BY <2>1, Appended DEF TypeOK
  <2>4. /\ req'[j] = r /\ \A i \in Jobs \ {j} : req'[i] = req[i]
        /\ hash'[j] = "full" /\ \A i \in Jobs \ {j} : hash'[i] = hash[i]
        /\ Accepted' = Accepted \cup {j} /\ j \notin Accepted
    BY <2>1 DEF TypeOK, Accepted
  <2>5. TypeOK'
    BY <1>1, <1>4, <2>1, <2>2, <2>3 DEF TypeOK, Statuses
  <2>6. NamedAccepted'
    BY <1>1, <2>1, <2>3, <2>4 DEF NamedAccepted
  <2>7. EntriesDistinct'
    <3>1. Injective(backlog) /\ j \notin ToSet(backlog) /\ j \notin pending
      BY <2>4 DEF EntriesDistinct, Injective, NamedAccepted
    <3>2. \A m, n \in DOMAIN backlog' : backlog'[m] = backlog'[n] => m = n
      BY <3>1, <2>3 DEF Injective
    <3> QED
      BY <1>1, <3>1, <3>2, <2>3 DEF EntriesDistinct
  <2>8. AckJustified'
    <3>1. \A c \in Consumers : pc[c] # "idle" =>
              req'[job[c]] = req[job[c]] /\ hash'[job[c]] = hash[job[c]]
      <4>1. \A c \in Consumers : pc[c] # "idle" => job[c] \in Jobs \ {j}
        BY <2>4 DEF NamedAccepted, Accepted
      <4> QED
        BY <4>1, <2>4
    <3> QED
      BY <1>1, <3>1 DEF AckJustified
  <2>9. UndoHarmless'
    <3>1. SUFFICES ASSUME ~LostReplies, NEW q \in Batches, api'[q] # "done"
                   PROVE  /\ \A i \in Jobs : req'[i] # q
                          /\ api'[q] = "staged" => q \in payload'
      BY DEF UndoHarmless
    <3>2. q # r
      BY <1>4, <3>1
    <3> QED
      BY <3>1, <3>2, <2>4 DEF UndoHarmless
  <2>10. NoJobLost'
    BY <1>1, <2>3, <2>4 DEF NoJobLost, Waiting, Accepted
  <2>11. PayloadKept'
    <3>1. SUFFICES ASSUME ~LostReplies, NEW i \in Accepted', req'[i] \in Batches \ written
                   PROVE  req'[i] \in payload
      BY <1>1 DEF PayloadKept, StagedDurably
    <3>2. CASE i = j
      BY <3>1, <3>2, <2>4
    <3>3. CASE i # j
      <4>1. i \in Accepted /\ req'[i] = req[i]
        BY <3>1, <3>3, <2>4 DEF Accepted
      <4> QED
        BY <3>1, <4>1 DEF PayloadKept, StagedDurably
    <3> QED
      BY <3>2, <3>3
  <2> QED
    BY <2>5, <2>6, <2>7, <2>8, <2>9, <2>10, <2>11
<1>5. CASE EnqueueDeduplicated(r) /\ reply' = [via |-> via, state |-> "DEDUPLICATED"]
  BY <1>3, <1>5 DEF EnqueueDeduplicated, record, TypeOK
<1>6. CASE EnqueueRateLimited(r) /\ reply' = [via |-> via, state |-> "RATE_LIMITED"]
  <2>1. rate' \in [Kinds -> 0 .. SubmissionLimit + 1]
    BY <1>2, <1>6, QueueAssumption DEF EnqueueRateLimited, Bump, TypeOK
  <2> QED
    BY <1>3, <1>6, <2>1 DEF EnqueueRateLimited, record
<1> QED
  BY <1>4, <1>5, <1>6 DEF Enqueue

LEMMA SubmitReindexStep ==
    ASSUME QueueInv, NEW r \in Requests, SubmitReindex(r)
    PROVE  QueueInv'
<1>1. /\ r \notin Batches /\ Enqueue(r, "submit") /\ payload' = payload /\ api' = api
      /\ api \in [Batches -> {"new", "staged", "undo", "done"}]
  BY DEF SubmitReindex, QueueInv, TypeOK
<1> QED
  BY <1>1, EnqueueStep

LEMMA EnqueueBatchStep ==
    ASSUME QueueInv, NEW r \in Batches, EnqueueBatch(r)
    PROVE  QueueInv'
<1>1. /\ r \in Requests /\ Enqueue(r, "submit") /\ payload' = payload /\ api[r] = "staged"
      /\ api \in [Batches -> {"new", "staged", "undo", "done"}]
  BY QueueAssumption DEF EnqueueBatch, QueueInv, TypeOK
<1>2. /\ \E s \in {"undo", "done"} : api' = [api EXCEPT ![r] = s]
      /\ ~LostReplies /\ api'[r] # "done" => reply'.state = "RATE_LIMITED"
  BY <1>1 DEF EnqueueBatch
<1>3. /\ api' \in [Batches -> {"new", "staged", "undo", "done"}]
      /\ \A q \in Batches : /\ api'[q] # "done" => api[q] # "done"
                            /\ api'[q] = "staged" => api[q] = "staged"
  BY <1>1, <1>2
<1>4. ~LostReplies => r \in payload
  BY <1>1 DEF QueueInv, UndoHarmless
<1> QED
  BY <1>1, <1>2, <1>3, <1>4, EnqueueStep

LEMMA ReplayDeadLetterStep ==
    ASSUME QueueInv, NEW j \in Jobs, ReplayDeadLetter(j)
    PROVE  QueueInv'
<1>1. j \in Accepted
  BY DEF ReplayDeadLetter, QueueInv, NamedAccepted
<1>2. /\ req[j] \in Requests /\ Enqueue(req[j], "replay") /\ payload' = payload /\ api' = api
      /\ api \in [Batches -> {"new", "staged", "undo", "done"}]
  BY <1>1 DEF ReplayDeadLetter, QueueInv, TypeOK, Accepted
<1>3. ~LostReplies /\ req[j] \in Batches =>
        /\ req[j] \notin written => req[j] \in payload
        /\ api[req[j]] = "done"
  BY <1>1 DEF QueueInv, PayloadKept, StagedDurably, UndoHarmless
<1> QED
  BY <1>2, <1>3, EnqueueStep

LEMMA InitHolds ==
    ASSUME Init
    PROVE  QueueInv
<1> USE DEF Init
<1>1. ToSet(backlog) = {}
  BY DEF ToSet
<1>2. Accepted = {}
  BY QueueAssumption DEF Accepted
<1>3. TypeOK
  BY QueueAssumption DEF TypeOK, Statuses, Places
<1>4. NamedAccepted /\ EntriesDistinct /\ AckJustified
  BY <1>1 DEF NamedAccepted, EntriesDistinct, AckJustified
<1>5. UndoHarmless
  BY QueueAssumption DEF UndoHarmless
<1>6. NoJobLost /\ PayloadKept
  BY <1>2 DEF NoJobLost, PayloadKept, StagedDurably
<1> QED
  BY <1>3, <1>4, <1>5, <1>6 DEF QueueInv

LEMMA QueueStep ==
    ASSUME QueueInv, [Next]_vars
    PROVE  QueueInv'
<1>1. CASE \E r \in Requests : Submit(r) \/ CooldownEnds(r)
  BY <1>1, SubmitReindexStep, StageBatchStep, EnqueueBatchStep, EnqueueFailedStep,
     UnstageBatchStep, CooldownEndsStep DEF Submit
<1>2. CASE \E j \in Jobs : ReplayDeadLetter(j) \/ StatusExpires(j)
  BY <1>2, ReplayDeadLetterStep, StatusExpiresStep
<1>3. CASE PurgeDeadLetters
  BY <1>3, PurgeDeadLettersStep
<1>4. CASE \E c \in Consumers : Work(c) \/ Abandon(c)
  BY <1>4, ClaimStep, ReadNewStep, ReadStatusStep, MarkRunningAttemptStep, MarkRunningStep,
     LoadPayloadStep, DoWorkStep, DeletePayloadStep, ExecutionFailsStep, MarkSucceededStep,
     MarkFailedStep, DeadLetterStep, AckStep, AbandonStep DEF Work
<1>5. CASE \E k \in Kinds : WindowEnds(k)
  BY <1>5, WindowEndsStep
<1>6. CASE UNCHANGED vars
  BY <1>6, StutterStep
<1> QED
  BY <1>1, <1>2, <1>3, <1>4, <1>5, <1>6 DEF Next

\* The inductive invariant: an entry is acknowledged only by a loop that knows
\* its job to be carried out, dead-lettered or without a status hash, and a
\* submission is undone only before the job exists.
THEOREM QueueInvariant == Spec => []QueueInv
BY InitHolds, QueueStep, PTL DEF Spec

\* The variables keep their types; a loop holds a job exactly while it is busy.
THEOREM QueueTypeOK == Spec => []TypeOK
BY QueueInvariant, PTL DEF QueueInv

\* XACK comes last in mark_succeeded and mark_failed: no accepted job leaves
\* the stream unfinished and unrecorded, whatever loop dies or is overtaken.
THEOREM QueueNoJobLost == Spec => []NoJobLost
BY QueueInvariant, PTL DEF QueueInv

\* Without lost replies the staged operations of a batch outlive every retry,
\* crash and replay until they are carried out.
THEOREM QueuePayloadKept == Spec => []PayloadKept
BY QueueInvariant, PTL DEF QueueInv

-----------------------------------------------------------------------------
(* One consumer loop                                                      *)

LEMMA LoopClaim ==
    ASSUME OneLoop, QueueInv, LoopInv, NEW c \in Consumers, Claim(c)
    PROVE  LoopInv'
<1> USE QueueAssumption DEF OneLoop, QueueInv, LoopInv, Claim, Deliver, Goto, submission, record, queue, worker, history
<1>1. LoopOwnsJob'
  BY DEF LoopOwnsJob, Attempting, AckJustified, TypeOK, NamedAccepted, Accepted
<1>2. AttemptLeft'
  BY DEF AttemptLeft, Waiting, Attempting, LoopOwnsJob, RetryBudget, EntriesDistinct, TypeOK, NamedAccepted, Accepted
<1>3. StatusHonest'
  BY DEF StatusHonest, Waiting, AckJustified, LoopOwnsJob, TypeOK, NamedAccepted, Accepted
<1>4. RetryBudget'
  BY DEF RetryBudget, AttemptLeft, Waiting, Attempting, LoopOwnsJob, TypeOK, NamedAccepted, Accepted
<1> QED
  BY <1>1, <1>2, <1>3, <1>4

LEMMA LoopMarkRunningAttempt ==
    ASSUME OneLoop, QueueInv, LoopInv, NEW c \in Consumers, MarkRunningAttempt(c)
    PROVE  LoopInv'
<1> USE QueueAssumption DEF OneLoop, QueueInv, LoopInv, MarkRunningAttempt, Goto, submission, record, queue, worker, history
<1>1. LoopOwnsJob'
  BY DEF LoopOwnsJob, Attempting, AckJustified, TypeOK, NamedAccepted, Accepted
<1>2. AttemptLeft'
  BY DEF AttemptLeft, Waiting, Attempting, LoopOwnsJob, RetryBudget, EntriesDistinct, TypeOK, NamedAccepted, Accepted
<1>3. StatusHonest'
  BY DEF StatusHonest, Waiting, AckJustified, LoopOwnsJob, TypeOK, NamedAccepted, Accepted
<1>4. RetryBudget'
  <2>1. job[c] \in Jobs /\ job[c] \in pending /\ ~Attempting(c)
    BY DEF LoopOwnsJob, Attempting, TypeOK
  <2>2. hash[job[c]] = "full" => attempts[job[c]] < MaxAttempts + abandoned
    BY <2>1 DEF AttemptLeft, Waiting
  <2>3. \A j \in Jobs : hash'[j] = "full" =>
            hash[j] = "full" /\ attempts'[j] = IF j = job[c] THEN attempts[j] + 1 ELSE attempts[j]
    BY <2>1 DEF TypeOK
  <2>4. \A j \in Jobs : attempts[j] \in Nat /\ abandoned \in Nat
    BY DEF TypeOK
  <2> QED
    BY <2>1, <2>2, <2>3, <2>4 DEF RetryBudget
<1> QED
  BY <1>1, <1>2, <1>3, <1>4

LEMMA LoopMarkRunning ==
    ASSUME OneLoop, QueueInv, LoopInv, NEW c \in Consumers, MarkRunning(c)
    PROVE  LoopInv'
<1> USE QueueAssumption DEF OneLoop, QueueInv, LoopInv, MarkRunning, SetStatus, Goto, submission, record, queue, worker, history
<1>1. LoopOwnsJob'
  BY DEF LoopOwnsJob, Attempting, AckJustified, TypeOK, NamedAccepted, Accepted
<1>2. AttemptLeft'
  BY DEF AttemptLeft, Waiting, Attempting, LoopOwnsJob, RetryBudget, EntriesDistinct, TypeOK, NamedAccepted, Accepted
<1>3. StatusHonest'
  BY DEF StatusHonest, Waiting, AckJustified, LoopOwnsJob, TypeOK, NamedAccepted, Accepted
<1>4. RetryBudget'
  BY DEF RetryBudget, AttemptLeft, Waiting, Attempting, LoopOwnsJob, TypeOK, NamedAccepted, Accepted
<1> QED
  BY <1>1, <1>2, <1>3, <1>4

LEMMA LoopLoadPayload ==
    ASSUME OneLoop, QueueInv, LoopInv, NEW c \in Consumers, LoadPayload(c)
    PROVE  LoopInv'
<1> USE QueueAssumption DEF OneLoop, QueueInv, LoopInv, LoadPayload, Goto, submission, record, queue, worker, history
<1>1. LoopOwnsJob'
  BY DEF LoopOwnsJob, Attempting, AckJustified, TypeOK, NamedAccepted, Accepted
<1>2. AttemptLeft'
  BY DEF AttemptLeft, Waiting, Attempting, LoopOwnsJob, RetryBudget, EntriesDistinct, TypeOK, NamedAccepted, Accepted
<1>3. StatusHonest'
  BY DEF StatusHonest, Waiting, AckJustified, LoopOwnsJob, TypeOK, NamedAccepted, Accepted
<1>4. RetryBudget'
  BY DEF RetryBudget, AttemptLeft, Waiting, Attempting, LoopOwnsJob, TypeOK, NamedAccepted, Accepted
<1> QED
  BY <1>1, <1>2, <1>3, <1>4

LEMMA LoopDoWork ==
    ASSUME OneLoop, QueueInv, LoopInv, NEW c \in Consumers, DoWork(c)
    PROVE  LoopInv'
<1> USE QueueAssumption DEF OneLoop, QueueInv, LoopInv, DoWork, Goto, submission, record, queue, worker, history
<1>1. LoopOwnsJob'
  BY DEF LoopOwnsJob, Attempting, AckJustified, TypeOK, NamedAccepted, Accepted
<1>2. AttemptLeft'
  BY DEF AttemptLeft, Waiting, Attempting, LoopOwnsJob, RetryBudget, EntriesDistinct, TypeOK, NamedAccepted, Accepted
<1>3. StatusHonest'
  BY DEF StatusHonest, Waiting, AckJustified, LoopOwnsJob, TypeOK, NamedAccepted, Accepted
<1>4. RetryBudget'
  BY DEF RetryBudget, AttemptLeft, Waiting, Attempting, LoopOwnsJob, TypeOK, NamedAccepted, Accepted
<1> QED
  BY <1>1, <1>2, <1>3, <1>4

LEMMA LoopDeletePayload ==
    ASSUME OneLoop, QueueInv, LoopInv, NEW c \in Consumers, DeletePayload(c)
    PROVE  LoopInv'
<1> USE QueueAssumption DEF OneLoop, QueueInv, LoopInv, DeletePayload, Goto, submission, record, queue, worker, history
<1>1. LoopOwnsJob'
  BY DEF LoopOwnsJob, Attempting, AckJustified, TypeOK, NamedAccepted, Accepted
<1>2. AttemptLeft'
  BY DEF AttemptLeft, Waiting, Attempting, LoopOwnsJob, RetryBudget, EntriesDistinct, TypeOK, NamedAccepted, Accepted
<1>3. StatusHonest'
  BY DEF StatusHonest, Waiting, AckJustified, LoopOwnsJob, TypeOK, NamedAccepted, Accepted
<1>4. RetryBudget'
  BY DEF RetryBudget, AttemptLeft, Waiting, Attempting, LoopOwnsJob, TypeOK, NamedAccepted, Accepted
<1> QED
  BY <1>1, <1>2, <1>3, <1>4

LEMMA LoopExecutionFails ==
    ASSUME OneLoop, QueueInv, LoopInv, NEW c \in Consumers, ExecutionFails(c)
    PROVE  LoopInv'
<1> USE QueueAssumption DEF OneLoop, QueueInv, LoopInv, ExecutionFails, Goto, submission, record, queue, worker, history
<1>1. LoopOwnsJob'
  BY DEF LoopOwnsJob, Attempting, AckJustified, TypeOK, NamedAccepted, Accepted
<1>2. AttemptLeft'
  BY DEF AttemptLeft, Waiting, Attempting, LoopOwnsJob, RetryBudget, EntriesDistinct, TypeOK, NamedAccepted, Accepted
<1>3. StatusHonest'
  BY DEF StatusHonest, Waiting, AckJustified, LoopOwnsJob, TypeOK, NamedAccepted, Accepted
<1>4. RetryBudget'
  BY DEF RetryBudget, AttemptLeft, Waiting, Attempting, LoopOwnsJob, TypeOK, NamedAccepted, Accepted
<1> QED
  BY <1>1, <1>2, <1>3, <1>4

LEMMA LoopMarkSucceeded ==
    ASSUME OneLoop, QueueInv, LoopInv, NEW c \in Consumers, MarkSucceeded(c)
    PROVE  LoopInv'
<1> USE QueueAssumption DEF OneLoop, QueueInv, LoopInv, MarkSucceeded, SetStatus, Goto, submission, record, queue, worker, history
<1>1. LoopOwnsJob'
  BY DEF LoopOwnsJob, Attempting, AckJustified, TypeOK, NamedAccepted, Accepted
<1>2. AttemptLeft'
  BY DEF AttemptLeft, Waiting, Attempting, LoopOwnsJob, RetryBudget, EntriesDistinct, TypeOK, NamedAccepted, Accepted
<1>3. StatusHonest'
  BY DEF StatusHonest, Waiting, AckJustified, LoopOwnsJob, TypeOK, NamedAccepted, Accepted
<1>4. RetryBudget'
  BY DEF RetryBudget, AttemptLeft, Waiting, Attempting, LoopOwnsJob, TypeOK, NamedAccepted, Accepted
<1> QED
  BY <1>1, <1>2, <1>3, <1>4

LEMMA LoopDeadLetter ==
    ASSUME OneLoop, QueueInv, LoopInv, NEW c \in Consumers, DeadLetter(c)
    PROVE  LoopInv'
<1> USE QueueAssumption DEF OneLoop, QueueInv, LoopInv, DeadLetter, Goto, submission, record, queue, worker, history
<1>1. LoopOwnsJob'
  BY DEF LoopOwnsJob, Attempting, AckJustified, TypeOK, NamedAccepted, Accepted
<1>2. AttemptLeft'
  BY DEF AttemptLeft, Waiting, Attempting, LoopOwnsJob, RetryBudget, EntriesDistinct, TypeOK, NamedAccepted, Accepted
<1>3. StatusHonest'
  BY DEF StatusHonest, Waiting, AckJustified, LoopOwnsJob, TypeOK, NamedAccepted, Accepted
<1>4. RetryBudget'
  <2>1. hash[job[c]] = "full" => attempts[job[c]] >= MaxAttempts
    BY DEF LoopOwnsJob, Attempting
  <2> QED
    BY <2>1 DEF RetryBudget
<1> QED
  BY <1>1, <1>2, <1>3, <1>4

LEMMA LoopAck ==
    ASSUME OneLoop, QueueInv, LoopInv, NEW c \in Consumers, Ack(c)
    PROVE  LoopInv'
<1> USE QueueAssumption DEF OneLoop, QueueInv, LoopInv, Ack, Leave, submission, record, queue, worker, history
<1>1. LoopOwnsJob'
  BY DEF LoopOwnsJob, Attempting, AckJustified, TypeOK, NamedAccepted, Accepted
<1>2. AttemptLeft'
  BY DEF AttemptLeft, Waiting, Attempting, LoopOwnsJob, RetryBudget, EntriesDistinct, TypeOK, NamedAccepted, Accepted
<1>3. StatusHonest'
  BY ZenonT(60) DEF StatusHonest, Waiting, AckJustified, LoopOwnsJob, TypeOK, NamedAccepted, Accepted
<1>4. RetryBudget'
  BY DEF RetryBudget, AttemptLeft, Waiting, Attempting, LoopOwnsJob, TypeOK, NamedAccepted, Accepted
<1> QED
  BY <1>1, <1>2, <1>3, <1>4

LEMMA LoopAbandon ==
    ASSUME OneLoop, QueueInv, LoopInv, NEW c \in Consumers, Abandon(c)
    PROVE  LoopInv'
<1> USE QueueAssumption DEF OneLoop, QueueInv, LoopInv, Abandon, Leave, submission, record, queue, worker, history
<1>1. LoopOwnsJob'
  BY DEF LoopOwnsJob, Attempting, AckJustified, TypeOK, NamedAccepted, Accepted
<1>2. AttemptLeft'
  BY DEF AttemptLeft, Waiting, Attempting, LoopOwnsJob, RetryBudget, EntriesDistinct, TypeOK, NamedAccepted, Accepted
<1>3. StatusHonest'
  BY DEF StatusHonest, Waiting, AckJustified, LoopOwnsJob, TypeOK, NamedAccepted, Accepted
<1>4. RetryBudget'
  BY DEF RetryBudget, AttemptLeft, Waiting, Attempting, LoopOwnsJob, TypeOK, NamedAccepted, Accepted
<1> QED
  BY <1>1, <1>2, <1>3, <1>4

LEMMA LoopFailedTerminal ==
    ASSUME OneLoop, QueueInv, LoopInv, NEW c \in Consumers, pc[c] = "fail", attempt[c] >= MaxAttempts,
           SetStatus(job[c], "FAILED"), Goto(c, "bury"), UNCHANGED <<job, attempt>>,
           UNCHANGED <<submission, req, backlog, pending, dead, history>>
    PROVE  LoopInv'
<1> USE QueueAssumption DEF OneLoop, QueueInv, LoopInv, SetStatus, Goto, submission, record, queue, worker, history
<1>1. LoopOwnsJob'
  BY DEF LoopOwnsJob, Attempting, AckJustified, TypeOK, NamedAccepted, Accepted
<1>2. AttemptLeft'
  BY DEF AttemptLeft, Waiting, Attempting, LoopOwnsJob, RetryBudget, EntriesDistinct, TypeOK, NamedAccepted, Accepted
<1>3. StatusHonest'
  BY DEF StatusHonest, Waiting, AckJustified, LoopOwnsJob, TypeOK, NamedAccepted, Accepted
<1>4. RetryBudget'
  BY DEF RetryBudget, AttemptLeft, Waiting, Attempting, LoopOwnsJob, TypeOK, NamedAccepted, Accepted
<1> QED
  BY <1>1, <1>2, <1>3, <1>4

LEMMA LoopFailedRetry ==
    ASSUME OneLoop, QueueInv, LoopInv, NEW c \in Consumers, pc[c] = "fail", attempt[c] < MaxAttempts,
           SetStatus(job[c], "RETRYING"), Leave(c),
           UNCHANGED <<submission, req, backlog, pending, dead, history>>
    PROVE  LoopInv'
<1> USE QueueAssumption DEF OneLoop, QueueInv, LoopInv, SetStatus, Leave, submission, record, queue, worker, history
<1>1. LoopOwnsJob'
  BY DEF LoopOwnsJob, Attempting, AckJustified, TypeOK, NamedAccepted, Accepted
<1>2. AttemptLeft'
  BY DEF AttemptLeft, Waiting, Attempting, LoopOwnsJob, RetryBudget, EntriesDistinct, TypeOK, NamedAccepted, Accepted
<1>3. StatusHonest'
  BY DEF StatusHonest, Waiting, AckJustified, LoopOwnsJob, TypeOK, NamedAccepted, Accepted
<1>4. RetryBudget'
  BY DEF RetryBudget, AttemptLeft, Waiting, Attempting, LoopOwnsJob, TypeOK, NamedAccepted, Accepted
<1> QED
  BY <1>1, <1>2, <1>3, <1>4

LEMMA LoopMarkFailed ==
    ASSUME OneLoop, QueueInv, LoopInv, NEW c \in Consumers, MarkFailed(c)
    PROVE  LoopInv'
BY LoopFailedTerminal, LoopFailedRetry DEF MarkFailed

LEMMA LoopStatusGoesOn ==
    ASSUME OneLoop, QueueInv, LoopInv, NEW c \in Consumers, pc[c] = "got",
           NEW p \in {"start", "missing"}, p = "missing" => hash[job[c]] = "absent",
           Goto(c, p), UNCHANGED <<job, attempt>>,
           UNCHANGED <<submission, req, backlog, pending, record, dead, history>>
    PROVE  LoopInv'
<1> USE QueueAssumption DEF OneLoop, QueueInv, LoopInv, Goto, submission, record, queue, worker, history
<1>1. LoopOwnsJob'
  BY DEF LoopOwnsJob, Attempting, AckJustified, TypeOK, NamedAccepted, Accepted
<1>2. AttemptLeft'
  BY DEF AttemptLeft, Waiting, Attempting, LoopOwnsJob, RetryBudget, EntriesDistinct, TypeOK, NamedAccepted, Accepted
<1>3. StatusHonest'
  BY DEF StatusHonest, Waiting, AckJustified, LoopOwnsJob, TypeOK, NamedAccepted, Accepted
<1>4. RetryBudget'
  BY DEF RetryBudget, AttemptLeft, Waiting, Attempting, LoopOwnsJob, TypeOK, NamedAccepted, Accepted
<1> QED
  BY <1>1, <1>2, <1>3, <1>4

LEMMA LoopStatusLeaves ==
    ASSUME OneLoop, QueueInv, LoopInv, NEW c \in Consumers, pc[c] = "got", Leave(c),
           UNCHANGED <<submission, req, backlog, pending, record, dead, history>>
    PROVE  LoopInv'
<1> USE QueueAssumption DEF OneLoop, QueueInv, LoopInv, Leave, submission, record, queue, worker, history
<1>1. LoopOwnsJob'
  BY DEF LoopOwnsJob, Attempting, AckJustified, TypeOK, NamedAccepted, Accepted
<1>2. AttemptLeft'
  BY DEF AttemptLeft, Waiting, Attempting, LoopOwnsJob, RetryBudget, EntriesDistinct, TypeOK, NamedAccepted, Accepted
<1>3. StatusHonest'
  BY DEF StatusHonest, Waiting, AckJustified, LoopOwnsJob, TypeOK, NamedAccepted, Accepted
<1>4. RetryBudget'
  BY DEF RetryBudget, AttemptLeft, Waiting, Attempting, LoopOwnsJob, TypeOK, NamedAccepted, Accepted
<1> QED
  BY <1>1, <1>2, <1>3, <1>4

LEMMA LoopReadStatus ==
    ASSUME OneLoop, QueueInv, LoopInv, NEW c \in Consumers, ReadStatus(c)
    PROVE  LoopInv'
BY LoopStatusGoesOn, LoopStatusLeaves DEF ReadStatus

LEMMA LoopStatusExpires ==
    ASSUME OneLoop, QueueInv, LoopInv, NEW x \in Jobs, StatusExpires(x)
    PROVE  LoopInv'
<1> USE QueueAssumption DEF OneLoop, QueueInv, LoopInv, StatusExpires, submission, record, queue, worker, history
<1>1. LoopOwnsJob'
  BY DEF LoopOwnsJob, Attempting, AckJustified, TypeOK, NamedAccepted, Accepted
<1>2. AttemptLeft'
  BY DEF AttemptLeft, Waiting, Attempting, LoopOwnsJob, RetryBudget, EntriesDistinct, TypeOK, NamedAccepted, Accepted
<1>3. StatusHonest'
  BY DEF StatusHonest, Waiting, AckJustified, LoopOwnsJob, TypeOK, NamedAccepted, Accepted
<1>4. RetryBudget'
  BY DEF RetryBudget, AttemptLeft, Waiting, Attempting, LoopOwnsJob, TypeOK, NamedAccepted, Accepted
<1> QED
  BY <1>1, <1>2, <1>3, <1>4

\* What touches neither jobs nor loops.
LEMMA LoopUntouched ==
    ASSUME OneLoop, QueueInv, LoopInv, UNCHANGED <<req, backlog, pending, hash, status, attempts, pc, job, attempt, written,
                       buried, abandoned>>
    PROVE  LoopInv'
<1> USE QueueAssumption DEF OneLoop, QueueInv, LoopInv, worker
<1>1. LoopOwnsJob'
  BY DEF LoopOwnsJob, Attempting, AckJustified, TypeOK, NamedAccepted, Accepted
<1>2. AttemptLeft'
  BY DEF AttemptLeft, Waiting, Attempting, LoopOwnsJob, RetryBudget, EntriesDistinct, TypeOK, NamedAccepted, Accepted
<1>3. StatusHonest'
  BY DEF StatusHonest, Waiting, AckJustified, LoopOwnsJob, TypeOK, NamedAccepted, Accepted
<1>4. RetryBudget'
  BY DEF RetryBudget, AttemptLeft, Waiting, Attempting, LoopOwnsJob, TypeOK, NamedAccepted, Accepted
<1> QED
  BY <1>1, <1>2, <1>3, <1>4

LEMMA LoopReadNew ==
    ASSUME OneLoop, QueueInv, LoopInv, NEW c \in Consumers, ReadNew(c)
    PROVE  LoopInv'
<1> USE DEF OneLoop, QueueInv, LoopInv
<1> DEFINE h == Head(backlog)
<1>1. /\ pc[c] = "idle" /\ pc' = [pc EXCEPT ![c] = "got"] /\ job' = [job EXCEPT ![c] = h]
      /\ backlog' = Tail(backlog) /\ pending' = pending \cup {h}
      /\ UNCHANGED <<req, hash, status, attempts, attempt, written, buried, abandoned>>
  BY DEF ReadNew, Deliver, Goto, record, history
<1>2. h \in Jobs /\ ToSet(backlog) = {h} \cup ToSet(backlog')
  BY HeadTail DEF ReadNew, TypeOK
<1> HIDE DEF h
<1>3. \A j \in Jobs : Waiting(j)' <=> Waiting(j)
  BY <1>1, <1>2 DEF Waiting
<1>4. /\ \A d \in Consumers : d = c /\ pc'[d] = "got" /\ job'[d] = h
      /\ \A d \in Consumers : ~Attempting(d) /\ ~Attempting(d)'
  BY <1>1 DEF TypeOK, Attempting
<1>5. LoopOwnsJob'
  BY <1>1, <1>4 DEF LoopOwnsJob
<1>6. AttemptLeft'
  BY <1>1, <1>3, <1>4 DEF AttemptLeft
<1>7. StatusHonest'
  BY <1>1, <1>3 DEF StatusHonest, Accepted
<1>8. RetryBudget'
  BY <1>1 DEF RetryBudget
<1> QED
  BY <1>5, <1>6, <1>7, <1>8

LEMMA LoopEnqueue ==
    ASSUME OneLoop, QueueInv, LoopInv, NEW r \in Requests, NEW via, Enqueue(r, via)
    PROVE  LoopInv'
<1> USE DEF OneLoop, QueueInv, LoopInv
<1>1. UNCHANGED <<pending, dead, pc, job, attempt, written, buried, abandoned>>
  BY DEF Enqueue
<1>2. CASE UNCHANGED <<req, backlog, hash, status, attempts>>
  BY <1>1, <1>2, LoopUntouched
<1>3. CASE EnqueueQueued(r)
  <2>1. PICK j \in Jobs \ Accepted :
           /\ req' = [req EXCEPT ![j] = r]
           /\ backlog' = Append(backlog, j)
           /\ hash' = [hash EXCEPT ![j] = "full"]
           /\ status' = [status EXCEPT ![j] = "QUEUED"]
           /\ attempts' = [attempts EXCEPT ![j] = 0]
    BY <1>3 DEF EnqueueQueued
  <2>2. ToSet(backlog') = ToSet(backlog) \cup {j}
    BY <2>1, Appended DEF TypeOK
  <2>3. /\ status'[j] = "QUEUED" /\ attempts'[j] = 0
        /\ \A i \in Jobs \ {j} : /\ req'[i] = req[i] /\ hash'[i] = hash[i]
                                 /\ status'[i] = status[i] /\ attempts'[i] = attempts[i]
    BY <2>1 DEF TypeOK
  <2>4. /\ j \notin pending /\ j \notin buried
        /\ \A c \in Consumers : pc[c] # "idle" => job[c] \in Jobs \ {j}
    BY DEF NamedAccepted, Accepted
  <2>5. \A i \in Jobs : Waiting(i)' <=> Waiting(i) \/ i = j
    BY <1>1, <2>2 DEF Waiting
  <2>6. LoopOwnsJob'
    <3>1. \A c \in Consumers : Attempting(c)' <=> Attempting(c)
      BY <1>1 DEF Attempting
    <3>2. \A c \in Consumers : pc[c] # "idle" =>
              /\ req'[job[c]] = req[job[c]] /\ hash'[job[c]] = hash[job[c]]
              /\ status'[job[c]] = status[job[c]] /\ attempts'[job[c]] = attempts[job[c]]
      BY <2>3, <2>4
    <3> QED
      BY <1>1, <3>1, <3>2 DEF LoopOwnsJob
  <2>7. 0 < MaxAttempts + abandoned /\ MaxAttempts + abandoned \in Nat
    BY QueueAssumption DEF TypeOK
  <2>8. AttemptLeft'
    BY <1>1, <2>3, <2>5, <2>7 DEF AttemptLeft, Attempting
  <2>9. StatusHonest'
    <3>1. Accepted' \subseteq Accepted \cup {j}
      BY <2>3 DEF Accepted
    <3>2. Waiting(j)'
      BY <2>5
    <3>3. \A i \in Accepted' \ {j} : /\ i \in Accepted /\ req'[i] = req[i] /\ hash'[i] = hash[i]
                                     /\ status'[i] = status[i] /\ (Waiting(i) => Waiting(i)')
      BY <3>1, <2>3, <2>5 DEF Accepted
    <3> QED
      BY <1>1, <2>3, <3>2, <3>3 DEF StatusHonest
  <2>10. RetryBudget'
    BY <1>1, <2>3, <2>4, <2>7 DEF RetryBudget
  <2> QED
    BY <2>6, <2>8, <2>9, <2>10
<1> QED
  BY <1>2, <1>3 DEF Enqueue, EnqueueDeduplicated, EnqueueRateLimited, record

LEMMA LoopInit ==
    ASSUME Init
    PROVE  LoopInv
<1> USE DEF Init
<1>1. LoopOwnsJob /\ AttemptLeft
  BY DEF LoopOwnsJob, AttemptLeft, Attempting
<1>2. StatusHonest /\ RetryBudget
  BY QueueAssumption DEF StatusHonest, RetryBudget, Accepted
<1> QED
  BY <1>1, <1>2 DEF LoopInv

LEMMA LoopStep ==
    ASSUME OneLoop, QueueInv, LoopInv, [Next]_vars
    PROVE  LoopInv'
<1>1. CASE \E r \in Requests : Submit(r) \/ CooldownEnds(r)
  <2>1. PICK r \in Requests : Submit(r) \/ CooldownEnds(r)
    BY <1>1
  <2>2. CASE Enqueue(r, "submit")
    BY <2>2, LoopEnqueue
  <2>3. CASE StageBatch(r) \/ EnqueueFailed(r) \/ UnstageBatch(r) \/ CooldownEnds(r)
    BY <2>3, LoopUntouched
       DEF StageBatch, EnqueueFailed, UnstageBatch, CooldownEnds, queue, record, worker, history
  <2> QED
    BY <2>1, <2>2, <2>3 DEF Submit, SubmitReindex, EnqueueBatch
<1>2. CASE \E j \in Jobs : ReplayDeadLetter(j) \/ StatusExpires(j)
  <2>1. \A j \in Jobs : dead[j] > 0 => req[j] \in Requests
    BY DEF QueueInv, NamedAccepted, Accepted
  <2> QED
    BY <1>2, <2>1, LoopEnqueue, LoopStatusExpires DEF ReplayDeadLetter
<1>3. CASE PurgeDeadLetters \/ \E k \in Kinds : WindowEnds(k)
  BY <1>3, LoopUntouched DEF PurgeDeadLetters, WindowEnds, submission, record, worker, history
<1>4. CASE \E c \in Consumers : Work(c) \/ Abandon(c)
  BY <1>4, LoopClaim, LoopReadNew, LoopReadStatus, LoopMarkRunningAttempt, LoopMarkRunning,
     LoopLoadPayload, LoopDoWork, LoopDeletePayload, LoopExecutionFails, LoopMarkSucceeded,
     LoopMarkFailed, LoopDeadLetter, LoopAck, LoopAbandon DEF Work
<1>5. CASE UNCHANGED vars
  BY <1>5, LoopUntouched DEF vars
<1> QED
  BY <1>1, <1>2, <1>3, <1>4, <1>5 DEF Next

\* One loop owns the job it executes, and a job that waits has an attempt left
\* or owes it to an abandoned delivery.
THEOREM LoopInvariant ==
    ASSUME OneLoop
    PROVE  Spec => []LoopInv
BY LoopInit, LoopStep, QueueInvariant, PTL DEF Spec

\* With one consumer loop the status a client polls never lies (mark_running,
\* mark_succeeded, mark_failed), whatever crashes, fails or expires.
THEOREM QueueStatusHonest ==
    ASSUME OneLoop
    PROVE  Spec => []StatusHonest
BY LoopInvariant, PTL DEF LoopInv

\* With one consumer loop only crashes and Redis failures take a job past
\* MaxAttempts, and no job is dead-lettered before (mark_failed).
THEOREM QueueRetryBudget ==
    ASSUME OneLoop
    PROVE  Spec => []RetryBudget
BY LoopInvariant, PTL DEF LoopInv
=============================================================================
