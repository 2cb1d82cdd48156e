--------------------------- MODULE MaintenanceQueue ---------------------------
(***************************************************************************)
(* Queued maintenance work: the API submits a request through one Lua      *)
(* script, a Redis Streams consumer group delivers it, and the consumer    *)
(* loops of the maintenance worker execute it.                             *)
(*                                                                         *)
(* Every await on Redis or PostgreSQL is a step of its own, so a worker    *)
(* may die, lose its connection or be overtaken between any two of them.   *)
(* The idle time after which XAUTOCLAIM hands a pending entry to another   *)
(* consumer may have passed at any moment: nothing refreshes it while a    *)
(* job executes.                                                           *)
(***************************************************************************)
EXTENDS Naturals, Sequences, SequencesExt

CONSTANTS
    Requests,        \* distinct submissions (kind, caller, source_id, limit, force)
    Batches,         \* those of kind batch_note_write; the rest are reindexes
    Jobs,            \* job ids (one stream entry and one status hash each)
    Consumers,       \* consumer loops, over all worker processes
    MaxAttempts,     \* max_attempts
    SubmissionLimit, \* submission_limit
    MaxAbandons,     \* bound on crashes and Redis failures of the workers
    LostReplies,     \* whether an executed enqueue may report an error
    StatusTTL,       \* whether a status hash may outlive its TTL
    NoJob

ASSUME QueueAssumption ==
    /\ Batches \subseteq Requests
    /\ MaxAttempts \in Nat \ {0}
    /\ SubmissionLimit \in Nat \ {0}
    /\ MaxAbandons \in Nat
    /\ LostReplies \in BOOLEAN
    /\ StatusTTL \in BOOLEAN
    /\ NoJob \notin Jobs \cup Requests

VARIABLES
    payload,     \* batches whose operations are staged in PostgreSQL
    api,         \* progress of MaintenanceBatchNoteWriteService.submit, per batch
    dedup,       \* dedup key of a request: the job it names, or NoJob
    rate,        \* submission counter of a kind in the current window
    reply,       \* the last answer of enqueue, and who asked
    req,         \* request behind a job, fixed by the script
    backlog,     \* stream entries not yet delivered to the group
    pending,     \* entries delivered and not acknowledged
    hash,        \* status hash: absent, partial (created by HINCRBY) or full
    status,      \* its status field
    attempts,    \* its attempts field
    dead,        \* dead-letter entries, per job
    pc,          \* where a consumer loop is
    job,         \* the job of its delivery
    attempt,     \* its attempt number
    written,     \* requests whose work has been carried out (history)
    buried,      \* jobs that ever had a dead letter (history)
    abandoned    \* crashes and Redis failures so far (history)

submission == <<payload, api, dedup, rate, reply>>
record == <<hash, status, attempts>>
vars == <<payload, api, dedup, rate, reply, req, backlog, pending, hash, status, attempts,
          dead, pc, job, attempt, written, buried, abandoned>>

Statuses == {"QUEUED", "RUNNING", "RETRYING", "SUCCEEDED", "FAILED"}
Places == {"idle", "got", "missing", "start", "started", "load", "work", "unstage",
           "succeed", "fail", "bury", "ack"}
Kinds == {"batch", "reindex"}
KindOf(r) == IF r \in Batches THEN "batch" ELSE "reindex"

Accepted == {j \in Jobs : req[j] \in Requests}
Waiting(j) == j \in ToSet(backlog) \cup pending

TypeOK ==
    /\ payload \subseteq Batches
    /\ api \in [Batches -> {"new", "staged", "undo", "done"}]
    /\ dedup \in [Requests -> Jobs \cup {NoJob}]
    /\ rate \in [Kinds -> 0..SubmissionLimit + 1]
    /\ reply.via \in {"none", "submit", "replay"}
    /\ reply.state \in {"none", "QUEUED", "DEDUPLICATED", "RATE_LIMITED"}
    /\ req \in [Jobs -> Requests \cup {NoJob}]
    /\ backlog \in Seq(Jobs)
    /\ pending \subseteq Jobs
    /\ hash \in [Jobs -> {"absent", "partial", "full"}]
    /\ status \in [Jobs -> Statuses]
    /\ attempts \in [Jobs -> Nat]
    /\ dead \in [Jobs -> Nat]
    /\ pc \in [Consumers -> Places]
    /\ job \in [Consumers -> Jobs \cup {NoJob}]
    /\ \A c \in Consumers : pc[c] = "idle" <=> job[c] = NoJob
    /\ attempt \in [Consumers -> Nat]
    /\ written \subseteq Requests
    /\ buried \subseteq Jobs
    /\ abandoned \in 0..MaxAbandons

Init ==
    /\ payload = {}
    /\ api = [r \in Batches |-> "new"]
    /\ dedup = [r \in Requests |-> NoJob]
    /\ rate = [k \in Kinds |-> 0]
    /\ reply = [via |-> "none", state |-> "none"]
    /\ req = [j \in Jobs |-> NoJob]
    /\ backlog = <<>>
    /\ pending = {}
    /\ hash = [j \in Jobs |-> "absent"]
    /\ status = [j \in Jobs |-> "QUEUED"]
    /\ attempts = [j \in Jobs |-> 0]
    /\ dead = [j \in Jobs |-> 0]
    /\ pc = [c \in Consumers |-> "idle"]
    /\ job = [c \in Consumers |-> NoJob]
    /\ attempt = [c \in Consumers |-> 0]
    /\ written = {}
    /\ buried = {}
    /\ abandoned = 0

-----------------------------------------------------------------------------
(* Submission                                                              *)

\* The counter only matters up to the first refused value.
Bump(n) == IF n > SubmissionLimit THEN n ELSE n + 1

\* ENQUEUE_MAINTENANCE_JOB_SCRIPT, atomic in Redis.  The counter is bumped
\* before the limit is tested, the dedup key before anything else.
EnqueueDeduplicated(r) ==
    /\ dedup[r] # NoJob
    /\ UNCHANGED <<dedup, rate, req, backlog, record>>

EnqueueRateLimited(r) ==
    /\ dedup[r] = NoJob
    /\ rate[KindOf(r)] >= SubmissionLimit
    /\ rate' = [rate EXCEPT ![KindOf(r)] = Bump(@)]
    /\ UNCHANGED <<dedup, req, backlog, record>>

EnqueueQueued(r) ==
    /\ dedup[r] = NoJob
    /\ rate[KindOf(r)] < SubmissionLimit
    /\ rate' = [rate EXCEPT ![KindOf(r)] = Bump(@)]
    /\ \E j \in Jobs \ Accepted :
           /\ req' = [req EXCEPT ![j] = r]
           /\ backlog' = Append(backlog, j)
           /\ hash' = [hash EXCEPT ![j] = "full"]
           /\ status' = [status EXCEPT ![j] = "QUEUED"]
           /\ attempts' = [attempts EXCEPT ![j] = 0]
           /\ dedup' = [dedup EXCEPT ![r] = j]

Enqueue(r, via) ==
    /\ \/ EnqueueDeduplicated(r) /\ reply' = [via |-> via, state |-> "DEDUPLICATED"]
       \/ EnqueueRateLimited(r) /\ reply' = [via |-> via, state |-> "RATE_LIMITED"]
       \/ EnqueueQueued(r) /\ reply' = [via |-> via, state |-> "QUEUED"]
    /\ UNCHANGED <<pending, dead, pc, job, attempt, written, buried, abandoned>>

\* An embedding reindex is submitted directly.
SubmitReindex(r) ==
    /\ r \notin Batches
    /\ Enqueue(r, "submit")
    /\ UNCHANGED <<payload, api>>

worker == <<pc, job, attempt>>
queue == <<dedup, rate, reply, req, backlog, pending, record, dead>>
history == <<written, buried, abandoned>>

\* MaintenanceBatchNoteWriteService.submit: stage the operations, ...
StageBatch(r) ==
    /\ api[r] = "new"
    /\ payload' = payload \cup {r}
    /\ api' = [api EXCEPT ![r] = "staged"]
    /\ UNCHANGED <<queue, worker, history>>

\* ... enqueue the job; a refusal, or an error reported after the script ran
\* (a lost reply, a failed status read), leads to the except clause.
EnqueueBatch(r) ==
    /\ api[r] = "staged"
    /\ Enqueue(r, "submit")
    /\ \/ reply'.state # "RATE_LIMITED" /\ api' = [api EXCEPT ![r] = "done"]
       \/ (reply'.state = "RATE_LIMITED" \/ LostReplies) /\ api' = [api EXCEPT ![r] = "undo"]
    /\ UNCHANGED payload

\* Redis could not be reached, or the API process died before the script.
EnqueueFailed(r) ==
    /\ api[r] = "staged"
    /\ \E place \in {"undo", "done"} : api' = [api EXCEPT ![r] = place]
    /\ UNCHANGED <<payload, queue, worker, history>>

UnstageBatch(r) ==
    /\ api[r] = "undo"
    /\ payload' = payload \ {r}
    /\ api' = [api EXCEPT ![r] = "done"]
    /\ UNCHANGED <<queue, worker, history>>

-----------------------------------------------------------------------------
(* The dead-letter stream                                                  *)

\* replay_dead_letter: the request of the source entry is enqueued again.
ReplayDeadLetter(j) ==
    /\ dead[j] > 0
    /\ Enqueue(req[j], "replay")
    /\ UNCHANGED <<payload, api>>

PurgeDeadLetters ==
    /\ \E j \in Jobs : dead[j] > 0
    /\ dead' = [j \in Jobs |-> 0]
    /\ UNCHANGED <<submission, req, backlog, pending, record, worker, history>>

-----------------------------------------------------------------------------
(* RedisMaintenanceJobConsumer and the worker's consumer loop              *)

Goto(c, place) == pc' = [pc EXCEPT ![c] = place]

\* Seeded fault: the loop keeps the delivery it is done with.
LeaveHolding(c) ==
    /\ pc' = [pc EXCEPT ![c] = "idle"]
    /\ UNCHANGED <<job, attempt>>

Leave(c) ==
    /\ pc' = [pc EXCEPT ![c] = "idle"]
    /\ job' = [job EXCEPT ![c] = NoJob]
    /\ attempt' = [attempt EXCEPT ![c] = 0]

Deliver(c, j) ==
    /\ Goto(c, "got")
    /\ job' = [job EXCEPT ![c] = j]
    /\ UNCHANGED <<submission, req, record, dead, attempt, history>>

\* Seeded fault: receive reads new entries only.
ClaimNone(c) == FALSE /\ UNCHANGED vars

\* receive: an idle pending entry is claimed first, otherwise the next new one
\* is read.  The claimed entry may be one that another consumer still executes.
Claim(c) ==
    /\ pc[c] = "idle"
    /\ \E j \in pending : Deliver(c, j)
    /\ UNCHANGED <<backlog, pending>>

ReadNew(c) ==
    /\ pc[c] = "idle" /\ backlog # <<>>
    /\ Deliver(c, Head(backlog))
    /\ backlog' = Tail(backlog)
    /\ pending' = pending \cup {Head(backlog)}

\* receive, continued: the status hash decides.  A missing hash drops the
\* delivery, a partial one does not decode and the entry stays pending.
ReadStatus(c) ==
    /\ pc[c] = "got"
    /\ \/ hash[job[c]] = "full" /\ Goto(c, "start") /\ UNCHANGED <<job, attempt>>
       \/ hash[job[c]] = "absent" /\ Goto(c, "missing") /\ UNCHANGED <<job, attempt>>
       \/ hash[job[c]] = "partial" /\ Leave(c)
    /\ UNCHANGED <<submission, req, backlog, pending, record, dead, history>>

\* mark_running: HINCRBY (which creates an absent hash) ...
MarkRunningAttempt(c) ==
    /\ pc[c] = "start"
    /\ LET j == job[c]
           n == IF hash[j] = "absent" THEN 1 ELSE attempts[j] + 1
       IN  /\ attempts' = [attempts EXCEPT ![j] = n]
           /\ attempt' = [attempt EXCEPT ![c] = n]
           /\ hash' = [hash EXCEPT ![j] = IF @ = "absent" THEN "partial" ELSE @]
    /\ Goto(c, "started")
    /\ UNCHANGED <<submission, req, backlog, pending, status, dead, job, history>>

\* A status field is written; on an expired hash this leaves a partial one.
SetStatus(j, s) ==
    /\ status' = [status EXCEPT ![j] = s]
    /\ hash' = [hash EXCEPT ![j] = IF @ = "absent" THEN "partial" ELSE @]
    /\ UNCHANGED attempts

\* ... then HSET RUNNING and EXPIRE.
MarkRunning(c) ==
    /\ pc[c] = "started"
    /\ SetStatus(job[c], "RUNNING")
    /\ Goto(c, "load")
    /\ UNCHANGED <<submission, req, backlog, pending, dead, job, attempt, history>>

\* Seeded fault: the staged operations are deleted when they are read.
LoadPayloadOnce(c) ==
    /\ pc[c] = "load"
    /\ payload' = payload \ {req[job[c]]}
    /\ Goto(c, IF req[job[c]] \in Batches \ payload THEN "fail" ELSE "work")
    /\ UNCHANGED <<api, queue, job, attempt, history>>

\* _execute_job: a batch needs its staged operations.
LoadPayload(c) ==
    /\ pc[c] = "load"
    /\ Goto(c, IF req[job[c]] \in Batches \ payload THEN "fail" ELSE "work")
    /\ UNCHANGED <<submission, req, backlog, pending, record, dead, job, attempt, history>>

DoWork(c) ==
    /\ pc[c] = "work"
    /\ written' = written \cup {req[job[c]]}
    /\ Goto(c, IF req[job[c]] \in Batches THEN "unstage" ELSE "succeed")
    /\ UNCHANGED <<submission, req, backlog, pending, record, dead, job, attempt,
                   buried, abandoned>>

DeletePayload(c) ==
    /\ pc[c] = "unstage"
    /\ payload' = payload \ {req[job[c]]}
    /\ Goto(c, "succeed")
    /\ UNCHANGED <<api, queue, job, attempt, history>>

\* Any exception of the execution.
ExecutionFails(c) ==
    /\ pc[c] \in {"load", "work", "unstage"}
    /\ Goto(c, "fail")
    /\ UNCHANGED <<submission, req, backlog, pending, record, dead, job, attempt, history>>

\* mark_succeeded: HSET and EXPIRE, then XACK.
MarkSucceeded(c) ==
    /\ pc[c] = "succeed"
    /\ SetStatus(job[c], "SUCCEEDED")
    /\ Goto(c, "ack")
    /\ UNCHANGED <<submission, req, backlog, pending, dead, job, attempt, history>>

\* Seeded faults: the retry budget is off by one; a retryable failure is
\* acknowledged; a terminal one is acknowledged before it is dead-lettered.
MarkFailedEarly(c) ==
    /\ pc[c] = "fail"
    /\ \/ /\ attempt[c] + 1 >= MaxAttempts
          /\ SetStatus(job[c], "FAILED")
          /\ Goto(c, "bury")
          /\ UNCHANGED <<job, attempt>>
       \/ /\ attempt[c] + 1 < MaxAttempts
          /\ SetStatus(job[c], "RETRYING")
          /\ Leave(c)
    /\ UNCHANGED <<submission, req, backlog, pending, dead, history>>

MarkFailedAcked(c) ==
    /\ pc[c] = "fail"
    /\ SetStatus(job[c], IF attempt[c] >= MaxAttempts THEN "FAILED" ELSE "RETRYING")
    /\ Goto(c, IF attempt[c] >= MaxAttempts THEN "bury" ELSE "ack")
    /\ UNCHANGED <<submission, req, backlog, pending, dead, job, attempt, history>>

MarkFailedAckFirst(c) ==
    /\ pc[c] = "fail"
    /\ \/ /\ attempt[c] >= MaxAttempts
          /\ SetStatus(job[c], "FAILED")
          /\ pending' = pending \ {job[c]}
          /\ Goto(c, "bury")
          /\ UNCHANGED <<job, attempt>>
       \/ /\ attempt[c] < MaxAttempts
          /\ SetStatus(job[c], "RETRYING")
          /\ Leave(c)
          /\ UNCHANGED pending
    /\ UNCHANGED <<submission, req, backlog, dead, history>>

\* mark_failed: the attempt decides; a retryable failure stays pending.
MarkFailed(c) ==
    /\ pc[c] = "fail"
    /\ \/ /\ attempt[c] >= MaxAttempts
          /\ SetStatus(job[c], "FAILED")
          /\ Goto(c, "bury")
          /\ UNCHANGED <<job, attempt>>
       \/ /\ attempt[c] < MaxAttempts
          /\ SetStatus(job[c], "RETRYING")
          /\ Leave(c)
    /\ UNCHANGED <<submission, req, backlog, pending, dead, history>>

DeadLetter(c) ==
    /\ pc[c] = "bury"
    /\ dead' = [dead EXCEPT ![job[c]] = @ + 1]
    /\ buried' = buried \cup {job[c]}
    /\ Goto(c, "ack")
    /\ UNCHANGED <<submission, req, backlog, pending, record, job, attempt, written, abandoned>>

\* XACK, which also ends the delivery of an entry without a status hash.
Ack(c) ==
    /\ pc[c] \in {"ack", "missing"}
    /\ pending' = pending \ {job[c]}
    /\ Leave(c)
    /\ UNCHANGED <<submission, req, backlog, record, dead, history>>

\* The worker dies or a Redis command fails: the loop drops the delivery,
\* whose entry stays pending.
Abandon(c) ==
    /\ pc[c] # "idle" /\ abandoned < MaxAbandons
    /\ abandoned' = abandoned + 1
    /\ Leave(c)
    /\ UNCHANGED <<submission, req, backlog, pending, record, dead, written, buried>>

-----------------------------------------------------------------------------
(* Time                                                                    *)

CooldownEnds(r) ==
    /\ dedup[r] # NoJob
    /\ dedup' = [dedup EXCEPT ![r] = NoJob]
    /\ UNCHANGED <<payload, api, rate, reply, req, backlog, pending, record, dead, worker, history>>

WindowEnds(k) ==
    /\ rate[k] > 0
    /\ rate' = [rate EXCEPT ![k] = 0]
    /\ UNCHANGED <<payload, api, dedup, reply, req, backlog, pending, record, dead, worker, history>>

StatusExpires(j) ==
    /\ StatusTTL /\ hash[j] # "absent"
    /\ hash' = [hash EXCEPT ![j] = "absent"]
    /\ UNCHANGED <<submission, req, backlog, pending, status, attempts, dead, worker, history>>

-----------------------------------------------------------------------------
Work(c) ==
    \/ Claim(c) \/ ReadNew(c) \/ ReadStatus(c)
    \/ MarkRunningAttempt(c) \/ MarkRunning(c)
    \/ LoadPayload(c) \/ DoWork(c) \/ DeletePayload(c) \/ ExecutionFails(c)
    \/ MarkSucceeded(c) \/ MarkFailed(c) \/ DeadLetter(c) \/ Ack(c)

Submit(r) == SubmitReindex(r) \/ (r \in Batches /\ (\/ StageBatch(r) \/ EnqueueBatch(r)
                                                     \/ EnqueueFailed(r) \/ UnstageBatch(r)))

Next ==
    \/ \E r \in Requests : Submit(r) \/ CooldownEnds(r)
    \/ \E j \in Jobs : ReplayDeadLetter(j) \/ StatusExpires(j)
    \/ PurgeDeadLetters
    \/ \E c \in Consumers : Work(c) \/ Abandon(c)
    \/ \E k \in Kinds : WindowEnds(k)

Spec == Init /\ [][Next]_vars

\* The loops never stop receiving, and a delivery in hand is carried on.
FairSpec == Spec /\ \A c \in Consumers : WF_vars(Work(c))

-----------------------------------------------------------------------------
(* Properties                                                              *)

\* A job leaves the stream only when its work was carried out or its failure
\* is on record, whatever worker dies or is overtaken.  The one exception is a
\* status hash that expired first: receive drops the delivery of such a job.
NoJobLost ==
    \A j \in Accepted :
        hash[j] = "full" => Waiting(j) \/ req[j] \in written \/ j \in buried

\* With one consumer loop (README: "one separate worker consumes at concurrency
\* 1") the status a client polls never lies: work that is promised is still
\* queued, a failure is in the dead-letter stream, a success was carried out.
StatusHonest ==
    \A j \in Accepted :
        hash[j] = "full" =>
            /\ status[j] \in {"QUEUED", "RUNNING", "RETRYING"} => Waiting(j)
            /\ status[j] = "FAILED" => Waiting(j) \/ j \in buried
            /\ status[j] = "SUCCEEDED" => req[j] \in written

\* The retry budget: a dead letter is written after at least MaxAttempts
\* attempts, and only crashes, Redis failures and overlapping deliveries take
\* a job past MaxAttempts.
RetryBudget ==
    \A j \in Jobs :
        hash[j] = "full" =>
            /\ j \in buried => attempts[j] >= MaxAttempts
            /\ attempts[j] <= MaxAttempts + abandoned

\* Docstring of mark_failed: "Keep retryable work pending or move terminal
\* evidence to the DLQ".
RetryableStaysPending ==
    \A j \in Jobs : status[j] = "RETRYING" => j \in pending

\* README: "failures are retried up to 3 attempts before a dead-letter entry
\* is recorded".
AttemptsBounded == \A j \in Jobs : attempts[j] <= MaxAttempts

\* Docstring of MaintenanceBatchNoteWriteService: "per-item CAS keeps a retried
\* execution idempotent", so a batch whose writes are all done does not fail.
RetryIdempotent ==
    \A j \in Accepted : req[j] \in Batches \cap written => status[j] # "FAILED"

\* The same docstring: "the operation bodies are staged durably in PostgreSQL
\* and referenced by the job's source_id".
StagedDurably ==
    \A j \in Accepted : req[j] \in Batches \ written => req[j] \in payload

\* Without lost replies the staged operations survive every retry, crash and
\* replay until they are carried out.
PayloadKept == ~LostReplies => StagedDurably

\* Skill operational-sync: "Replay enqueues the original request as a fresh
\* job (new job_id, full retry budget)".
ReplayIsFresh == reply.via = "replay" => reply.state # "DEDUPLICATED"

\* Every accepted job is acknowledged in the end.
JobsSettle == \A j \in Jobs : (j \in Accepted /\ Waiting(j)) ~> ~Waiting(j)

-----------------------------------------------------------------------------
(* The inductive invariants of the proofs, in parts.                       *)

\* Whatever names a job names one that the script has accepted.
NamedAccepted ==
    /\ ToSet(backlog) \cup pending \cup buried \subseteq Accepted
    /\ \A j \in Jobs : dead[j] > 0 \/ hash[j] # "absent" => j \in Accepted
    /\ \A c \in Consumers : pc[c] # "idle" => job[c] \in Accepted

\* An entry is in the stream once, and not delivered before it is read.
EntriesDistinct ==
    /\ \A m, n \in DOMAIN backlog : backlog[m] = backlog[n] => m = n
    /\ pending \cap ToSet(backlog) = {}

\* What a loop that is about to acknowledge its entry knows of the job.
AckJustified ==
    \A c \in Consumers :
        /\ pc[c] \in {"unstage", "succeed"} => req[job[c]] \in written
        /\ pc[c] = "ack" => req[job[c]] \in written \/ job[c] \in buried
        /\ pc[c] = "missing" => hash[job[c]] # "full"

\* While a submission may still be undone nothing depends on its operations.
UndoHarmless ==
    ~LostReplies =>
        \A r \in Batches : api[r] # "done" =>
            /\ \A j \in Jobs : req[j] # r
            /\ api[r] = "staged" => r \in payload

QueueInv ==
    /\ TypeOK /\ NamedAccepted /\ EntriesDistinct /\ AckJustified /\ UndoHarmless
    /\ NoJobLost /\ PayloadKept

\* One consumer loop, as the repository deploys it.
OneLoop == \A c, d \in Consumers : c = d

Attempting(c) == pc[c] \notin {"idle", "got", "missing", "start"}

\* The one loop holds its entry, and its status and attempts are the job's.
LoopOwnsJob ==
    \A c \in Consumers :
        /\ pc[c] # "idle" => job[c] \in pending
        /\ pc[c] # "idle" /\ hash[job[c]] = "full" =>
            /\ pc[c] = "bury" => status[job[c]] = "FAILED" /\ attempt[c] >= MaxAttempts
            /\ pc[c] = "ack" => \/ status[job[c]] = "SUCCEEDED" /\ req[job[c]] \in written
                                \/ status[job[c]] = "FAILED" /\ job[c] \in buried
            /\ Attempting(c) => attempt[c] = attempts[job[c]]

\* A job that is to be attempted again has an attempt left, or owes it to a
\* delivery that was abandoned.
AttemptLeft ==
    \A j \in Jobs :
        hash[j] = "full" /\ Waiting(j) /\ (\A c \in Consumers : job[c] = j => ~Attempting(c)) =>
            attempts[j] < MaxAttempts + abandoned

LoopInv == LoopOwnsJob /\ AttemptLeft /\ StatusHonest /\ RetryBudget
=============================================================================
