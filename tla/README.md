# Heterarchy Alexandria: specifications of the index and its maintenance

Alexandria keeps an agent's memory as Markdown notes in an Obsidian vault. The
vault is canonical; PostgreSQL holds an index of it that can be rebuilt. This
directory holds TLA+ models of the parts that keep the two in step while HTTP
requests, background jobs, crashes and the owner of the vault all act at once.

## 1. Inventory

| Component | State | Operations | Talks to | Hard behaviour | What makes it correct |
|---|---|---|---|---|---|
| Index maintenance lane (`index_maintenance_coordinator.py`, `postgres_advisory_lock.py`) | per process: leases of tasks, writer count, waiting count, owner, a condition; per database: one advisory lock | `write_operation` (shared), `operation` (exclusive, waiting or fail-fast), re-entry, release | every note write, reindex and embedding job runs inside it | two locks taken one after the other, cancellation at any `await`, lost sessions, process death, starvation | maintenance runs alone; counters never drift; no wake-up is lost; no lock outlives its body |
| Maintenance queue (`redis_maintenance_job_*.py`, `redis_maintenance_worker.py`, `maintenance_batch_note_write_service.py`) | Redis: stream, pending entries, status hashes, dedup and rate keys, dead-letter stream; PostgreSQL: staged batches | enqueue (Lua), stage/unstage, claim, read, mark running/succeeded/failed, dead letter, ack, replay, purge | API submits, worker executes note batches and embedding reindexes | at-least-once delivery, overtaking attempts, worker death between any two commands, lost replies, expiring keys | no job vanishes, the polled status is true, staged operations survive until done, jobs settle |
| Context reindex manifest (`context_reindex_manifest.rs`) | none: one call | path, id and content clashes; supersede references; cycles; propagation | called by the compile plan of a reindex | circles, hash-map order, references to rejected notes | exactly the consistent part of the vault is accepted |
| Note index store (`obsidian_index_*_store.py`, `database_session.py`) | rows of `obsidian_files`; one session per request | lookup, upsert, error row, stale rows, commit, rollback | used by notes and reindex | READ COMMITTED sessions, row locks, commit after the response is built, column-wise updates | a row says what its hash says |
| Notes and vault (`obsidian_note_service.py`, `obsidian_context_lifecycle.py`, `obsidian_vault_lifecycle_service.py`) | Markdown files | save, compare-and-swap save, archive, supersede, raw repair, reindex | lane, index store, manifest, compile plan | file first and row second, several files in one request, crash in between, writers without a lease | compare-and-swap replaces only what was read; a reindex heals; ids are stable; requests end |
| Compile plan (`compile_plan.rs`) | none | document, chunk, edge and embedding delta | called by reindex | trusts stored hashes | what is skipped is up to date |
| Verified upsert and relations (`obsidian_verified_upsert_service.py`, `obsidian_relate_service.py`, `obsidian_canonical_identity_service.py`, `write_note`) | notes, rows, graph edges, one checkpoint file per key | upsert, relate, recover, verify; resolve an identity | notes, lane | a retry after death at any step, a lost commit, stale rows, an owner who moves notes | one key writes once; one active note per identity; nothing unexpected is replaced; links survive |
| Managed specifications (`managed_spec_execution_service.py`) | envelopes in checkpoints, two source notes | prepare, complete | verified upsert, lane | sources read one after the other, two checkpoints, deaths between | one completion per identity, made from sources that existed together |
| Memory compacts (`memory_compact_repository.py`, `resume_package_service.py`, `creation_lock.py`) | one Markdown file per compact, a lock file | create, resume package, mark current, archive, delete | Contexts (evidence) | supersession file by file, lifecycle calls without the lock, death between files | one current compact; a lineage does not fork; a request id seals once |
| Reconciliation (`memory_reconciliation_*.py`, `memory_conflict_service.py`, `memory_existing_reconciliation_service.py`) | plans, results, relations, conflict sets, temporal rows; notes | preview, apply, review, resolve, scan | notes through a gateway | files at once and rows at commit, overlapping applies, failing gateways | a result is backed; nothing destructive without review |
| Memory cycles (`memory_cycle_service.py`, `memory_cycle_planning.py`, `memory_cycle_source_fence.py`) | plan hash, checkpoint file | dry run, apply | reconciliation, compacts, lane | commit and checkpoint in turn, death in between, several keys with the same children, sources that change | evidence is merged once; a checkpoint is true; a compact cites what it says |
| Batch notes, report bundles, vault move and repair | files and rows | sequences of the above | notes | partial failure of a sequence | each item is independent; a retry is safe |
| Embeddings, readiness, steward, recovery, status caches | vectors, caches, counters | reindex, probe, execute | queue, lane | stale caches, limits | freshness |
| Graph, retrieval, document analysis (Rust) | none | projection, ranking, chunking | rows | – | pure functions |
| MCP server, OAuth, connections, CLI, platform | tokens, configuration | adapters | HTTP interface | – | not part of the core |

`PROJECT.json` lists the same components with their status, and the hazards of
the code at the lines where they bite.

## 2. Modules

```
ReaderWriterLease  <--implements--  IndexMaintenance     MCIndexMaintenance      IndexMaintenanceProofs
       ^
       | (INSTANCE)
   NoteWrite --EXTENDS--> IndexStore, ManifestRules      MCNoteWrite             NoteWriteProofs
                                      ^
          ContextReindexManifest -----'                  MCContextReindexManifest ContextReindexManifestProofs
   MaintenanceQueue                                      MCMaintenanceQueue      MaintenanceQueueProofs
   MemoryCompacts                                        MCMemoryCompacts        MemoryCompactsProofs
   MemoryReconciliation                                  MCMemoryReconciliation  MemoryReconciliationProofs
   MemoryCycle                                           MCMemoryCycle           MemoryCycleProofs
   VerifiedWrites                                        MCVerifiedWrites        (in ManagedSpecsProofs)
      ^--EXTENDS-- ManagedSpecs                          MCManagedSpecs          ManagedSpecsProofs
```

Each module ends with the parts of its inductive invariant, next to the properties
they strengthen; the `*Proofs` modules extend it and hold lemmas and theorems only.
ManagedSpecsProofs extends ManagedSpecs and through it VerifiedWrites, and holds the
theorems about both.

**ReaderWriterLease** is what a body may rely on: any number of shared holders or
one exclusive holder. `NoteWrite` uses it as its lane, `IndexMaintenance` is
proved to implement it, so the two levels of locking need not be modelled twice.

**IndexMaintenance**. `pc[t]` is the place of task `t` in `_lease`; `lease`,
`depth`, `owner`, `sharedCount`, `waitingExcl` are the coordinator's fields;
`notified` the resolved futures of its condition; `pg[t]` the advisory lock of the
task's own session. A section under the condition's lock has no other `await`
and is one step. A woken task tests its predicate in a step of its own. `PgTryLock`
and `PgRefuse` are the two outcomes of a poll; a failed unlock discards the
connection, which ends the lock as well. The environment can kill a process
(`Crash`), drop a session (`LoseSession`) and cancel a task during its release
(`LeakLease`, possible because `_release_local` waits for the condition's lock).

**MaintenanceQueue**. Every Redis or PostgreSQL call is one step, so a worker can
be stopped (`Abandon`) or overtaken between any two. The Lua script is one step.
XAUTOCLAIM may take any pending entry at any time: nothing renews the idle time
while a job runs. The execution of a job either changes the vault (`written`) or
fails. `buried` and `written` remember what happened, for the properties only.

**ManifestRules** states, without loops, which notes may be indexed.
**ContextReindexManifest** is the code's four loops, one iteration a step; the
properties compare the two.

**IndexStore** is the table under concurrent sessions: `rows` is committed, `tx[r]`
what request `r` has written, `View(r)` what it sees. A session that has written
a row blocks others from it. `Merge` is the ORM's update: only columns that differ
from the loaded ones are written. **NoteWrite** runs requests over it. A request
is a sequence of steps that end where the code awaits: `Enter`, `Lookup`, `Fence`,
`Check`, `Persist`, `Parse`, `Load`, `Flush`, then whatever is left to do (`plan`:
error rows, further upserts, supersede relations, stale rows), `LeaveLane`, and
`Respond`, the middleware's commit, *after* the lane is left. Archive, supersede and
repair enter at `locate` or `source` and never touch the lane, as in the code.

`load` is the workload of a behaviour (which commands, whether requests overlap, whether
the server dies), chosen in `Init`: one run covers several. `RowHonest` and `CasExact`
speak of workloads whose requests are all compare-and-swaps and reindexes, with no
file deleted by hand (`Serialized`), and of those whose requests are made one after the
other (`Isolated` is either), and so does `NothingStale`; what other writers do to them is
shown in section 5 with `RowHonestAlways`, `CasExactAlways` and `NothingStaleAlways`. `Rebuilt` is
about requests made one after the other. It promises what the code can: the relations of
a note are completed by the reindex that indexes it, which it does when the committed row
is not that of the file. `RelationsRebuilt` promises it of every note, and is violated
(section 5).

**MemoryCompacts**: the compacts of one project. `compacts[i]` is the file that
request `i` has written, `task[i]` where the request stands, `lock` the creation lock,
`life` the one lifecycle call under way (it takes no lock). Every file that a
creation supersedes is written in a step of its own. A resume package reads its
evidence in `Start`, before the lock, and its lineage in `ReadLineage`, under it.

**MemoryReconciliation**: `note` is the vault, `db` the committed rows, `sess[a]` what
the session of request `a` has written. Gateway calls change `note` at once, row
writes wait for a row another session holds, `Commit` makes them visible.
`SelectPrimary` and `ActionsFor` are the policy, `Target` what apply mutates and
`ReviewedTarget` what the reviewer was shown. `GatewayError` is an exception the
apply turns into a FAILED or PARTIAL result, `DatabaseError` one that ends the
session. `overlap` says whether requests of this behaviour may overlap.

**MemoryCycle**: one cycle at a time holds the lane (`run`). `file` and `indexed` are
the sources and their rows; `PlanNow` is what the plan hash covers, `token[k]` what
the client was shown for key `k`, `cp[k]` the checkpoint file. A child is applied,
committed and recorded in three steps: the first merges evidence into the target's
file at once and leaves its row in the session (`run.row`), so that a death or a failure
before the commit leaves the file ahead of the index. `merges` counts these writes per
plan, for `MergedOnce` only. `StoredResult` is what keeps a second key, which executes the
same child, from merging again. `EditOutside` and `RepairRaw` change files
without a lease, `Edit` and `Reindex` need it.

**VerifiedWrites**: the notes of one logical identity, at its canonical path and
wherever the owner moves them. `cp` and `rcp` are the checkpoints of upserts and
relates, `run` the call that holds the lane, `Hash` the content hash, which does not
cover title, tags and provenance (`meta`). `Refreshed`, `Conflict` and `Merged` are
`write_note`: what it re-reads when a row is stale, what it refuses, and which
omitted fields it takes from the row. `writes` and `related` remember what
happened, for the properties only; `during` that the vault changed under a call.

**ManagedSpecs** puts prepare and complete on top: `rev` are the revisions of
policy and specification, `op` the managed call, which reads one source per step,
and the upsert it starts is that of VerifiedWrites, step by step (`OutputStep`).
`OutputKey` maps every envelope to the same key, as the code derives it from the
logical identity alone. `Verified` is `_require_verified_output`, which looks at the answer of the
upsert and not at its checkpoint: an upsert whose commit failed, or whose write failed by
an error other than an OSError, answers VERIFIED when it finds in the vault what was asked
for (`FoundWritten`), and the completion is then saved while the upsert's checkpoint says
UNKNOWN_OUTCOME.

## 3. Runs

| Run | Instance | Shows |
|---|---|---|
| `index_lane` | 2 processes, 2 tasks that do either, 2 writers, re-entry depth 2, deaths, cancellations during release | exclusion over all processes, counters, no lost wake-up, no orphan lock, the inductive invariant, refinement of ReaderWriterLease |
| `index_lane_fair` | 1 process, 1 + 2 tasks, sessions may be lost | waiting maintenance is not starved by writers of its process; local exclusion survives session loss |
| `queue_one_worker` | 1 batch, 2 jobs (so that a replay has a job of its own), 1 loop, 2 attempts, 1 abandoned delivery, expiring hashes | polled status, retry budget, staged payload |
| `queue_settles` | 1 batch and 1 reindex, 1 job, 2 loops, 2 attempts, 1 abandoned delivery | every job settles; none is lost when loops overtake each other |
| `manifest` | all webs of references over 3 ids and lists of at most 3 Contexts, and all clashes of 2 ids, 2 paths, 2 identities | the loops end, compute the rules and accept only sound histories |
| `note_writes` | 2 paths, up to 3 requests; three workloads: compare-and-swaps, one of which supersedes another note, and reindexes, with crashes; requests one after the other that each may die, saves that supersede, archives, supersede calls and reindexes, with deletions; all seven kinds of request | nothing unread is overwritten; rows say what their hashes say; a reindex leaves nothing stale and completes the interrupted supersessions of what it indexes; every request is answered |
| `compacts` | 3 creations (2 drafts, 2 request ids), 1 lifecycle call, 1 edit of the evidence, 1 death | one CURRENT compact unless one is marked by hand; lineages do not fork; a request id seals once |
| `reconciliation` | 2 plans over 2 existing and 2 new Contexts, 3 requests of all kinds, 1 error, overlapping or not | results are backed by rows and notes; the review gate; what APPLIED means |
| `cycle` | 2 Contexts that are compared with each other, 2 keys, 1 edit each, 2 compacts, 1 fault | checkpoints are true; evidence is merged once over both keys; the facts of a compact are those of the sources it cites |
| `verified_writes` | 2 paths, 2 upsert keys, 1 relate key, 2 bodies, 1 link target, 1 owner action, 1 fault | a key writes once; one active note; links kept; only the expected revision is replaced |
| `managed` | 2 prepare keys, 2 revisions of each source, 2 bodies, 1 owner action, 2 faults | one completion; sources existed together; completions are backed, those after a failed commit too |
| `managed_reprepare` (violation) | the same | see 5 |

*Bounds.* Two tasks of each kind in two processes show every pair of modes that
can meet, locally and across processes, and a third that waits. `MaxAttempts = 2`
has a first, a retryable and a terminal attempt; `MaxAbandons` bounds deaths, which
are otherwise free. Three Contexts are the smallest list with a circle that someone
outside of it refers to, and with two claims on one target. Two or three note
requests suffice for every race between a writer, another writer and a reindex.
`SYMMETRY` is used on interchangeable jobs, consumers, requests, keys and bodies, in
safety runs only. Deadlock checking is
off where a system may rest: a queue whose jobs are all settled, and the five modules
whose requests, edits and faults are bounded. One fault suffices for most because
every property is about what a single death, or a single failed call, leaves to the
calls after it; `managed` has two, so that an upsert that failed can be followed by a
death before the completion is saved. Two keys because a call is either a retry or a
rival. The largest run has 4.8 million states.

*Fairness.* Lane: weak fairness of waking, polling and finishing, because the
event loop runs every ready task, polls recur every 0.25 s and bodies are finite;
nothing forces a task to start or be cancelled. Queue: weak fairness of each
consumer loop, which never returns. Manifest: it is one call. Notes: weak fairness
of each request; a statement that waits for a row lock is ended by
`lock_timeout` (5 s), which is what breaks a circle of waiting sessions.

## 4. Proofs

Everything below holds for every value of the constants: any number of tasks,
jobs, loops, requests, keys, paths, Contexts and errors, within the named
assumptions of each module. These say that bounds are numbers, that the values
which stand for "none" are none of the others, and, where a proof counts or
orders, that a set is finite (`TasksFinite`, `Paths`, `Window`). No assumption limits what
the environment may do. Each inductive invariant was first checked by TLC on the
instance of its run.

**IndexMaintenanceProofs.** `LaneInvariant`: `Spec => []LaneInv`. `LaneInv` strengthens the
safety properties by what each place of `_lease` says about lease, depth and
advisory lock (`PlaceInv`), by `OwnerAlone` and `PgExclusive`, and by
`ExclusiveSleepersWoken`. The last is needed because a cancelled waiter passes its
wake-up to *one* sleeper: that somebody has been woken is not inductive on its own;
that every exclusive sleeper of an empty lane has been is. The counters are
cardinalities, so the proof rests on lemmas about adding a task to, or removing it
from, a set of tasks. `LaneTypeOK`, `LaneCountersAgree`, `LaneNoLostWakeup`,
`LaneLocalExclusion`, `LaneNoOrphanLock`, and `LaneExclusion` (as long as PostgreSQL drops no
session) follow. `LaneRefinement`: without session loss the specification implements
ReaderWriterLease: initial states map to initial states, every step to a step or
a stutter.

**MaintenanceQueueProofs.** `QueueNoJobLost` and `QueuePayloadKept` hold for any number of
consumer loops, from `QueueInv`: what a loop that is about to acknowledge knows of its
job (`AckJustified`), that an entry is in the stream once (`EntriesDistinct`), and that
nothing depends on a batch whose submission may still be undone (`UndoHarmless`). What
a loop knows can be overtaken, but not taken back: `written` and `buried` only grow and
a hash that is gone does not come back full. `QueueStatusHonest` and `QueueRetryBudget` are
theorems with the hypothesis `OneLoop`, the deployment the repository documents; with
two loops they are false (section 5). Their invariant `LoopInv` adds that the loop owns
the entry it works on, and that a waiting job has an attempt left or owes it to an
abandoned delivery (`AttemptLeft`), without which the budget is not inductive.

**ContextReindexManifestProofs.** `ManifestInvariant` says after each iteration of each loop
what it has computed: the scan the valid notes of the prefix, the check the broken
links and the claimed targets, the walk a set of completed ids in which every
non-empty set of survivors has a member that leads out of it (`WalksInv`), the
propagation that whoever supersedes an invalid Context is invalid or queued.
`ManifestAcceptedSound` reads the promise of the index off it at the end.
`ManifestLoopsComputeRules` compares with the closed rules in both directions: `invalid` stays
within `Rejected`, a least closed set, because every id the loops add lies in every
closed set; and `Rejected` is within it at the end because `invalid` is closed. The proof
needs no induction over lists: in a set of survivors that has no way out, the last
place of the trail would have to lead back into it, where the walk has stopped.

**NoteWriteProofs.** Any number of paths, contents and requests. `FramesInv` says what a
request has in hand at each of its steps and that the lane excludes; `NoteTypeOK` is a part
of it: no step reads a row, a file or a relation that is not there.
`NoteRowHonest`, `NoteCasExact` and `NoteNothingStale` have two separate reasons, and an
invariant for each.

`SerialInv` is about requests that all serialize in the lane. The lane alone does not carry the
proof, because a session commits *after* its request has left the lane, so that the next
one reads rows older than the files and is overtaken by commits while it works. What
carries it is that a path stands for two keys, the note's and its error's, that every
file has exactly one of the two rows in every view, and that only one session at a
time has written either (`Paired`). A compare-and-swap has verified the file against a
row; if some other session holds that row's lock then it is still the committed one
(`Swapping`), so the verified document is the file. The ORM's merge of columns gives
the columns of the new text because whatever is committed between load and flush
agrees with the file in the columns that the update leaves out (`MergeSafe` in
`Pending` and `Indexing`). For every path that a reindex has passed, its view has the
row of the file, or it has yet to be dealt with, or has been recorded as an error
(`Dealt`).

`SoloInv` is about requests made one after the other, of all seven kinds, with deletions and
deaths. Every session but one is empty (`Alone`), so the view is the table; what has to
be shown is that the request finds again what it has read (`Undisturbed`), that no two
rows claim a path (`PathsUnique`), that every row is that of one text (`Honest`), and how far
a reindex has come (`Progress`).

`NothingStale` is not claimed beyond `Isolated`: a plain save, an archive or a deletion that
overlaps with a reindex can make it false (`NoteLateCommit`).

**ManagedSpecsProofs.** `VerifiedWriteOnce` follows from `CheckpointAhead`: a checkpoint has
left INTENT before its key writes and never returns to it. `VerifiedOneActive`,
`VerifiedLinksKept` and the action property `VerifiedReplacesExpected` need `StillAsFound`: what an
operation has found in the vault is still so at its write unless somebody has
changed the vault under it (`during`). `ManagedInvariant` contains `VerifiedInv`, cites its
step lemmas for the nested upsert and adds that this upsert is the call's own
(`UpsertNested`), and that a call which is about to save its completion has an output that
was written once and whose checkpoint is COMPLETED or UNKNOWN_OUTCOME (`OutputWritten`). Such
a checkpoint is never started again, which is why the failed commit does no harm.
`ManagedSourcesCoexisted` needs `EnvelopesSound`: prepare may well pin two revisions that
never met, but then the policy it read has been replaced, and complete refuses the
envelope. `ManagedOneCompletion` and `ManagedCompletionBacked` follow from the one output key.

**MemoryCompactsProofs.** `Versions(i)` are the contents of a compact in its file and in the
hands of all who have read it and will write it back; `CompactsInv` says that they
agree but for the status, that those of a lineage are linear, and that the package
being sealed under the lock comes after all of them. The file alone is not enough: an
archive that read a compact before it was superseded writes what it read.
`CompactsOneCurrent`, `CompactsLineageLinear` and `CompactsRequestIdOnce` follow.

**MemoryCycleProofs.** `CycleInv` relates what is committed, what the session will commit
(`SessionCoherent`) and what the checkpoint files and the apply in progress take for done
(`DoneBacked`). `MergesSettled` says that a plan has one merge that is committed, or about to be, and for
the others a failure each; `RowShape` that the row in the session is that of the apply's own
sources. `CycleCheckpointBacked`, `CycleMergedOnce` and `CycleCompactFaithful` follow.

**MemoryReconciliationProofs.** `ReconInv` says what each request knows at each await
(`RequestShape`), which rows an apply that has not failed has in its session
(`Progress`), and that no row is in two sessions (`LocksHeld`). `ReconAppliedBacked` follows
because the rows of a plan and its result are committed together.
`ReconReviewGate` follows because every note, row and replacement is that of a plan that
may be applied (`MayAct`). A client may choose the id of its candidate
(`memory_candidate_service.py:72`), so two plans may be about one candidate, and then the
note of an unapproved plan's candidate may be the other plan's work: the two parts
of `ReviewGate` that name the candidate only are claimed for a candidate of its own
(`Own`). TLC has checked the invariant with shared candidates too.

`ReconAppliedMeansDone` is about requests made one after the other, each of which may
fail at any gateway call, lose its session or be retried. It follows from `SoloInv`, on
top of `ReconInv`. `PromisesKept` says that vault, tables and every open session still hold
what each APPLIED result says, so that no commit can take it back, and `Doing` what
the apply under way has done so far of what its own result will say. The hard part
is that files outlive a session that is rolled back. What a dead apply has written
in a file is recognised by its retry: a replacement in an index row is that of the
file, and only the target of a stored plan is ever replaced (`RowsAgree`, `Marked`), so
the retry of a supersession finds no replacement or its own. The theorem assumes
`Separate`. Each plan has a candidate of its own, and a plan names the candidate of
another only if that one was created here and nothing fails. Both exceptions are real:
`ReconChains` in section 5 shows what is lost without it. `IndexedApplied` and `Synced`
carry the case without failures: what has been created and committed is applied, and
will not be created again.

*Only model-checked.* Liveness (`MaintenanceNotStarved`, `JobsSettle`, `Terminates`,
`RequestsFinish`), which is out of reach of the prover. `Rebuilt`, which would need the
proof of the manifest's rules inside that of the requests.

## 5. Where the code does not keep what it says

The run `managed_reprepare` ends in a counterexample; `PROJECT.json` quotes the sentence
it refutes. A completion records the intent of its output and dies before the note
is written. A source changes, and the caller is told to "prepare a new envelope from
the current canonical notes". The new envelope has the same output key and another
request hash, so its upsert is refused as an idempotency conflict, and the old one
is refused as drifted: the identity cannot be completed any more.

The models show more, each with a configuration that reproduces it: `tlc -config X.cfg M`,
and with `-continue` for the `...Shown` configurations, which list several properties and
report each of them as violated. For a trace of one, delete the others.

| Configuration | Property violated | Behaviour |
|---|---|---|
| `IndexLaneStarvation` | `MaintenanceGetsItsTurn` | overlapping writers of another process keep the advisory lock shared at every poll of waiting maintenance, although "a steady write stream cannot starve maintenance" |
| `QueueShown` | `AttemptsBounded` | a job whose worker dies is retried without limit: the budget is compared only in `mark_failed` |
| `QueueShown` | `RetryIdempotent` | the payload is deleted before the job is marked; after a death in between every retry fails and a finished batch ends as FAILED |
| `QueueReplayInCooldown` | `ReplayIsFresh` | within the cooldown a replay is answered with the job that has just failed |
| `QueueShown` | `RetryableStaysPending` | the failure of an attempt that was overtaken overwrites SUCCEEDED with RETRYING, and no pending entry is left to retry ("Keep retryable work pending or move terminal evidence to the DLQ") |
| `QueueShown` | `StagedDurably` | when only the reply of an enqueue is lost the staged operations of the queued job are deleted |
| `NoteCasArchive` | `CasExactAlways` | an archive takes no lease, so a compare-and-swap that has verified the file overwrites it |
| `NoteErrorId` | `IdStable` | the row of an indexing error is found by path, and a save takes its key for the id of the note |
| `NoteMergedRow` | `RowHonestAlways` | two plain saves of a note: the row has the body of one and the `source_hash` of the other, and reindex takes it for up to date |
| `NoteLateCommit` | `NothingStaleAlways` | a save commits an older row while a reindex runs, which then reports success over a stale row |
| `NoteTwoReplacements` | `SupersededOnce` | two saves that supersede one Context: the second overwrites the first one's backlink |
| `NoteHalfSuperseded` | `RelationsRebuilt` | a replacement that was indexed by another request after a crash is skipped by the reindex, and its target stays current |
| `CompactsMark` | `ProjectOneCurrent` | a compact marked current by hand, without the creation lock, while another is created: both are CURRENT |
| `ReconTarget` | `SupersedesReviewed` | apply supersedes the Context of the *first* decision with the primary relation, the plan's action names that of the *most confident* one, which the reviewer saw |
| `ReconShown` | `ResolvedStays` | a review that read an open conflict is written after its resolution: "resolved memory conflicts cannot return to REVIEWING" |
| `ReconShown`, `ReconSameCandidate` | `AppliedHappened` | overlapping applies: the evidence one has merged, or the conflict it has recorded, is overwritten by the other, and both are APPLIED |
| `ReconShown` | `AppliedFinal` | a second apply that starts before the first has committed, and then fails, stores its failure over the APPLIED result |
| `ReconChains` | `AppliedHappened` | one request after the other: a plan fails after it has created its Context, another merges evidence into it and is APPLIED, and the retry of the first writes the note anew. With `MaxErrors = 0`: a plan about an existing Context, as the scan makes it, starts its temporal row anew, and the open conflict that another APPLIED plan has recorded there is gone |
| `CycleShown` | `ExecutesApproved` | a child plan stored earlier under the same key is executed, with a relation the client was not shown |
| `CycleShown` | `CurrentFaithful` | a note edited without a lease during an apply: the compact has the facts of the old text and the hash of the new |
| `CyclePublishes` | `SafeCompletes` | a cycle shown as safe, in which nothing fails, ends PARTIAL, because the source snapshot also holds the Contexts that were compared, and the compact cites only those of the window: the counts differ |
| `VerifiedShown` | `IntentResumes` | an update that died with only its intent recorded cannot be resumed with its key although the note is the expected one |
| `VerifiedShown` | `RelateResumes` | a relate that died after its write is refused on retry: its expected hash is that of the note before the link |
| `VerifiedShown` | `ReplacesExpectedAlways` | an edit by the owner between the check and the replacement of the file is lost |

A status hash that expires during an execution is written again with a part of its
fields; no later delivery can decode it, and the job is claimed for ever. `queue_settles`
therefore assumes that hashes live as long as their jobs (`StatusTTL = FALSE`).

## 6. Assumptions and limits

* `asyncio.Condition` of Python 3.13 (a cancelled `wait` passes its wake-up on); a
  connection whose query is cancelled is invalidated; PostgreSQL ends the sessions
  of a dead process.
* Stream trimming (`MAXLEN`) and the contents of batches are left out of the queue.
* `NoteWrite`: all notes are Contexts of one scope; `by` stands for `updated_at`, which
  makes every written text a new one; the reads of `Check`, of `supersede` and of
  `_upsert_note` are one step each; sessions are READ COMMITTED and load rows afresh;
  the owner of the vault may delete files but not edit them; a failed save's error row
  is rolled back with its session. Chunks, edges, change events, embeddings and
  receipts are left out, as they are derived from the row.
* `IndexMaintenance`: a lease that a cancelled release has left behind belongs to nobody.
  The code keys leases by `id(task)`, which Python may give to a later task; that
  task would take the lease for its own.
* `MemoryCompacts`: one project; one lifecycle call at a time, and each kind of it once.
* `MemoryReconciliation`: the classifier is a choice among relations; temporal state is
  reduced to being current, the successor and the open conflicts; a scan handles one
  Context, where the code handles many in one session. Merging evidence saves the note:
  that this save validates its supersede relation again, and may mark the superseded
  Context again, is left out.
* `MemoryCycle`: one window; retrieval is found or not; a child's effect is a new
  revision of its notes, and its body stays as it is, where rendering the links of a Context
  anew may add a newline to it. Left out are the reconciliation and compact interfaces that
  act on the same rows: a FAILED child that is applied again over HTTP with `retry_failed`
  has another result than its checkpoint says, and a Compact that is archived or deleted
  is no longer the one a checkpoint names.
* `VerifiedWrites`: the lane serialises calls (proved for IndexMaintenance), so calls do
  not interleave with each other, only with the owner, archives and deaths; an archive's
  own read and write are one step. The notes are Contexts: `Hash` does not cover the
  metadata, which it does for other notes, nor the newline that rendering an existing
  links section adds. That `write_note` may answer with a duplicate at another path,
  without writing, is left out.
* `ManagedSpecs`: a source never returns to an earlier revision; with one that does,
  the two reads of prepare can pair revisions that never met.
* The type invariants of the five memory and verified-write modules are proved, and
  are not listed in their runs.

*Not modelled.* Batch notes and report bundles are sequences of the calls in
VerifiedWrites without shared state of their own. Vault move and repair tools do to
files what the owner and repair actions do. Embeddings are computed outside;
readiness, steward and recovery observe the other components. Graph, retrieval and
document analysis are pure functions, mostly in floating point. MCP server, OAuth,
connections, CLI and platform adapt or configure.

## 7. Plan

Embedding reindex with its claims, composed with `MaintenanceQueue`; the readiness cache;
report bundles over `VerifiedWrites`.
