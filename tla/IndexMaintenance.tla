-------------------------- MODULE IndexMaintenance --------------------------
(***************************************************************************)
(* The shared/exclusive lane that guards every rebuildable index write:    *)
(* IndexMaintenanceCoordinator (one per process, an asyncio condition) on  *)
(* top of PostgresAdvisoryLock (one session lock for all processes).       *)
(*                                                                         *)
(* A critical section under self._condition contains no await other than   *)
(* the condition's own wait(), so it is one step here.  A sleeping task is *)
(* woken by being put in `notified`; it then re-tests its predicate in a   *)
(* step of its own, so that wake-ups and newcomers interleave.             *)
(***************************************************************************)
EXTENDS Naturals, FiniteSets

CONSTANTS
    Procs,        \* application processes (API, maintenance worker)
    Tasks,        \* asyncio tasks
    ProcOf,       \* the process a task runs in
    Writers,      \* tasks that only use write_operation (short writers)
    MaxDepth,     \* bound on re-entrance of one task
    Crashes,      \* whether a process may die
    SessionLoss,  \* whether PostgreSQL may drop a lock-holding session
    LateCancels,  \* whether a task may be cancelled again while it releases
    NoTask

ASSUME ConstantsAssumption ==
    /\ ProcOf \in [Tasks -> Procs]
    /\ Writers \subseteq Tasks
    /\ MaxDepth \in Nat \ {0}
    /\ Crashes \in BOOLEAN
    /\ SessionLoss \in BOOLEAN
    /\ LateCancels \in BOOLEAN
    /\ NoTask \notin Tasks

ASSUME TasksFinite == IsFiniteSet(Tasks)

VARIABLES
    pc,           \* where each task is in _lease
    wait,         \* the wait argument of its outermost request
    lease,        \* _task_leases[t].mode
    depth,        \* _task_leases[t].depth
    owner,        \* _exclusive_owner_task_id, per process
    sharedCount,  \* _active_shared_count, per process
    waitingExcl,  \* _waiting_exclusive_count, per process
    notified,     \* tasks whose condition future is resolved
    pg            \* advisory lock held by the task's dedicated session

local == <<lease, depth, owner, sharedCount, waitingExcl, notified>>
vars  == <<pc, wait, lease, depth, owner, sharedCount, waitingExcl, notified, pg>>

Modes == {"shared", "exclusive"}
Lease == Modes \cup {"none"}
\* idle -> (sleepShared | sleepExcl) -> locking -> body -> unlocked -> idle;
\* leaked: the task is gone and its entry in _task_leases is not
Places == {"idle", "sleepShared", "sleepExcl", "locking", "body", "unlocked", "leaked"}

TypeOK ==
    /\ pc \in [Tasks -> Places]
    /\ wait \in [Tasks -> BOOLEAN]
    /\ lease \in [Tasks -> Lease]
    /\ depth \in [Tasks -> Nat]
    /\ owner \in [Procs -> Tasks \cup {NoTask}]
    /\ sharedCount \in [Procs -> Nat]
    /\ waitingExcl \in [Procs -> Nat]
    /\ notified \subseteq Tasks
    /\ pg \in [Tasks -> Lease]

Init ==
    /\ pc = [t \in Tasks |-> "idle"]
    /\ wait = [t \in Tasks |-> FALSE]
    /\ lease = [t \in Tasks |-> "none"]
    /\ depth = [t \in Tasks |-> 0]
    /\ owner = [p \in Procs |-> NoTask]
    /\ sharedCount = [p \in Procs |-> 0]
    /\ waitingExcl = [p \in Procs |-> 0]
    /\ notified = {}
    /\ pg = [t \in Tasks |-> "none"]

-----------------------------------------------------------------------------
(* The condition variable (asyncio.Condition, Python 3.13 and later).      *)

Asleep(t) == pc[t] \in {"sleepShared", "sleepExcl"}
Sleepers(p) == {t \in Tasks : ProcOf[t] = p /\ Asleep(t)}

\* Seeded fault: the release forgets notify_all.
NotifyNone(p) == notified

\* notify_all: every future of the process's condition is resolved.
NotifyAll(p) == notified \cup Sleepers(p)

\* Seeded fault: a cancelled wait() keeps the wake-up to itself.
PassOnNothing(t, after) == after = notified \ {t}

\* A cancelled wait() passes a possibly consumed wake-up on to one other
\* sleeper before it re-raises.  `after` is `notified` once that is done.
PassOn(t, after) ==
    LET rest == Sleepers(ProcOf[t]) \ (notified \cup {t})
    IN  \/ rest = {} /\ after = notified \ {t}
        \/ \E u \in rest : after = (notified \ {t}) \cup {u}

-----------------------------------------------------------------------------
(* _acquire_local                                                          *)

\* Seeded faults: maintenance does not look at the writers, writers do not look
\* at the maintenance that waits.
ExclusiveAvailableToo(p) == owner[p] = NoTask
SharedAvailableToo(p) == owner[p] = NoTask

ExclusiveAvailable(p) == owner[p] = NoTask /\ sharedCount[p] = 0
SharedAvailable(p) == owner[p] = NoTask /\ waitingExcl[p] = 0

TakeShared(t) ==
    /\ lease' = [lease EXCEPT ![t] = "shared"]
    /\ depth' = [depth EXCEPT ![t] = 1]
    /\ sharedCount' = [sharedCount EXCEPT ![ProcOf[t]] = @ + 1]
    /\ pc' = [pc EXCEPT ![t] = "locking"]
    /\ UNCHANGED owner

TakeExclusive(t) ==
    /\ lease' = [lease EXCEPT ![t] = "exclusive"]
    /\ depth' = [depth EXCEPT ![t] = 1]
    /\ owner' = [owner EXCEPT ![ProcOf[t]] = t]
    /\ pc' = [pc EXCEPT ![t] = "locking"]
    /\ UNCHANGED sharedCount

\* write_operation(name) by a task that holds nothing.
WriteOperation(t) ==
    /\ pc[t] = "idle"
    /\ wait' = [wait EXCEPT ![t] = TRUE]
    /\ \/ /\ SharedAvailable(ProcOf[t])
          /\ TakeShared(t)
          /\ UNCHANGED <<waitingExcl, notified, pg>>
       \/ /\ ~SharedAvailable(ProcOf[t])
          /\ pc' = [pc EXCEPT ![t] = "sleepShared"]
          /\ UNCHANGED <<local, pg>>

\* operation(name, wait): an unavailable lane refuses a caller that does not
\* wait (IndexMaintenanceConflictError, HTTP 409), which changes nothing.
Operation(t, w) ==
    /\ pc[t] = "idle" /\ t \notin Writers
    /\ wait' = [wait EXCEPT ![t] = w]
    /\ \/ /\ ExclusiveAvailable(ProcOf[t])
          /\ TakeExclusive(t)
          /\ UNCHANGED <<waitingExcl, notified, pg>>
       \/ /\ ~ExclusiveAvailable(ProcOf[t]) /\ w
          /\ pc' = [pc EXCEPT ![t] = "sleepExcl"]
          /\ waitingExcl' = [waitingExcl EXCEPT ![ProcOf[t]] = @ + 1]
          /\ UNCHANGED <<lease, depth, owner, sharedCount, notified, pg>>

\* A task that holds a lease re-enters it; only the upgrade of a shared lease
\* is refused (RuntimeError).
ReEnter(t, mode) ==
    /\ pc[t] = "body" /\ depth[t] < MaxDepth
    /\ ~(lease[t] = "shared" /\ mode = "exclusive")
    /\ depth' = [depth EXCEPT ![t] = @ + 1]
    /\ UNCHANGED <<pc, wait, lease, owner, sharedCount, waitingExcl, notified, pg>>

\* A woken writer re-tests its predicate and sleeps again if it fails.
WakeShared(t) ==
    /\ pc[t] = "sleepShared" /\ t \in notified
    /\ notified' = notified \ {t}
    /\ \/ SharedAvailable(ProcOf[t]) /\ TakeShared(t)
       \/ ~SharedAvailable(ProcOf[t]) /\ UNCHANGED <<pc, lease, depth, owner, sharedCount>>
    /\ UNCHANGED <<wait, waitingExcl, pg>>

WakeExclusive(t) ==
    /\ pc[t] = "sleepExcl" /\ t \in notified
    /\ notified' = notified \ {t}
    /\ \/ /\ ExclusiveAvailable(ProcOf[t])
          /\ TakeExclusive(t)
          /\ waitingExcl' = [waitingExcl EXCEPT ![ProcOf[t]] = @ - 1]
       \/ /\ ~ExclusiveAvailable(ProcOf[t])
          /\ UNCHANGED <<pc, lease, depth, owner, sharedCount, waitingExcl>>
    /\ UNCHANGED <<wait, pg>>

\* Seeded fault: no finally clause around the wait for the exclusive lane.
CancelSleepUncounted(t) ==
    /\ Asleep(t)
    /\ \E after \in SUBSET Tasks : PassOn(t, after) /\ notified' = after
    /\ pc' = [pc EXCEPT ![t] = "idle"]
    /\ UNCHANGED <<wait, lease, depth, owner, sharedCount, waitingExcl, pg>>

\* A sleeping request is cancelled: the finally clause of _acquire_exclusive
\* takes it off the waiting count.
CancelSleep(t) ==
    /\ Asleep(t)
    /\ \E after \in SUBSET Tasks : PassOn(t, after) /\ notified' = after
    /\ waitingExcl' = IF pc[t] = "sleepExcl"
                      THEN [waitingExcl EXCEPT ![ProcOf[t]] = @ - 1]
                      ELSE waitingExcl
    /\ pc' = [pc EXCEPT ![t] = "idle"]
    /\ UNCHANGED <<wait, lease, depth, owner, sharedCount, pg>>

-----------------------------------------------------------------------------
(* _release_local, for a lease whose depth is 1                            *)

\* Seeded fault: the mode of the released lease is not looked at.
ReleaseModeless(t) ==
    /\ lease' = [lease EXCEPT ![t] = "none"]
    /\ depth' = [depth EXCEPT ![t] = 0]
    /\ owner' = [owner EXCEPT ![ProcOf[t]] = NoTask]
    /\ sharedCount' = [sharedCount EXCEPT ![ProcOf[t]] = @ - 1]
    /\ notified' = NotifyAll(ProcOf[t])
    /\ pc' = [pc EXCEPT ![t] = "idle"]
    /\ UNCHANGED <<wait, waitingExcl>>

ReleaseLocal(t) ==
    /\ lease' = [lease EXCEPT ![t] = "none"]
    /\ depth' = [depth EXCEPT ![t] = 0]
    /\ IF lease[t] = "exclusive"
       THEN /\ owner' = [owner EXCEPT ![ProcOf[t]] = NoTask]
            /\ UNCHANGED sharedCount
       ELSE /\ sharedCount' = [sharedCount EXCEPT ![ProcOf[t]] = @ - 1]
            /\ UNCHANGED owner
    /\ notified' = NotifyAll(ProcOf[t])
    /\ pc' = [pc EXCEPT ![t] = "idle"]
    /\ UNCHANGED <<wait, waitingExcl>>

LeaveInner(t) ==
    /\ pc[t] = "body" /\ depth[t] > 1
    /\ depth' = [depth EXCEPT ![t] = @ - 1]
    /\ UNCHANGED <<pc, wait, lease, owner, sharedCount, waitingExcl, notified, pg>>

-----------------------------------------------------------------------------
(* PostgresAdvisoryLock.operation on the task's dedicated session          *)

\* Seeded fault: every caller uses the shared function.
PgCompatibleShared(t) == \A u \in Tasks \ {t} : pg[u] # "exclusive"

\* pg_try_advisory_lock[_shared]: compatible with every other session's lock.
PgCompatible(t) ==
    \A u \in Tasks \ {t} :
        pg[u] = "none" \/ (pg[u] = "shared" /\ lease[t] = "shared")

PgTryLock(t) ==
    /\ pc[t] = "locking" /\ PgCompatible(t)
    /\ pg' = [pg EXCEPT ![t] = lease[t]]
    /\ pc' = [pc EXCEPT ![t] = "body"]
    /\ UNCHANGED <<wait, local>>

\* A fail-fast caller gets BlockingIOError, hence the conflict error, and the
\* local lease is given back; a waiting caller polls (it stays in "locking").
PgRefuse(t) ==
    /\ pc[t] = "locking" /\ ~wait[t] /\ ~PgCompatible(t)
    /\ ReleaseLocal(t)
    /\ UNCHANGED pg

\* The poll (or the connection attempt) is cancelled or fails.
CancelLocking(t) ==
    /\ pc[t] = "locking"
    /\ ReleaseLocal(t)
    /\ UNCHANGED pg

\* Seeded fault: a failed unlock puts the connection back into the pool.
PgUnlockPooled(t) ==
    /\ pc[t] = "body" /\ depth[t] = 1
    /\ pg' \in {pg, [pg EXCEPT ![t] = "none"]}
    /\ pc' = [pc EXCEPT ![t] = "unlocked"]
    /\ UNCHANGED <<wait, local>>

\* The body ended, normally or not: the shielded unlock either succeeds or
\* discards the connection; both end the session's lock.
PgUnlock(t) ==
    /\ pc[t] = "body" /\ depth[t] = 1
    /\ pg' = [pg EXCEPT ![t] = "none"]
    /\ pc' = [pc EXCEPT ![t] = "unlocked"]
    /\ UNCHANGED <<wait, local>>

Finish(t) ==
    /\ pc[t] = "unlocked"
    /\ ReleaseLocal(t)
    /\ UNCHANGED pg

-----------------------------------------------------------------------------
(* The environment                                                         *)

\* A process dies: its tasks and its coordinator vanish, PostgreSQL ends
\* their sessions, and the restarted process begins with an empty lane.
Crash(p) ==
    /\ Crashes
    /\ pc' = [t \in Tasks |-> IF ProcOf[t] = p THEN "idle" ELSE pc[t]]
    /\ lease' = [t \in Tasks |-> IF ProcOf[t] = p THEN "none" ELSE lease[t]]
    /\ depth' = [t \in Tasks |-> IF ProcOf[t] = p THEN 0 ELSE depth[t]]
    /\ pg' = [t \in Tasks |-> IF ProcOf[t] = p THEN "none" ELSE pg[t]]
    /\ owner' = [owner EXCEPT ![p] = NoTask]
    /\ sharedCount' = [sharedCount EXCEPT ![p] = 0]
    /\ waitingExcl' = [waitingExcl EXCEPT ![p] = 0]
    /\ notified' = {t \in notified : ProcOf[t] # p}
    /\ UNCHANGED wait

\* PostgreSQL drops the session of a task that is still in its body.
LoseSession(t) ==
    /\ SessionLoss /\ pg[t] # "none"
    /\ pg' = [pg EXCEPT ![t] = "none"]
    /\ UNCHANGED <<pc, wait, local>>

\* _release_local takes the condition's lock, for which woken sleepers may be
\* queueing; a cancellation delivered during that await skips the release.
LeakLease(t) ==
    /\ LateCancels /\ pc[t] \in {"locking", "unlocked"}
    /\ Sleepers(ProcOf[t]) \cap notified # {}
    /\ pc' = [pc EXCEPT ![t] = "leaked"]
    /\ UNCHANGED <<wait, local, pg>>

Step(t) ==
    \/ WriteOperation(t)
    \/ \E w \in BOOLEAN : Operation(t, w)
    \/ \E mode \in Modes : ReEnter(t, mode)
    \/ WakeShared(t) \/ WakeExclusive(t) \/ CancelSleep(t)
    \/ LeaveInner(t)
    \/ PgTryLock(t) \/ PgRefuse(t) \/ CancelLocking(t) \/ PgUnlock(t) \/ Finish(t)
    \/ LoseSession(t) \/ LeakLease(t)

Next == (\E t \in Tasks : Step(t)) \/ (\E p \in Procs : Crash(p))

Spec == Init /\ [][Next]_vars

(***************************************************************************)
(* The event loop runs every ready task, polls recur every 0.25 s, and the *)
(* bodies are finite; nothing forces a task to start, re-enter or cancel.  *)
(***************************************************************************)
Progress(t) ==
    /\ WF_vars(WakeShared(t)) /\ WF_vars(WakeExclusive(t))
    /\ WF_vars(PgTryLock(t)) /\ WF_vars(PgRefuse(t))
    /\ WF_vars(LeaveInner(t)) /\ WF_vars(PgUnlock(t)) /\ WF_vars(Finish(t))

FairSpec == Spec /\ \A t \in Tasks : Progress(t)

\* More than the code gives: a poll that finds the advisory lock free again
\* and again would have to hit one of those moments.
StrongFairSpec == FairSpec /\ \A t \in Tasks : SF_vars(PgTryLock(t))

-----------------------------------------------------------------------------
(* Properties                                                              *)

SharedIn(p) == {t \in Tasks : ProcOf[t] = p /\ lease[t] = "shared"}
SleepersExcl(p) == {t \in Tasks : ProcOf[t] = p /\ pc[t] = "sleepExcl"}

\* Whatever the interleaving of the local lane, the advisory lock and process
\* deaths, a maintenance body never overlaps another body of any process
\* (docstring of IndexMaintenanceCoordinator, README "one fail-fast lane").
ExclusiveAlone ==
    ~SessionLoss =>
        \A t, u \in Tasks :
            t # u /\ pc[t] = "body" /\ pc[u] = "body" => lease[t] = "shared"

\* Inside one process the same holds even when PostgreSQL drops the session
\* under a running body, because the local lease is kept until the end.
LocalExclusion ==
    \A t, u \in Tasks :
        /\ t # u /\ ProcOf[t] = ProcOf[u]
        /\ lease[t] # "none" /\ lease[u] # "none"
        => lease[t] = "shared"

\* The coordinator's counters never drift from the leases and sleepers they
\* count, through refusals, cancellations and crashes; a drift would close or
\* open the lane for good.
CountersAgree ==
    \A p \in Procs :
        /\ sharedCount[p] = Cardinality(SharedIn(p))
        /\ waitingExcl[p] = Cardinality(SleepersExcl(p))
        /\ \A t \in Tasks : owner[p] = t <=> ProcOf[t] = p /\ lease[t] = "exclusive"

\* No lost wake-up: when the lane of a process is empty and someone sleeps on
\* its condition, someone has been woken and will re-test.
NoLostWakeup ==
    \A p \in Procs :
        ExclusiveAvailable(p) /\ Sleepers(p) # {} => Sleepers(p) \cap notified # {}

\* An advisory lock never outlives the body it was taken for.
NoOrphanAdvisoryLock ==
    \A t \in Tasks : pg[t] # "none" => pc[t] = "body" /\ pg[t] = lease[t]

\* A maintenance operation that waits gets its turn, or is cancelled, however
\* many writers keep coming (docstring: "a steady write stream cannot starve
\* maintenance").
MaintenanceNotStarved ==
    \A t \in Tasks : pc[t] = "sleepExcl" ~> pc[t] \in {"body", "idle"}

\* The same promise once the local lease is held and the advisory lock of the
\* other processes is still to be won.
MaintenanceGetsItsTurn ==
    \A t \in Tasks :
        (pc[t] = "locking" /\ lease[t] = "exclusive") ~> pc[t] \in {"body", "idle"}

-----------------------------------------------------------------------------
(* The inductive invariant behind them                                     *)

\* What the place of a task says about its lease and its advisory lock.
PlaceInv ==
    \A t \in Tasks :
        /\ pc[t] \in {"idle", "sleepShared", "sleepExcl"} =>
               lease[t] = "none" /\ depth[t] = 0 /\ pg[t] = "none"
        /\ pc[t] \in {"locking", "unlocked", "leaked"} =>
               lease[t] # "none" /\ depth[t] = 1 /\ pg[t] = "none"
        /\ pc[t] = "body" =>
               /\ lease[t] # "none" /\ depth[t] > 0
               /\ pg[t] = lease[t] \/ (SessionLoss /\ pg[t] = "none")

\* A process whose lane is owned has no writer in it.
OwnerAlone == \A p \in Procs : owner[p] # NoTask => sharedCount[p] = 0

\* The advisory lock is a reader-writer lock.
PgExclusive ==
    \A t, u \in Tasks : t # u /\ pg[t] = "exclusive" => pg[u] = "none"

\* Everyone who waits for an empty lane alone has been woken.
ExclusiveSleepersWoken ==
    \A p \in Procs : ExclusiveAvailable(p) => SleepersExcl(p) \subseteq notified

LaneInv ==
    /\ TypeOK
    /\ PlaceInv
    /\ CountersAgree
    /\ OwnerAlone
    /\ PgExclusive
    /\ ExclusiveSleepersWoken
    /\ NoLostWakeup

-----------------------------------------------------------------------------
(* Refinement: what a body may rely on                                     *)

\* The mode in which each task runs its body.
held == [t \in Tasks |-> IF pc[t] = "body" THEN lease[t] ELSE "none"]

Lane == INSTANCE ReaderWriterLease WITH holds <- held

\* As long as PostgreSQL keeps the sessions, the two-level lock implements the
\* abstract shared/exclusive lease.
ImplementsLane == Lane!Spec
=============================================================================
