----------------------- MODULE IndexMaintenanceProofs -----------------------
(***************************************************************************)
(* LaneInv is inductive, for any number of processes and tasks, with       *)
(* crashes and lost sessions; the safety properties follow from it.        *)
(***************************************************************************)
EXTENDS IndexMaintenance, FiniteSetTheorems, TLAPS

\* Cardinalities of the sets the coordinator's counters stand for.
LEMMA SubsetCount ==
    ASSUME NEW S \in SUBSET Tasks
    PROVE  /\ IsFiniteSet(S)
           /\ Cardinality(S) \in Nat
           /\ Cardinality(S) = 0 <=> S = {}
           /\ \A x : x \notin S => Cardinality(S \cup {x}) = Cardinality(S) + 1
           /\ \A x : x \in S => Cardinality(S \ {x}) = Cardinality(S) - 1
<1>1. IsFiniteSet(S)
  BY TasksFinite, FS_Subset
<1>2. Cardinality(S) \in Nat
  BY <1>1, FS_CardinalityType
<1>3. Cardinality(S) = 0 <=> S = {}
  BY <1>1, FS_EmptySet
<1>4. \A x : x \notin S => Cardinality(S \cup {x}) = Cardinality(S) + 1
  BY <1>1, FS_AddElement
<1>5. \A x : x \in S => Cardinality(S \ {x}) = Cardinality(S) - 1
  BY <1>1, FS_RemoveElement
<1> QED
  BY <1>1, <1>2, <1>3, <1>4, <1>5

\* The counters are positive exactly when there is someone to count.
LEMMA CountersPositive ==
    ASSUME TypeOK, CountersAgree, NEW p \in Procs
    PROVE  /\ sharedCount[p] = 0 <=> SharedIn(p) = {}
           /\ waitingExcl[p] = 0 <=> SleepersExcl(p) = {}
           /\ sharedCount[p] \in Nat /\ waitingExcl[p] \in Nat
<1>1. SharedIn(p) \in SUBSET Tasks /\ SleepersExcl(p) \in SUBSET Tasks
  BY DEF SharedIn, SleepersExcl
<1>2. sharedCount[p] = Cardinality(SharedIn(p)) /\ waitingExcl[p] = Cardinality(SleepersExcl(p))
  BY DEF CountersAgree
<1>3. sharedCount[p] = 0 <=> SharedIn(p) = {}
  BY <1>1, <1>2, SubsetCount
<1>4. waitingExcl[p] = 0 <=> SleepersExcl(p) = {}
  BY <1>1, <1>2, SubsetCount
<1> QED
  BY <1>3, <1>4 DEF TypeOK

\* A step that takes a shared lease.
LEMMA TakeSharedStep ==
    ASSUME LaneInv, NEW t \in Tasks, pc[t] \in {"idle", "sleepShared"},
           SharedAvailable(ProcOf[t]), TakeShared(t),
           wait' \in [Tasks -> BOOLEAN], notified' \in {notified, notified \ {t}},
           waitingExcl' = waitingExcl, pg' = pg
    PROVE  LaneInv'
<1> DEFINE q == ProcOf[t]
<1>q. q \in Procs
  BY ConstantsAssumption
<1> USE DEF LaneInv
<1>1. TypeOK'
  <2>1. /\ pc' \in [Tasks -> Places] /\ lease' \in [Tasks -> Lease]
        /\ depth' \in [Tasks -> Nat] /\ sharedCount' \in [Procs -> Nat]
    BY <1>q DEF TypeOK, TakeShared, Places, Lease, Modes
  <2>2. /\ owner' \in [Procs -> Tasks \cup {NoTask}] /\ waitingExcl' \in [Procs -> Nat]
        /\ notified' \subseteq Tasks /\ pg' \in [Tasks -> Lease]
    BY DEF TypeOK, TakeShared
  <2> QED
    BY <2>1, <2>2, Zenon DEF TypeOK
<1>2. PlaceInv'
  BY DEF TypeOK, PlaceInv, TakeShared
<1>3. CountersAgree'
  <2>1. lease[t] = "none"
    BY DEF PlaceInv
  <2>2. SharedIn(q)' = SharedIn(q) \cup {t} /\ t \notin SharedIn(q)
    BY <2>1 DEF SharedIn, TakeShared, TypeOK
  <2>3. \A p \in Procs \ {q} : SharedIn(p)' = SharedIn(p)
    BY DEF SharedIn, TakeShared, TypeOK
  <2>4. \A p \in Procs : SleepersExcl(p)' = SleepersExcl(p)
    BY DEF SleepersExcl, TakeShared, TypeOK
  <2>5. SharedIn(q) \in SUBSET Tasks
    BY DEF SharedIn
  <2>6. Cardinality(SharedIn(q)') = Cardinality(SharedIn(q)) + 1
    BY <2>2, <2>5, SubsetCount
  <2>7. \A p \in Procs : sharedCount'[p] = Cardinality(SharedIn(p)')
    BY <1>q, <2>3, <2>6 DEF CountersAgree, TakeShared, TypeOK
  <2>8. \A p \in Procs : waitingExcl'[p] = Cardinality(SleepersExcl(p)')
    BY <2>4 DEF CountersAgree
  <2>9. \A p \in Procs, u \in Tasks :
            owner'[p] = u <=> ProcOf[u] = p /\ lease'[u] = "exclusive"
    BY <2>1 DEF CountersAgree, TakeShared, TypeOK
  <2> QED
    BY <2>7, <2>8, <2>9 DEF CountersAgree
<1>4. OwnerAlone'
  BY DEF OwnerAlone, TakeShared, SharedAvailable, TypeOK
<1>5. PgExclusive'
  BY DEF PgExclusive
<1>6. \A p \in Procs : ExclusiveAvailable(p)' => p # q /\ ExclusiveAvailable(p)
  BY <1>q, CountersPositive DEF ExclusiveAvailable, TakeShared, TypeOK
<1>7. ExclusiveSleepersWoken'
  BY <1>6 DEF ExclusiveSleepersWoken, SleepersExcl, TakeShared, TypeOK
<1>8. NoLostWakeup'
  <2> SUFFICES ASSUME NEW p \in Procs, ExclusiveAvailable(p)', Sleepers(p)' # {}
               PROVE  Sleepers(p)' \cap notified' # {}
    BY DEF NoLostWakeup
  <2>1. p # q /\ ExclusiveAvailable(p)
    BY <1>6
  <2>2. Sleepers(p)' = Sleepers(p) /\ t \notin Sleepers(p)
    BY <2>1 DEF Sleepers, Asleep, TakeShared, TypeOK
  <2> QED
    BY <2>1, <2>2 DEF NoLostWakeup
<1> QED
  BY <1>1, <1>2, <1>3, <1>4, <1>5, <1>7, <1>8

\* A step that takes the exclusive lease, from "idle" or after a wake-up.
LEMMA TakeExclusiveStep ==
    ASSUME LaneInv, NEW t \in Tasks,
           ExclusiveAvailable(ProcOf[t]), TakeExclusive(t),
           wait' \in [Tasks -> BOOLEAN], pg' = pg,
           \/ /\ pc[t] = "idle"
              /\ notified' = notified /\ waitingExcl' = waitingExcl
           \/ /\ pc[t] = "sleepExcl"
              /\ notified' = notified \ {t}
              /\ waitingExcl' = [waitingExcl EXCEPT ![ProcOf[t]] = @ - 1]
    PROVE  LaneInv'
<1> DEFINE q == ProcOf[t]
<1>q. q \in Procs
  BY ConstantsAssumption
<1> USE DEF LaneInv
<1>w. waitingExcl' \in [Procs -> Nat] /\ \A p \in Procs : waitingExcl'[p] = Cardinality(SleepersExcl(p)')
  <2>1. CASE pc[t] = "idle"
    <3>1. \A p \in Procs : SleepersExcl(p)' = SleepersExcl(p)
      BY <2>1 DEF SleepersExcl, TakeExclusive, TypeOK
    <3> QED
      BY <2>1, <3>1 DEF CountersAgree, TypeOK
  <2>2. CASE pc[t] = "sleepExcl"
    <3>1. SleepersExcl(q)' = SleepersExcl(q) \ {t} /\ t \in SleepersExcl(q)
      BY <2>2 DEF SleepersExcl, TakeExclusive, TypeOK
    <3>2. \A p \in Procs \ {q} : SleepersExcl(p)' = SleepersExcl(p)
      BY DEF SleepersExcl, TakeExclusive, TypeOK
    <3>3. SleepersExcl(q) \in SUBSET Tasks
      BY DEF SleepersExcl
    <3>4. Cardinality(SleepersExcl(q)') = Cardinality(SleepersExcl(q)) - 1
      BY <3>1, <3>3, SubsetCount
    <3>5. waitingExcl[q] > 0
      BY <1>q, <3>1, CountersPositive
    <3> QED
      BY <1>q, <2>2, <3>2, <3>4, <3>5 DEF CountersAgree, TypeOK
  <2> QED
    BY <2>1, <2>2
<1>1. TypeOK'
  <2>1. /\ pc' \in [Tasks -> Places] /\ lease' \in [Tasks -> Lease]
        /\ depth' \in [Tasks -> Nat] /\ sharedCount' \in [Procs -> Nat]
    BY DEF TypeOK, TakeExclusive, Places, Lease, Modes
  <2>2. /\ owner' \in [Procs -> Tasks \cup {NoTask}]
        /\ notified' \subseteq Tasks /\ pg' \in [Tasks -> Lease]
    BY <1>q DEF TypeOK, TakeExclusive
  <2> QED
    BY <1>w, <2>1, <2>2, Zenon DEF TypeOK
<1>2. PlaceInv'
  BY DEF TypeOK, PlaceInv, TakeExclusive
<1>3. CountersAgree'
  <2>1. lease[t] = "none"
    BY DEF PlaceInv
  <2>2. \A p \in Procs : SharedIn(p)' = SharedIn(p)
    BY <2>1 DEF SharedIn, TakeExclusive, TypeOK
  <2>3. \A p \in Procs : sharedCount'[p] = Cardinality(SharedIn(p)')
    BY <2>2 DEF CountersAgree, TakeExclusive
  <2>4. \A p \in Procs, u \in Tasks :
            owner'[p] = u <=> ProcOf[u] = p /\ lease'[u] = "exclusive"
    BY <1>q, ConstantsAssumption
       DEF CountersAgree, TakeExclusive, TypeOK, ExclusiveAvailable
  <2> QED
    BY <1>w, <2>3, <2>4 DEF CountersAgree
<1>4. OwnerAlone'
  BY <1>q DEF OwnerAlone, TakeExclusive, ExclusiveAvailable, TypeOK
<1>5. PgExclusive'
  BY DEF PgExclusive
<1>6. \A p \in Procs : ExclusiveAvailable(p)' => p # q /\ ExclusiveAvailable(p)
  BY <1>q, ConstantsAssumption DEF ExclusiveAvailable, TakeExclusive, TypeOK
<1>7. ExclusiveSleepersWoken'
  BY <1>6 DEF ExclusiveSleepersWoken, SleepersExcl, TakeExclusive, TypeOK
<1>8. NoLostWakeup'
  <2> SUFFICES ASSUME NEW p \in Procs, ExclusiveAvailable(p)', Sleepers(p)' # {}
               PROVE  Sleepers(p)' \cap notified' # {}
    BY DEF NoLostWakeup
  <2>1. p # q /\ ExclusiveAvailable(p)
    BY <1>6
  <2>2. Sleepers(p)' = Sleepers(p) /\ t \notin Sleepers(p)
    BY <2>1 DEF Sleepers, Asleep, TakeExclusive, TypeOK
  <2> QED
    BY <2>1, <2>2 DEF NoLostWakeup
<1> QED
  BY <1>1, <1>2, <1>3, <1>4, <1>5, <1>7, <1>8

\* A step that gives a lease back without touching the advisory lock.
LEMMA ReleaseStep ==
    ASSUME LaneInv, NEW t \in Tasks, pc[t] \in {"locking", "unlocked"},
           ReleaseLocal(t), pg' = pg
    PROVE  LaneInv'
<1> DEFINE q == ProcOf[t]
<1>q. q \in Procs
  BY ConstantsAssumption
<1> USE DEF LaneInv
<1>t. lease[t] \in Modes
  BY DEF PlaceInv, TypeOK, Lease
<1>s. sharedCount' \in [Procs -> Nat] /\ \A p \in Procs : sharedCount'[p] = Cardinality(SharedIn(p)')
  <2>1. CASE lease[t] = "exclusive"
    <3>1. \A p \in Procs : SharedIn(p)' = SharedIn(p)
      BY <2>1 DEF SharedIn, ReleaseLocal, TypeOK
    <3> QED
      BY <2>1, <3>1 DEF CountersAgree, ReleaseLocal, TypeOK
  <2>2. CASE lease[t] = "shared"
    <3>1. SharedIn(q)' = SharedIn(q) \ {t} /\ t \in SharedIn(q)
      BY <2>2 DEF SharedIn, ReleaseLocal, TypeOK
    <3>2. \A p \in Procs \ {q} : SharedIn(p)' = SharedIn(p)
      BY DEF SharedIn, ReleaseLocal, TypeOK
    <3>3. SharedIn(q) \in SUBSET Tasks
      BY DEF SharedIn
    <3>4. Cardinality(SharedIn(q)') = Cardinality(SharedIn(q)) - 1
      BY <3>1, <3>3, SubsetCount
    <3>5. sharedCount[q] > 0
      BY <1>q, <3>1, CountersPositive
    <3> QED
      BY <1>q, <2>2, <3>2, <3>4, <3>5 DEF CountersAgree, ReleaseLocal, TypeOK
  <2> QED
    BY <1>t, <2>1, <2>2 DEF Modes
<1>1. TypeOK'
  <2>1. /\ pc' \in [Tasks -> Places] /\ lease' \in [Tasks -> Lease]
        /\ depth' \in [Tasks -> Nat] /\ waitingExcl' \in [Procs -> Nat]
    BY DEF TypeOK, ReleaseLocal, Places, Lease, Modes
  <2>2. /\ owner' \in [Procs -> Tasks \cup {NoTask}]
        /\ notified' \subseteq Tasks /\ pg' \in [Tasks -> Lease]
    BY <1>q DEF TypeOK, ReleaseLocal, NotifyAll, Sleepers
  <2>3. wait' = wait
    BY DEF ReleaseLocal
  <2> QED
    BY <1>s, <2>1, <2>2, <2>3, Zenon DEF TypeOK
<1>2. PlaceInv'
  BY DEF TypeOK, PlaceInv, ReleaseLocal
<1>3. CountersAgree'
  <2>1. \A p \in Procs : SleepersExcl(p)' = SleepersExcl(p)
    BY DEF SleepersExcl, ReleaseLocal, TypeOK
  <2>2. \A p \in Procs : waitingExcl'[p] = Cardinality(SleepersExcl(p)')
    BY <2>1 DEF CountersAgree, ReleaseLocal
  <2>3. \A p \in Procs, u \in Tasks :
            owner'[p] = u <=> ProcOf[u] = p /\ lease'[u] = "exclusive"
    BY <1>q, <1>t, ConstantsAssumption DEF CountersAgree, ReleaseLocal, TypeOK, Modes
  <2> QED
    BY <1>s, <2>2, <2>3 DEF CountersAgree
<1>4. OwnerAlone'
  <2>1. CASE lease[t] = "exclusive"
    BY <1>q, <2>1 DEF OwnerAlone, ReleaseLocal, TypeOK
  <2>2. CASE lease[t] = "shared"
    <3>1. t \in SharedIn(q)
      BY <2>2 DEF SharedIn
    <3>2. owner[q] = NoTask
      BY <1>q, <3>1, CountersPositive DEF OwnerAlone
    <3> QED
      BY <1>q, <2>2, <3>2 DEF OwnerAlone, ReleaseLocal, TypeOK
  <2> QED
    BY <1>t, <2>1, <2>2 DEF Modes
<1>5. PgExclusive'
  BY DEF PgExclusive
<1>6. \A p \in Procs : Sleepers(p)' = Sleepers(p) /\ SleepersExcl(p)' = SleepersExcl(p)
  BY DEF Sleepers, SleepersExcl, Asleep, ReleaseLocal, TypeOK
<1>7. \A p \in Procs : p # q => (ExclusiveAvailable(p)' <=> ExclusiveAvailable(p))
  BY <1>q, <1>t DEF ExclusiveAvailable, ReleaseLocal, TypeOK, Modes
<1>8. ExclusiveSleepersWoken'
  BY <1>6, <1>7 DEF ExclusiveSleepersWoken, ReleaseLocal, NotifyAll, Sleepers, SleepersExcl, Asleep
<1>9. NoLostWakeup'
  BY <1>6, <1>7 DEF NoLostWakeup, ReleaseLocal, NotifyAll
<1> QED
  BY <1>1, <1>2, <1>3, <1>4, <1>5, <1>8, <1>9

\* A step that puts a task to sleep on the condition or wakes it in vain.
LEMMA SleepStep ==
    ASSUME LaneInv, NEW t \in Tasks,
           wait' \in [Tasks -> BOOLEAN],
           UNCHANGED <<lease, depth, owner, sharedCount, pg>>,
           \/ /\ pc[t] \in {"idle", "sleepShared"} /\ ~SharedAvailable(ProcOf[t])
              /\ pc' = [pc EXCEPT ![t] = "sleepShared"]
              /\ waitingExcl' = waitingExcl
              /\ notified' = IF pc[t] = "idle" THEN notified ELSE notified \ {t}
           \/ /\ pc[t] = "idle" /\ ~ExclusiveAvailable(ProcOf[t])
              /\ pc' = [pc EXCEPT ![t] = "sleepExcl"]
              /\ waitingExcl' = [waitingExcl EXCEPT ![ProcOf[t]] = @ + 1]
              /\ notified' = notified
           \/ /\ pc[t] = "sleepExcl" /\ ~ExclusiveAvailable(ProcOf[t])
              /\ UNCHANGED <<pc, waitingExcl>>
              /\ notified' = notified \ {t}
    PROVE  LaneInv'
<1> DEFINE q == ProcOf[t]
<1>q. q \in Procs
  BY ConstantsAssumption
<1> USE DEF LaneInv
<1>s. \A p \in Procs : SharedIn(p)' = SharedIn(p)
  BY DEF SharedIn
<1>w. waitingExcl' \in [Procs -> Nat] /\ \A p \in Procs : waitingExcl'[p] = Cardinality(SleepersExcl(p)')
  <2>1. CASE waitingExcl' = waitingExcl
    <3>1. \A p \in Procs : SleepersExcl(p)' = SleepersExcl(p)
      BY <2>1, <1>q DEF SleepersExcl, TypeOK
    <3> QED
      BY <2>1, <3>1 DEF CountersAgree, TypeOK
  <2>2. CASE /\ pc[t] = "idle" /\ pc' = [pc EXCEPT ![t] = "sleepExcl"]
             /\ waitingExcl' = [waitingExcl EXCEPT ![ProcOf[t]] = @ + 1]
    <3>1. SleepersExcl(q)' = SleepersExcl(q) \cup {t} /\ t \notin SleepersExcl(q)
      BY <2>2 DEF SleepersExcl, TypeOK
    <3>2. \A p \in Procs \ {q} : SleepersExcl(p)' = SleepersExcl(p)
      BY <2>2 DEF SleepersExcl, TypeOK
    <3>3. SleepersExcl(q) \in SUBSET Tasks
      BY DEF SleepersExcl
    <3>4. Cardinality(SleepersExcl(q)') = Cardinality(SleepersExcl(q)) + 1
      BY <3>1, <3>3, SubsetCount
    <3> QED
      BY <1>q, <2>2, <3>2, <3>4 DEF CountersAgree, TypeOK
  <2> QED
    BY <2>1, <2>2
<1>1. TypeOK'
  <2>1. pc' \in [Tasks -> Places] /\ notified' \subseteq Tasks
    BY DEF TypeOK, Places
  <2> QED
    BY <1>w, <2>1, Zenon DEF TypeOK
<1>2. PlaceInv'
  BY DEF TypeOK, PlaceInv
<1>3. CountersAgree'
  BY <1>s, <1>w DEF CountersAgree
<1>4. OwnerAlone' /\ PgExclusive'
  BY DEF OwnerAlone, PgExclusive
<1>5. \A p \in Procs : ExclusiveAvailable(p)' <=> ExclusiveAvailable(p)
  BY DEF ExclusiveAvailable
<1>6. ExclusiveSleepersWoken'
  BY <1>5, <1>q DEF ExclusiveSleepersWoken, SleepersExcl, TypeOK
<1>7. NoLostWakeup'
  <2> SUFFICES ASSUME NEW p \in Procs, ExclusiveAvailable(p), Sleepers(p)' # {}
               PROVE  Sleepers(p)' \cap notified' # {}
    BY <1>5 DEF NoLostWakeup
  <2>1. CASE p # q
    <3>1. Sleepers(p)' = Sleepers(p) /\ t \notin Sleepers(p)
      BY <2>1 DEF Sleepers, Asleep, TypeOK
    <3> QED
      BY <3>1 DEF NoLostWakeup
  <2>2. CASE p = q
    <3>1. /\ pc[t] \in {"idle", "sleepShared"} /\ ~SharedAvailable(q)
          /\ pc' = [pc EXCEPT ![t] = "sleepShared"] /\ notified \ {t} \subseteq notified'
      BY <2>2
    <3>2. waitingExcl[q] # 0
      BY <2>2, <3>1 DEF SharedAvailable, ExclusiveAvailable
    <3>3. PICK e \in Tasks : e \in SleepersExcl(q)
      BY <1>q, <3>2, CountersPositive DEF SleepersExcl
    <3>4. e \in notified /\ e # t
      BY <2>2, <3>1, <3>3 DEF ExclusiveSleepersWoken, SleepersExcl
    <3>5. e \in Sleepers(q)'
      BY <3>1, <3>3, <3>4 DEF Sleepers, SleepersExcl, Asleep, TypeOK
    <3> QED
      BY <2>2, <3>1, <3>4, <3>5
  <2> QED
    BY <2>1, <2>2
<1> QED
  BY <1>1, <1>2, <1>3, <1>4, <1>6, <1>7

\* Cancelling a sleeping request.
LEMMA CancelSleepStep ==
    ASSUME LaneInv, NEW t \in Tasks, CancelSleep(t)
    PROVE  LaneInv'
<1> DEFINE q == ProcOf[t]
<1>q. q \in Procs
  BY ConstantsAssumption
<1> USE DEF LaneInv
<1>a. PICK after \in SUBSET Tasks : PassOn(t, after) /\ notified' = after
  BY DEF CancelSleep
<1>s. \A p \in Procs : SharedIn(p)' = SharedIn(p)
  BY DEF SharedIn, CancelSleep
<1>p. \A p \in Procs : Sleepers(p)' = Sleepers(p) \ {t}
  BY DEF Sleepers, Asleep, CancelSleep, TypeOK
<1>w. waitingExcl' \in [Procs -> Nat] /\ \A p \in Procs : waitingExcl'[p] = Cardinality(SleepersExcl(p)')
  <2>1. CASE pc[t] = "sleepShared"
    <3>1. \A p \in Procs : SleepersExcl(p)' = SleepersExcl(p)
      BY <2>1 DEF SleepersExcl, TypeOK, CancelSleep
    <3> QED
      BY <2>1, <3>1 DEF CountersAgree, TypeOK, CancelSleep
  <2>2. CASE pc[t] = "sleepExcl"
    <3>1. SleepersExcl(q)' = SleepersExcl(q) \ {t} /\ t \in SleepersExcl(q)
      BY <2>2 DEF SleepersExcl, CancelSleep, TypeOK
    <3>2. \A p \in Procs \ {q} : SleepersExcl(p)' = SleepersExcl(p)
      BY DEF SleepersExcl, CancelSleep, TypeOK
    <3>3. SleepersExcl(q) \in SUBSET Tasks
      BY DEF SleepersExcl
    <3>4. Cardinality(SleepersExcl(q)') = Cardinality(SleepersExcl(q)) - 1
      BY <3>1, <3>3, SubsetCount
    <3>5. waitingExcl[q] > 0
      BY <1>q, <3>1, CountersPositive
    <3> QED
      BY <1>q, <2>2, <3>2, <3>4, <3>5 DEF CountersAgree, TypeOK, CancelSleep
  <2> QED
    BY <2>1, <2>2 DEF CancelSleep, Asleep
<1>1. TypeOK'
  <2>1. pc' \in [Tasks -> Places] /\ notified' \subseteq Tasks
    BY <1>a DEF TypeOK, Places, CancelSleep
  <2>2. UNCHANGED <<wait, lease, depth, owner, sharedCount, pg>>
    BY DEF CancelSleep
  <2> QED
    BY <1>w, <2>1, <2>2, Zenon DEF TypeOK
<1>2. PlaceInv'
  BY DEF TypeOK, PlaceInv, CancelSleep, Asleep
<1>3. CountersAgree'
  BY <1>s, <1>w DEF CountersAgree, CancelSleep
<1>4. OwnerAlone' /\ PgExclusive'
  BY DEF OwnerAlone, PgExclusive, CancelSleep
<1>5. \A p \in Procs : ExclusiveAvailable(p)' <=> ExclusiveAvailable(p)
  BY DEF ExclusiveAvailable, CancelSleep
<1>6. notified \ {t} \subseteq notified'
  BY <1>a DEF PassOn
<1>7. \A p \in Procs : SleepersExcl(p)' \subseteq SleepersExcl(p) \ {t}
  BY DEF SleepersExcl, CancelSleep, TypeOK
<1>8. ExclusiveSleepersWoken'
  BY <1>5, <1>6, <1>7 DEF ExclusiveSleepersWoken
<1>9. NoLostWakeup'
  <2> SUFFICES ASSUME NEW p \in Procs, ExclusiveAvailable(p), Sleepers(p) \ {t} # {}
               PROVE  (Sleepers(p) \ {t}) \cap notified' # {}
    BY <1>5, <1>p DEF NoLostWakeup
  <2>1. CASE p # q
    BY <2>1, <1>6 DEF NoLostWakeup, Sleepers
  <2>2. CASE p = q
    BY <2>2, <1>a, <1>6 DEF PassOn
  <2> QED
    BY <2>1, <2>2
<1> QED
  BY <1>1, <1>2, <1>3, <1>4, <1>8, <1>9

\* Steps inside a body, between the lease and the body, or out of it: the
\* coordinator's own state is left alone, except for the depth.
LEMMA BodyStep ==
    ASSUME LaneInv, NEW t \in Tasks,
           \/ \E mode \in Modes : ReEnter(t, mode)
           \/ LeaveInner(t) \/ PgTryLock(t) \/ PgUnlock(t) \/ LoseSession(t) \/ LeakLease(t)
    PROVE  LaneInv'
<1> USE DEF LaneInv
<1>u. UNCHANGED <<wait, lease, owner, sharedCount, waitingExcl, notified>>
  BY DEF ReEnter, LeaveInner, PgTryLock, PgUnlock, LoseSession, LeakLease, local
<1>d. \A u \in Tasks : (pc[u] \in {"sleepShared", "sleepExcl"} \/ pc'[u] \in {"sleepShared", "sleepExcl"})
                         => pc'[u] = pc[u]
  BY DEF ReEnter, LeaveInner, PgTryLock, PgUnlock, LoseSession, LeakLease, TypeOK
<1>1. TypeOK'
  <2>1. pc' \in [Tasks -> Places] /\ pg' \in [Tasks -> Lease]
    BY DEF ReEnter, LeaveInner, PgTryLock, PgUnlock, LoseSession, LeakLease, TypeOK, Places, Lease
  <2>2. depth' \in [Tasks -> Nat]
    BY DEF ReEnter, LeaveInner, PgTryLock, PgUnlock, LoseSession, LeakLease, TypeOK, local
  <2> QED
    BY <1>u, <2>1, <2>2, Zenon DEF TypeOK
<1>2. PlaceInv'
  BY <1>u DEF ReEnter, LeaveInner, PgTryLock, PgUnlock, LoseSession, LeakLease, TypeOK, PlaceInv, local
<1>3. \A p \in Procs : /\ SharedIn(p)' = SharedIn(p)
                        /\ SleepersExcl(p)' = SleepersExcl(p)
                        /\ Sleepers(p)' = Sleepers(p)
                        /\ ExclusiveAvailable(p)' = ExclusiveAvailable(p)
  BY <1>u, <1>d DEF SharedIn, SleepersExcl, Sleepers, Asleep, ExclusiveAvailable
<1>4. CountersAgree' /\ OwnerAlone'
  BY <1>u, <1>3 DEF CountersAgree, OwnerAlone
<1>5. PgExclusive'
  <2>1. CASE PgTryLock(t)
    BY <2>1 DEF PgTryLock, PgCompatible, PgExclusive, TypeOK, Lease, Modes
  <2>2. CASE ~PgTryLock(t)
    BY <2>2 DEF ReEnter, LeaveInner, PgUnlock, LoseSession, LeakLease, PgExclusive, TypeOK
  <2> QED
    BY <2>1, <2>2
<1>6. ExclusiveSleepersWoken' /\ NoLostWakeup'
  BY <1>u, <1>3 DEF ExclusiveSleepersWoken, NoLostWakeup
<1> QED
  BY <1>1, <1>2, <1>4, <1>5, <1>6

\* The death of a process.
LEMMA CrashStep ==
    ASSUME LaneInv, NEW q \in Procs, Crash(q)
    PROVE  LaneInv'
<1> USE DEF LaneInv
<1>1. TypeOK'
  <2>1. /\ pc' \in [Tasks -> Places] /\ lease' \in [Tasks -> Lease]
        /\ depth' \in [Tasks -> Nat] /\ pg' \in [Tasks -> Lease]
    BY DEF Crash, TypeOK, Places, Lease
  <2>2. /\ owner' \in [Procs -> Tasks \cup {NoTask}]
        /\ sharedCount' \in [Procs -> Nat] /\ waitingExcl' \in [Procs -> Nat]
        /\ notified' \subseteq Tasks
    BY DEF Crash, TypeOK
  <2>3. wait' = wait
    BY DEF Crash
  <2> QED
    BY <2>1, <2>2, <2>3, Zenon DEF TypeOK
<1>2. PlaceInv'
  BY DEF Crash, PlaceInv, TypeOK
<1>3. SharedIn(q)' = {} /\ SleepersExcl(q)' = {} /\ Sleepers(q)' = {}
  BY DEF Crash, SharedIn, SleepersExcl, Sleepers, Asleep
<1>4. \A p \in Procs \ {q} : /\ SharedIn(p)' = SharedIn(p)
                              /\ SleepersExcl(p)' = SleepersExcl(p)
                              /\ Sleepers(p)' = Sleepers(p)
                              /\ ExclusiveAvailable(p)' = ExclusiveAvailable(p)
  BY DEF Crash, SharedIn, SleepersExcl, Sleepers, Asleep, ExclusiveAvailable, TypeOK
<1>5. CountersAgree'
  <2>1. \A p \in Procs : /\ sharedCount'[p] = Cardinality(SharedIn(p)')
                          /\ waitingExcl'[p] = Cardinality(SleepersExcl(p)')
    <3>1. sharedCount'[q] = 0 /\ waitingExcl'[q] = 0
      BY DEF Crash, TypeOK
    <3>2. \A p \in Procs \ {q} : sharedCount'[p] = sharedCount[p] /\ waitingExcl'[p] = waitingExcl[p]
      BY DEF Crash, TypeOK
    <3>3. Cardinality(SharedIn(q)') = 0 /\ Cardinality(SleepersExcl(q)') = 0
      BY <1>3, FS_EmptySet
    <3>4. \A p \in Procs \ {q} : /\ Cardinality(SharedIn(p)') = Cardinality(SharedIn(p))
                                  /\ Cardinality(SleepersExcl(p)') = Cardinality(SleepersExcl(p))
      BY <1>4
    <3> QED
      BY <3>1, <3>2, <3>3, <3>4 DEF CountersAgree
  <2>2. \A p \in Procs, u \in Tasks :
            owner'[p] = u <=> ProcOf[u] = p /\ lease'[u] = "exclusive"
    BY ConstantsAssumption DEF CountersAgree, Crash, TypeOK
  <2> QED
    BY <2>1, <2>2 DEF CountersAgree
<1>6. OwnerAlone'
  BY DEF OwnerAlone, Crash, TypeOK
<1>7. PgExclusive'
  BY DEF PgExclusive, Crash, TypeOK
<1>8. ExclusiveSleepersWoken'
  BY <1>3, <1>4 DEF ExclusiveSleepersWoken, Crash, SleepersExcl
<1>9. NoLostWakeup'
  BY <1>3, <1>4 DEF NoLostWakeup, Crash, Sleepers
<1> QED
  BY <1>1, <1>2, <1>5, <1>6, <1>7, <1>8, <1>9

\* A step that changes nothing.
LEMMA StutterStep ==
    ASSUME LaneInv, UNCHANGED vars
    PROVE  LaneInv'
<1> USE DEF LaneInv
<1>u. UNCHANGED <<pc, wait, lease, depth, owner, sharedCount, waitingExcl, notified, pg>>
  BY DEF vars
<1>1. TypeOK' /\ PlaceInv' /\ OwnerAlone' /\ PgExclusive'
  BY <1>u, Zenon DEF TypeOK, PlaceInv, OwnerAlone, PgExclusive
<1>2. \A p \in Procs : /\ SharedIn(p)' = SharedIn(p)
                        /\ SleepersExcl(p)' = SleepersExcl(p)
                        /\ Sleepers(p)' = Sleepers(p)
                        /\ ExclusiveAvailable(p)' = ExclusiveAvailable(p)
  BY <1>u DEF SharedIn, SleepersExcl, Sleepers, Asleep, ExclusiveAvailable
<1>3. CountersAgree'
  BY <1>u, <1>2 DEF CountersAgree
<1>4. ExclusiveSleepersWoken' /\ NoLostWakeup'
  BY <1>u, <1>2 DEF ExclusiveSleepersWoken, NoLostWakeup
<1> QED
  BY <1>1, <1>3, <1>4

\* Every step of the lane, of any task or process, keeps the invariant.
LEMMA LaneStep == LaneInv /\ [Next]_vars => LaneInv'
<1> SUFFICES ASSUME LaneInv, [Next]_vars
             PROVE  LaneInv'
  OBVIOUS
<1>t. wait \in [Tasks -> BOOLEAN]
  BY DEF LaneInv, TypeOK
<1>1. CASE UNCHANGED vars
  BY <1>1, StutterStep
<1>2. ASSUME NEW p \in Procs, Crash(p)
      PROVE  LaneInv'
  BY <1>2, CrashStep
<1>3. ASSUME NEW t \in Tasks, Step(t)
      PROVE  LaneInv'
  <2>1. CASE WriteOperation(t)
    <3>1. wait' \in [Tasks -> BOOLEAN]
      BY <1>t, <2>1, Zenon DEF WriteOperation
    <3>2. CASE SharedAvailable(ProcOf[t])
      BY <2>1, <3>1, <3>2, TakeSharedStep DEF WriteOperation
    <3>3. CASE ~SharedAvailable(ProcOf[t])
      BY <2>1, <3>1, <3>3, SleepStep DEF WriteOperation, local
    <3> QED
      BY <3>2, <3>3
  <2>2. ASSUME NEW w \in BOOLEAN, Operation(t, w)
        PROVE  LaneInv'
    <3>1. wait' \in [Tasks -> BOOLEAN]
      BY <1>t, <2>2, Zenon DEF Operation
    <3>2. CASE ExclusiveAvailable(ProcOf[t])
      BY <2>2, <3>1, <3>2, TakeExclusiveStep DEF Operation
    <3>3. CASE ~ExclusiveAvailable(ProcOf[t])
      BY <2>2, <3>1, <3>3, SleepStep DEF Operation
    <3> QED
      BY <3>2, <3>3
  <2>3. CASE WakeShared(t)
    <3>1. wait' \in [Tasks -> BOOLEAN]
      BY <1>t, <2>3 DEF WakeShared
    <3>2. CASE SharedAvailable(ProcOf[t])
      BY <2>3, <3>1, <3>2, TakeSharedStep DEF WakeShared
    <3>3. CASE ~SharedAvailable(ProcOf[t])
      <4>1. pc' = [pc EXCEPT ![t] = "sleepShared"]
        BY <2>3, <3>3 DEF WakeShared, LaneInv, TypeOK
      <4> QED
        BY <2>3, <3>1, <3>3, <4>1, SleepStep DEF WakeShared
    <3> QED
      BY <3>2, <3>3
  <2>4. CASE WakeExclusive(t)
    <3>1. wait' \in [Tasks -> BOOLEAN]
      BY <1>t, <2>4 DEF WakeExclusive
    <3>2. CASE ExclusiveAvailable(ProcOf[t])
      BY <2>4, <3>1, <3>2, TakeExclusiveStep DEF WakeExclusive
    <3>3. CASE ~ExclusiveAvailable(ProcOf[t])
      BY <2>4, <3>1, <3>3, SleepStep DEF WakeExclusive
    <3> QED
      BY <3>2, <3>3
  <2>5. CASE CancelSleep(t)
    BY <2>5, CancelSleepStep
  <2>6. CASE PgRefuse(t) \/ CancelLocking(t) \/ Finish(t)
    BY <2>6, ReleaseStep DEF PgRefuse, CancelLocking, Finish
  <2>7. CASE \/ \E mode \in Modes : ReEnter(t, mode)
             \/ LeaveInner(t) \/ PgTryLock(t) \/ PgUnlock(t) \/ LoseSession(t) \/ LeakLease(t)
    BY <2>7, BodyStep
  <2> QED
    BY <1>3, <2>1, <2>2, <2>3, <2>4, <2>5, <2>6, <2>7 DEF Step
<1> QED
  BY <1>1, <1>2, <1>3 DEF Next

\* The empty lane satisfies the invariant.
LEMMA LaneInit == Init => LaneInv
<1> SUFFICES ASSUME Init PROVE LaneInv
  OBVIOUS
<1>1. TypeOK
  <2>1. wait \in [Tasks -> BOOLEAN]
    BY Zenon DEF Init
  <2> QED
    BY <2>1 DEF Init, TypeOK, Places, Lease
<1>2. \A p \in Procs : SharedIn(p) = {} /\ SleepersExcl(p) = {} /\ Sleepers(p) = {}
  BY DEF Init, SharedIn, SleepersExcl, Sleepers, Asleep
<1>3. CountersAgree
  BY <1>2, FS_EmptySet, ConstantsAssumption DEF Init, CountersAgree
<1> QED
  BY <1>1, <1>2, <1>3 DEF Init, LaneInv, PlaceInv, OwnerAlone, PgExclusive,
                          ExclusiveSleepersWoken, NoLostWakeup

\* LaneInv holds in every reachable state, for every set of processes and
\* tasks, with or without crashes and lost sessions.
THEOREM LaneInvariant == Spec => []LaneInv
<1> QED
  BY LaneInit, LaneStep, PTL DEF Spec

\* Type correctness of the lane's state.
THEOREM LaneTypeOK == Spec => []TypeOK
<1>1. LaneInv => TypeOK
  BY DEF LaneInv
<1> QED
  BY <1>1, LaneInvariant, PTL

\* The coordinator's counters never drift.
THEOREM LaneCountersAgree == Spec => []CountersAgree
<1>1. LaneInv => CountersAgree
  BY DEF LaneInv
<1> QED
  BY <1>1, LaneInvariant, PTL

\* No wake-up of the condition variable is lost.
THEOREM LaneNoLostWakeup == Spec => []NoLostWakeup
<1>1. LaneInv => NoLostWakeup
  BY DEF LaneInv
<1> QED
  BY <1>1, LaneInvariant, PTL

\* A maintenance body is alone among all bodies of all processes, as long as
\* PostgreSQL keeps the lock-holding sessions.
THEOREM LaneExclusion == Spec => []ExclusiveAlone
<1>1. LaneInv => ExclusiveAlone
  BY DEF LaneInv, ExclusiveAlone, PlaceInv, PgExclusive, TypeOK, Lease, Modes
<1> QED
  BY <1>1, LaneInvariant, PTL

\* Inside one process exclusion does not depend on the sessions.
THEOREM LaneLocalExclusion == Spec => []LocalExclusion
<1>1. ASSUME LaneInv PROVE LocalExclusion
  <2> SUFFICES ASSUME NEW t \in Tasks, NEW u \in Tasks, t # u, ProcOf[t] = ProcOf[u],
                      lease[t] = "exclusive", lease[u] # "none"
               PROVE  FALSE
    BY <1>1 DEF LocalExclusion, LaneInv, TypeOK, Lease, Modes
  <2>1. ProcOf[t] \in Procs
    BY ConstantsAssumption
  <2>2. owner[ProcOf[t]] = t
    BY <1>1, <2>1 DEF LaneInv, CountersAgree
  <2>3. lease[u] = "shared"
    BY <1>1, <2>1, <2>2 DEF LaneInv, CountersAgree, TypeOK, Lease, Modes
  <2>4. SharedIn(ProcOf[t]) # {}
    BY <2>3 DEF SharedIn
  <2>5. sharedCount[ProcOf[t]] # 0
    BY <1>1, <2>1, <2>4, CountersPositive DEF LaneInv
  <2> QED
    BY <1>1, <2>1, <2>2, <2>5, ConstantsAssumption DEF LaneInv, OwnerAlone
<1> QED
  BY <1>1, LaneInvariant, PTL

\* No session keeps an advisory lock after the body it was taken for.
THEOREM LaneNoOrphanLock == Spec => []NoOrphanAdvisoryLock
<1>1. LaneInv => NoOrphanAdvisoryLock
  BY DEF LaneInv, NoOrphanAdvisoryLock, PlaceInv, TypeOK, Places
<1> QED
  BY <1>1, LaneInvariant, PTL

\* A step of the two-level lock is a step, or a stutter, of the lease it
\* implements: only winning the advisory lock grants, only giving it back or
\* dying leaves.
LEMMA LaneRefinesStep ==
    ASSUME ~SessionLoss, LaneInv, [Next]_vars
    PROVE  [Lane!Next]_held
<1> USE DEF LaneInv
<1>1. CASE UNCHANGED vars
  BY <1>1 DEF vars, held
<1>2. ASSUME NEW p \in Procs, Crash(p)
      PROVE  Lane!Next
  <2> DEFINE S == {t \in Tasks : ProcOf[t] = p}
  <2>1. held' = [t \in Tasks |-> IF t \in S THEN "none" ELSE held[t]]
    BY <1>2 DEF Crash, held
  <2>2. S \in SUBSET Tasks
    OBVIOUS
  <2> QED
    BY <2>1, <2>2 DEF Lane!Next, Lane!Leave
<1>3. ASSUME NEW t \in Tasks, Step(t)
      PROVE  [Lane!Next]_held
  <2>1. CASE PgTryLock(t)
    <3>1. /\ held' = [held EXCEPT ![t] = lease[t]]
          /\ held[t] = "none"
      BY <2>1 DEF PgTryLock, held, local, TypeOK
    <3>2. lease[t] \in {"shared", "exclusive"}
      BY <2>1 DEF PgTryLock, PlaceInv, TypeOK, Lease, Modes
    <3>3. \A u \in Tasks \ {t} : held[u] = pg[u]
      BY DEF held, PlaceInv, TypeOK, Places
    <3>4. CASE lease[t] = "shared"
      <4>1. \A u \in Tasks : held[u] # "exclusive"
        BY <2>1, <3>1, <3>3, <3>4 DEF PgTryLock, PgCompatible
      <4> QED
        BY <3>1, <3>4, <4>1 DEF Lane!Next, Lane!GrantShared
    <3>5. CASE lease[t] = "exclusive"
      <4>1. \A u \in Tasks : held[u] = "none"
        BY <2>1, <3>1, <3>3, <3>5 DEF PgTryLock, PgCompatible
      <4> QED
        BY <3>1, <3>5, <4>1 DEF Lane!Next, Lane!GrantExclusive
    <3> QED
      BY <3>2, <3>4, <3>5
  <2>2. CASE PgUnlock(t)
    <3>1. held' = [u \in Tasks |-> IF u \in {t} THEN "none" ELSE held[u]]
      BY <2>2 DEF PgUnlock, held, local, TypeOK
    <3> QED
      BY <3>1 DEF Lane!Next, Lane!Leave
  <2>3. CASE WriteOperation(t) \/ \E w \in BOOLEAN : Operation(t, w)
    <3>1. held' = held
      BY <2>3 DEF WriteOperation, Operation, TakeShared, TakeExclusive, held, local, TypeOK
    <3> QED
      BY <3>1
  <2>4. CASE WakeShared(t) \/ WakeExclusive(t) \/ CancelSleep(t)
    <3>1. held' = held
      BY <2>4 DEF WakeShared, WakeExclusive, CancelSleep, Asleep, TakeShared, TakeExclusive,
                  held, TypeOK
    <3> QED
      BY <3>1
  <2>5. CASE PgRefuse(t) \/ CancelLocking(t) \/ Finish(t)
    <3>1. held' = held
      BY <2>5 DEF PgRefuse, CancelLocking, Finish, ReleaseLocal, held, TypeOK
    <3> QED
      BY <3>1
  <2>6. CASE LeaveInner(t) \/ LoseSession(t) \/ LeakLease(t) \/ \E mode \in Modes : ReEnter(t, mode)
    <3>1. held' = held
      BY <2>6 DEF LeaveInner, LoseSession, LeakLease, ReEnter, held, local, TypeOK
    <3> QED
      BY <3>1
  <2> QED
    BY <1>3, <2>1, <2>2, <2>3, <2>4, <2>5, <2>6 DEF Step
<1> QED
  BY <1>1, <1>2, <1>3 DEF Next

\* As long as PostgreSQL keeps the sessions, the coordinators of any number of
\* processes over the one advisory lock implement the abstract lease.
THEOREM LaneRefinement == ~SessionLoss => (Spec => ImplementsLane)
<1> SUFFICES ASSUME ~SessionLoss
             PROVE  Spec => ImplementsLane
  OBVIOUS
<1>1. Init => Lane!Init
  BY DEF Init, Lane!Init, held
<1>2. LaneInv /\ [Next]_vars => [Lane!Next]_held
  BY LaneRefinesStep
<1> QED
  BY <1>1, <1>2, LaneInvariant, PTL DEF Spec, ImplementsLane, Lane!Spec
=============================================================================
