--------------------------- MODULE MemoryCompacts ---------------------------
(***************************************************************************)
(* Memory Compacts of one project: Markdown notes with a lifecycle status. *)
(* A creation (plain, or a resume package sealed into a lineage) runs      *)
(* under an flock and writes its files from a worker thread; the lifecycle *)
(* requests (mark current, archive, delete) take no lock.  Every file is   *)
(* replaced atomically, a whole operation is not.  A compact is named by   *)
(* the request that creates it: its identifier is a fresh uuid.            *)
(***************************************************************************)
EXTENDS Integers, FiniteSets

CONSTANTS Requests,      \* creation requests
          Drafts,        \* contents a caller may ask for
          RequestIds,    \* caller-chosen request ids of resume packages
          Lifecycle,     \* lifecycle requests taken: subset of LifecycleOps
          MaxEvidence,   \* edits of the evidence Contexts
          MaxCrashes,    \* process crashes
          MaxLifecycle,  \* lifecycle requests, at most one of each kind
          None, Absent

LifecycleOps == {"mark", "archive", "delete"}

ASSUME CompactAssumption ==
    /\ Lifecycle \subseteq LifecycleOps
    /\ {MaxEvidence, MaxCrashes, MaxLifecycle} \subseteq Nat
    /\ None \notin Requests
    /\ Absent \notin [status : {"DRAFT", "CURRENT", "SUPERSEDED", "ARCHIVED"},
                      kind : {"plain", "resume"}, draft : Drafts \X Nat,
                      rid : RequestIds, rev : Nat, prev : Requests \cup {None}]

VARIABLES compacts,  \* the notes: request -> Absent or the parsed compact
          lock,      \* holder of the creation lock
          task,      \* the creation requests
          life,      \* the lifecycle request in progress
          evidence,  \* revision of the evidence Contexts
          crashes,
          lifes      \* kinds of lifecycle request taken so far

vars == <<compacts, lock, task, life, evidence, crashes, lifes>>

Statuses == {"DRAFT", "CURRENT", "SUPERSEDED", "ARCHIVED"}
Kinds == {"plain", "resume"}

\* What a compact file holds; draft is the hashed content with the evidence
\* revision it was sealed against, rev and prev the place in the lineage.
Compact == [status : Statuses, kind : Kinds, draft : Drafts \X (0 .. MaxEvidence),
            rid : RequestIds, rev : Nat, prev : Requests \cup {None}]

Pcs == {"idle", "guard", "lineage", "normalize", "signature", "persist",
        "supersede", "write", "readback", "release", "done"}

Task == [pc : Pcs, new : Compact \cup {Absent}, todo : SUBSET Requests,
         snap : [Requests -> Compact \cup {Absent}],
         reply : Requests \cup {None}]

NoLife == [op |-> None, id |-> None, todo |-> {},
           snap |-> [r \in Requests |-> Absent]]
Idle == [pc |-> "idle", new |-> Absent, todo |-> {},
         snap |-> [r \in Requests |-> Absent], reply |-> None]

Stored == {i \in Requests : compacts[i] # Absent}
Current == {i \in Stored : compacts[i].status = "CURRENT"}
Packages == {i \in Stored : compacts[i].kind = "resume"}

Init ==
    /\ compacts = [r \in Requests |-> Absent]
    /\ lock = None
    /\ task = [r \in Requests |-> Idle]
    /\ life = NoLife
    /\ evidence = 0
    /\ crashes = 0
    /\ lifes = {}

-----------------------------------------------------------------------------
(* Creation                                                                *)

Goto(r, pc) == task' = [task EXCEPT ![r].pc = pc]

Finish(r, reply) ==
    task' = [task EXCEPT ![r] = [Idle EXCEPT !.pc = "release", !.reply = reply]]

\* The evidence of a resume package is observed here, before the lock.
Start(r, kind, d, rid, status) ==
    /\ task[r].pc = "idle"
    /\ kind = "resume" => status = "CURRENT"
    /\ task' = [task EXCEPT
                  ![r].pc = IF kind = "resume" THEN "guard" ELSE "normalize",
                  ![r].new = [status |-> status, kind |-> kind,
                              draft |-> <<d, IF kind = "resume" THEN evidence ELSE 0>>,
                              rid |-> rid, rev |-> 0, prev |-> None]]
    /\ UNCHANGED <<compacts, lock, life, evidence, crashes, lifes>>

\* normalized_create: a CURRENT compact must pass its review before anything
\* is stored.  A plain creation validates before it takes the lock.
Normalize(r, ok) ==
    /\ task[r].pc = "normalize"
    /\ task[r].new.status # "CURRENT" => ok
    /\ IF ok THEN Goto(r, IF task[r].new.kind = "plain" THEN "guard" ELSE "signature")
             ELSE Finish(r, None)
    /\ UNCHANGED <<compacts, lock, life, evidence, crashes, lifes>>

\* A variant of Acquire without the lock.
AcquireUnlocked(r) ==
    /\ task[r].pc = "guard"
    /\ lock' = r
    /\ Goto(r, IF task[r].new.kind = "resume" THEN "lineage" ELSE "signature")
    /\ UNCHANGED <<compacts, life, evidence, crashes, lifes>>

\* _acquire: flock, retried until the lock is free.
Acquire(r) ==
    /\ task[r].pc = "guard"
    /\ lock = None
    /\ lock' = r
    /\ Goto(r, IF task[r].new.kind = "resume" THEN "lineage" ELSE "signature")
    /\ UNCHANGED <<compacts, life, evidence, crashes, lifes>>

SameDraft(r) == {i \in Packages : compacts[i].draft = task[r].new.draft}

\* A variant of RequestConflict that looks at the latest revision only.
RequestConflictLatest(r) ==
    \E i \in Packages : /\ \A j \in Packages : compacts[j].rev <= compacts[i].rev
                        /\ compacts[i].rid = task[r].new.rid
                        /\ compacts[i].draft # task[r].new.draft

\* _reject_request_id_conflict: the request id names another draft.
RequestConflict(r) ==
    \E i \in Packages : /\ compacts[i].rid = task[r].new.rid
                        /\ compacts[i].draft # task[r].new.draft

\* A variant of Successor that continues the CURRENT package.
SuccessorOfCurrent(i) ==
    \/ Packages \cap Current = {} /\ i = None
    \/ i \in Packages \cap Current

\* next_lineage_successor: one more than the highest stored revision.
Successor(i) ==
    \/ Packages = {} /\ i = None
    \/ i \in Packages /\ \A j \in Packages : compacts[j].rev <= compacts[i].rev

\* create_resume_package under the lock: replay, conflict or next revision.
ReadLineage(r) ==
    /\ task[r].pc = "lineage"
    /\ \/ \E i \in SameDraft(r) : Finish(r, i)
       \/ SameDraft(r) = {} /\ RequestConflict(r) /\ Finish(r, None)
       \/ /\ SameDraft(r) = {} /\ ~RequestConflict(r)
          /\ \E i \in Packages \cup {None} :
               /\ Successor(i)
               /\ task' = [task EXCEPT
                     ![r].pc = "normalize", ![r].new.prev = i,
                     ![r].new.rev = IF i = None THEN 1 ELSE compacts[i].rev + 1]
    /\ UNCHANGED <<compacts, lock, life, evidence, crashes, lifes>>

\* The signature leaves the status out: project, window, sources and body.
SameSignature(c, n) ==
    /\ c.kind = n.kind /\ c.draft = n.draft
    /\ c.kind = "resume" => c.rev = n.rev /\ c.prev = n.prev /\ c.rid = n.rid

FindBySignature(r) ==
    /\ task[r].pc = "signature"
    /\ LET same == {i \in Stored : SameSignature(compacts[i], task[r].new)}
       IN IF same = {} THEN Goto(r, "persist")
                       ELSE \E i \in same : Finish(r, i)
    /\ UNCHANGED <<compacts, lock, life, evidence, crashes, lifes>>

\* _persist_created_compact, in a thread: a CURRENT compact first reads the
\* whole directory for the compacts it supersedes ...
PersistScan(r) ==
    /\ task[r].pc = "persist"
    /\ task' = IF task[r].new.status = "CURRENT"
               THEN [task EXCEPT ![r].pc = "supersede", ![r].todo = Current,
                                 ![r].snap = compacts]
               ELSE [task EXCEPT ![r].pc = "write"]
    /\ UNCHANGED <<compacts, lock, life, evidence, crashes, lifes>>

\* ... rewrites them one by one from what it has read ...
SupersedeOne(r) ==
    /\ task[r].pc = "supersede"
    /\ IF task[r].todo = {}
       THEN Goto(r, "write") /\ UNCHANGED compacts
       ELSE \E i \in task[r].todo :
              /\ compacts' = [compacts EXCEPT
                                ![i] = [task[r].snap[i] EXCEPT !.status = "SUPERSEDED"]]
              /\ task' = [task EXCEPT ![r].todo = @ \ {i}]
    /\ UNCHANGED <<lock, life, evidence, crashes, lifes>>

\* ... and writes its own file.
WriteNew(r) ==
    /\ task[r].pc = "write"
    /\ compacts' = [compacts EXCEPT ![r] = task[r].new]
    /\ IF task[r].new.kind = "resume" THEN Goto(r, "readback") ELSE Finish(r, r)
    /\ UNCHANGED <<lock, life, evidence, crashes, lifes>>

\* get and _verify_read_back: a package deleted meanwhile is an error.
ReadBack(r) ==
    /\ task[r].pc = "readback"
    /\ Finish(r, IF compacts[r] = Absent THEN None ELSE r)
    /\ UNCHANGED <<compacts, lock, life, evidence, crashes, lifes>>

Release(r) ==
    /\ task[r].pc = "release"
    /\ lock' = IF lock = r THEN None ELSE lock
    /\ Goto(r, "done")
    /\ UNCHANGED <<compacts, life, evidence, crashes, lifes>>

-----------------------------------------------------------------------------
(* Lifecycle requests: read the note, then rewrite it, without the lock.   *)

\* mark_current requires a passing review, so it may also refuse: no step.
LifecycleBegin(op, i) ==
    /\ life = NoLife
    /\ op \notin lifes /\ Cardinality(lifes) < MaxLifecycle
    /\ i \in Stored
    /\ life' = [op |-> op, id |-> i, snap |-> compacts,
                todo |-> IF op = "mark" THEN Current \ {i} ELSE {}]
    /\ lifes' = lifes \cup {op}
    /\ UNCHANGED <<compacts, lock, task, evidence, crashes>>

\* _supersede_current_project on behalf of mark_current.
LifecycleSupersede ==
    /\ life.op = "mark"
    /\ \E i \in life.todo :
         /\ compacts' = [compacts EXCEPT
                           ![i] = [life.snap[i] EXCEPT !.status = "SUPERSEDED"]]
         /\ life' = [life EXCEPT !.todo = @ \ {i}]
    /\ UNCHANGED <<lock, task, evidence, crashes, lifes>>

LifecycleResult ==
    CASE life.op = "mark"    -> [life.snap[life.id] EXCEPT !.status = "CURRENT"]
      [] life.op = "archive" -> [life.snap[life.id] EXCEPT !.status = "ARCHIVED"]
      [] life.op = "delete"  -> Absent

LifecycleEnd ==
    /\ life # NoLife
    /\ life.todo = {}
    /\ compacts' = [compacts EXCEPT ![life.id] = LifecycleResult]
    /\ life' = NoLife
    /\ UNCHANGED <<lock, task, evidence, crashes, lifes>>

-----------------------------------------------------------------------------
(* Environment                                                             *)

EditEvidence ==
    /\ evidence < MaxEvidence
    /\ evidence' = evidence + 1
    /\ UNCHANGED <<compacts, lock, task, life, crashes, lifes>>

\* The process dies: its flock is released by the kernel, the files stay.
Crash ==
    /\ crashes < MaxCrashes
    /\ crashes' = crashes + 1
    /\ lock' = None
    /\ life' = NoLife
    /\ task' = [r \in Requests |->
                  IF task[r].pc \in {"idle", "done"} THEN task[r]
                  ELSE [Idle EXCEPT !.pc = "done"]]
    /\ UNCHANGED <<compacts, evidence, lifes>>

CreateStep(r) ==
    \/ \E kind \in Kinds, d \in Drafts, rid \in RequestIds,
          status \in {"DRAFT", "CURRENT"} : Start(r, kind, d, rid, status)
    \/ \E ok \in BOOLEAN : Normalize(r, ok)
    \/ Acquire(r) \/ ReadLineage(r) \/ FindBySignature(r)
    \/ PersistScan(r) \/ SupersedeOne(r) \/ WriteNew(r)
    \/ ReadBack(r) \/ Release(r)

Next ==
    \/ \E r \in Requests : CreateStep(r)
    \/ \E op \in Lifecycle, i \in Requests : LifecycleBegin(op, i)
    \/ LifecycleSupersede
    \/ LifecycleEnd
    \/ EditEvidence
    \/ Crash

Spec == Init /\ [][Next]_vars

-----------------------------------------------------------------------------
(* Properties                                                              *)

\* The types of the variables; a deleted compact has no file (delete).
TypeOK ==
    /\ compacts \in [Requests -> Compact \cup {Absent}]
    /\ lock \in Requests \cup {None}
    /\ task \in [Requests -> Task]
    /\ life.op \in LifecycleOps \cup {None}
    /\ evidence \in 0 .. MaxEvidence
    /\ crashes \in 0 .. MaxCrashes
    /\ lifes \subseteq Lifecycle

\* Creations of a project, in whatever order their threads write, whatever is
\* archived or deleted under them and wherever the process dies, never leave
\* two CURRENT compacts, as long as none is marked current by hand.
OneCurrent == "mark" \notin lifes => Cardinality(Current) <= 1

\* What the repository's test of supersession promises: a project has one
\* CURRENT compact, however it came to be current.
ProjectOneCurrent == Cardinality(Current) <= 1

\* The stored packages of a lineage have distinct revisions and distinct
\* contents, and a package whose predecessor is still stored follows it by
\* exactly one: concurrent seals, retries and crashes never fork a lineage.
LineageLinear ==
    \A i \in Packages :
      /\ \A j \in Packages \ {i} : /\ compacts[i].rev # compacts[j].rev
                                   /\ compacts[i].draft # compacts[j].draft
      /\ compacts[i].prev \in Packages =>
           compacts[i].rev = compacts[compacts[i].prev].rev + 1

\* A request id is answered with one content only: two stored packages never
\* share it (a reused id with other content is refused, not sealed).
RequestIdOnce ==
    \A i, j \in Packages : compacts[i].rid = compacts[j].rid => i = j

\* The inductive invariant of the proofs, in parts.
LifeTypeOK ==
    \/ life = NoLife
    \/ life \in [op : Lifecycle, id : Requests, todo : SUBSET Requests,
                 snap : [Requests -> Compact \cup {Absent}]]

\* A request that has written nothing yet.
Unwritten(r) ==
    task[r].pc \in {"idle", "guard", "lineage", "normalize", "signature", "persist",
                   "supersede", "write"}

\* A request between _acquire and _release.
InLock(r) ==
    \/ task[r].pc \in {"lineage", "signature", "persist", "supersede", "write", "readback"}
    \/ task[r].pc = "normalize" /\ task[r].new.kind = "resume"

\* A resume package with its place in the lineage, not written yet.
Sealing(r) ==
    /\ task[r].pc \in {"normalize", "signature", "persist", "supersede", "write"}
    /\ task[r].new.kind = "resume"

LockHeld == \A r \in Requests : InLock(r) => lock = r

\* The contents of compact i in its file, or in the hands of a request that has
\* read it and will write it back with another status.
Versions(i) ==
    ({compacts[i]}
     \cup {task[r].snap[i] : r \in {q \in Requests : task[q].pc = "supersede" /\ i \in task[q].todo}}
     \cup (IF life # NoLife /\ i \in life.todo \cup {life.id} THEN {life.snap[i]} ELSE {}))
    \ {Absent}

\* All of a compact but its status.
SameContent(c, d) ==
    /\ c.kind = d.kind /\ c.draft = d.draft /\ c.rid = d.rid
    /\ c.rev = d.rev /\ c.prev = d.prev

\* Whatever is written back has the content of the file it replaces ...
VersionsAgree == \A i \in Requests : \A c, d \in Versions(i) : SameContent(c, d)

\* ... and was there to be read; what a lifecycle request has read still is.
ReadsStored ==
    /\ \A r \in Requests : task[r].pc = "supersede" =>
         \A i \in task[r].todo : task[r].snap[i] # Absent
    /\ life # NoLife =>
         \A i \in life.todo \cup {life.id} : compacts[i] # Absent /\ life.snap[i] # Absent

\* Two contents of a lineage differ in revision, draft and request id, and
\* follow each other by one.
Linear(i, c, j, d) ==
    /\ i # j => c.rev # d.rev /\ c.draft # d.draft /\ c.rid # d.rid
    /\ c.prev = j => c.rev = d.rev + 1

VersionsLinear ==
    \A i, j \in Requests : \A c \in Versions(i), d \in Versions(j) :
       c.kind = "resume" /\ d.kind = "resume" => Linear(i, c, j, d)

\* A request that has not written has no version, and no package follows it.
WrittenBefore ==
    /\ \A i \in Requests : Unwritten(i) => Versions(i) = {}
    /\ \A i \in Requests : \A c \in Versions(i) :
         c.kind = "resume" /\ c.prev # None => ~Unwritten(c.prev)
    /\ \A r \in Requests : Sealing(r) /\ task[r].new.prev # None => ~Unwritten(task[r].new.prev)

\* The package that is being sealed comes after all versions of others.
SealedLast ==
    \A r \in Requests : Sealing(r) =>
      \A i \in Requests : \A c \in Versions(i) : c.kind = "resume" =>
        /\ c.rev < task[r].new.rev /\ c.draft # task[r].new.draft /\ c.rid # task[r].new.rid
        /\ task[r].new.prev = i => task[r].new.rev = c.rev + 1

\* Unless one is marked current by hand, a request that writes a CURRENT compact
\* has superseded all others.
SupersedesAll ==
    "mark" \notin lifes =>
      /\ \A i, j \in Current : i = j
      /\ \A r \in Requests : task[r].pc = "supersede" => Current \subseteq task[r].todo
      /\ \A r \in Requests :
           task[r].pc = "write" /\ task[r].new.status = "CURRENT" => Current = {}
      /\ life # NoLife => life.op # "mark"

\* A creation in progress knows what it creates.
NewKnown ==
    \A r \in Requests :
      /\ task[r].pc \notin {"idle", "release", "done"} => task[r].new \in Compact
      /\ task[r].pc = "supersede" => task[r].new.status = "CURRENT"

CompactsInv ==
    /\ TypeOK /\ LifeTypeOK /\ LockHeld /\ NewKnown
    /\ VersionsAgree /\ ReadsStored /\ VersionsLinear /\ WrittenBefore /\ SealedLast
    /\ SupersedesAll

=============================================================================
