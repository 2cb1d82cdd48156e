------------------------ MODULE MemoryCompactsProofs ------------------------
(***************************************************************************)
(* CompactsInv is inductive, for any number of creation requests, drafts,  *)
(* request ids, lifecycle requests and crashes.                            *)
(***************************************************************************)
EXTENDS MemoryCompacts, FiniteSetTheorems, TLAPS

LEMMA VersionTypes ==
    ASSUME CompactsInv, NEW i \in Requests
    PROVE  Versions(i) \subseteq Compact
<1>1. compacts[i] \in Compact \cup {Absent}
  BY DEF CompactsInv, TypeOK
<1>2. \A r \in Requests : task[r].snap[i] \in Compact \cup {Absent}
  BY DEF CompactsInv, TypeOK, Task
<1>3. life # NoLife => life.snap[i] \in Compact \cup {Absent}
  BY DEF CompactsInv, LifeTypeOK
<1> QED
  BY <1>1, <1>2, <1>3 DEF Versions

\* A step after which every version has the content of a version before it,
\* nothing is unwritten and no package is being sealed that was not so before.
LEMMA LineageKept ==
    ASSUME CompactsInv,
           \A i \in Requests : \A c \in Versions(i)' : \E d \in Versions(i) : SameContent(c, d),
           \A r \in Requests : Unwritten(r)' => Unwritten(r),
           \A r \in Requests : Sealing(r)' => Sealing(r) /\ SameContent(task'[r].new, task[r].new)
    PROVE  VersionsAgree' /\ VersionsLinear' /\ WrittenBefore' /\ SealedLast'
<1> USE DEF CompactsInv, SameContent
<1>1. VersionsAgree'
  BY DEF VersionsAgree
<1>2. VersionsLinear'
  BY DEF VersionsLinear, Linear
<1>3. WrittenBefore'
  <2>1. ASSUME NEW i \in Requests, Unwritten(i)'
        PROVE  Versions(i)' = {}
    BY <2>1 DEF WrittenBefore
  <2>2. ASSUME NEW i \in Requests, NEW c \in Versions(i)', c.kind = "resume", c.prev # None
        PROVE  ~Unwritten(c.prev)'
    <3>1. PICK d \in Versions(i) : SameContent(c, d)
      OBVIOUS
    <3>2. d.prev \in Requests \cup {None}
      BY VersionTypes DEF Compact
    <3> QED
      BY <2>2, <3>1, <3>2 DEF WrittenBefore
  <2>3. ASSUME NEW r \in Requests, Sealing(r)', task'[r].new.prev # None
        PROVE  ~Unwritten(task[r].new.prev)' /\ task'[r].new.prev = task[r].new.prev
    <3>1. task[r].new.prev \in Requests \cup {None} /\ task[r].new.prev = task'[r].new.prev
      BY <2>3 DEF NewKnown, Sealing, Compact
    <3> QED
      BY <2>3, <3>1 DEF WrittenBefore
  <2> QED
    BY <2>1, <2>2, <2>3 DEF WrittenBefore
<1>4. SealedLast'
  BY DEF SealedLast
<1> QED
  BY <1>1, <1>2, <1>3, <1>4

\* A step of one creation request that writes no file.
LEMMA TaskStep ==
    ASSUME CompactsInv, NEW r \in Requests, NEW t \in Task, task' = [task EXCEPT ![r] = t],
           UNCHANGED <<compacts, life, evidence, crashes, lifes>>,
           lock' \in Requests \cup {None},
           \A q \in Requests \ {r} : InLock(q) => lock' = q,
           InLock(r)' => lock' = r,
           t.pc # "supersede",
           t.pc \notin {"idle", "release", "done"} => t.new \in Compact,
           Unwritten(r)' => Unwritten(r),
           Sealing(r)' => Sealing(r) /\ SameContent(t.new, task[r].new),
           t.pc = "write" /\ t.new.status = "CURRENT" /\ "mark" \notin lifes => Current = {}
    PROVE  CompactsInv'
<1> USE DEF CompactsInv
<1>1. /\ task' \in [Requests -> Task] /\ task'[r] = t
      /\ \A q \in Requests \ {r} : task'[q] = task[q]
  BY DEF TypeOK
<1>2. TypeOK'
  BY <1>1 DEF TypeOK
<1>3. LifeTypeOK'
  BY DEF LifeTypeOK
<1>4. LockHeld'
  BY <1>1 DEF LockHeld, InLock
<1>5. NewKnown'
  BY <1>1 DEF NewKnown
<1>6. ReadsStored'
  BY <1>1 DEF ReadsStored
<1>7. \A i \in Requests : Versions(i)' \subseteq Versions(i)
  BY <1>1 DEF Versions
<1>8. \A q \in Requests : Unwritten(q)' => Unwritten(q)
  BY <1>1 DEF Unwritten
<1>9. \A q \in Requests : Sealing(q)' => Sealing(q) /\ SameContent(task'[q].new, task[q].new)
  BY <1>1 DEF Sealing, SameContent
<1>10. VersionsAgree' /\ VersionsLinear' /\ WrittenBefore' /\ SealedLast'
  <2>1. \A i \in Requests : \A c \in Versions(i)' : \E d \in Versions(i) : SameContent(c, d)
    BY <1>7 DEF SameContent
  <2> QED
    BY <1>8, <1>9, <2>1, LineageKept
<1>11. SupersedesAll'
  BY <1>1 DEF SupersedesAll, Current, Stored
<1> QED
  BY <1>2, <1>3, <1>4, <1>5, <1>6, <1>10, <1>11

\* Where a request stands in the places that matter, from its place alone.
LEMMA IdleType == Idle \in Task /\ Idle.pc = "idle"
BY DEF Idle, Task, Pcs

\* A request that has answered, or failed, goes to its release.
LEMMA FinishStep ==
    ASSUME CompactsInv, NEW r \in Requests, NEW reply \in Requests \cup {None},
           Finish(r, reply), UNCHANGED <<compacts, lock, life, evidence, crashes, lifes>>
    PROVE  CompactsInv'
<1> DEFINE t == [Idle EXCEPT !.pc = "release", !.reply = reply]
<1>1. t \in Task /\ t.pc = "release"
  BY DEF Idle, Task, Pcs
<1>2. task' = [task EXCEPT ![r] = t]
  BY DEF Finish
<1> HIDE DEF t
<1>3. task'[r] = t
  BY <1>2 DEF CompactsInv, TypeOK
<1>4. ~InLock(r)' /\ ~Unwritten(r)' /\ ~Sealing(r)'
  BY <1>1, <1>3 DEF InLock, Unwritten, Sealing
<1>5. \A q \in Requests \ {r} : InLock(q) => lock' = q
  BY DEF CompactsInv, LockHeld
<1>6. lock' \in Requests \cup {None}
  BY DEF CompactsInv, TypeOK
<1> QED
  BY <1>1, <1>2, <1>4, <1>5, <1>6, TaskStep

LEMMA StartStep ==
    ASSUME CompactsInv, NEW r \in Requests, NEW kind \in Kinds, NEW d \in Drafts,
           NEW rid \in RequestIds, NEW status \in {"DRAFT", "CURRENT"},
           Start(r, kind, d, rid, status)
    PROVE  CompactsInv'
<1> DEFINE pc == IF kind = "resume" THEN "guard" ELSE "normalize"
           new == [status |-> status, kind |-> kind,
                   draft |-> <<d, IF kind = "resume" THEN evidence ELSE 0>>,
                   rid |-> rid, rev |-> 0, prev |-> None]
           t == [task[r] EXCEPT !.pc = pc, !.new = new]
<1>1. /\ task[r].pc = "idle" /\ task[r] \in Task /\ evidence \in 0 .. MaxEvidence
      /\ lock \in Requests \cup {None}
      /\ UNCHANGED <<compacts, lock, life, evidence, crashes, lifes>>
  BY DEF Start, CompactsInv, TypeOK
<1>2. new \in Compact /\ new.kind = kind
  BY <1>1, CompactAssumption DEF Compact, Statuses, Kinds
<1>3. task' = [task EXCEPT ![r] = t]
  BY DEF Start
<1> HIDE DEF new
<1>4. t \in Task /\ t.pc = pc /\ t.new = new
  BY <1>1, <1>2 DEF Task, Pcs
<1> HIDE DEF t
<1>5. task'[r] = t
  BY <1>3 DEF CompactsInv, TypeOK
<1>6. ~InLock(r)' /\ ~Sealing(r)' /\ Unwritten(r)
  BY <1>1, <1>2, <1>4, <1>5 DEF InLock, Unwritten, Sealing, Kinds
<1>7. \A q \in Requests \ {r} : InLock(q) => lock' = q
  BY <1>1 DEF CompactsInv, LockHeld
<1> QED
  BY <1>1, <1>2, <1>3, <1>4, <1>6, <1>7, TaskStep

\* Going on to another place, with nothing else.
LEMMA GotoStep ==
    ASSUME CompactsInv, NEW r \in Requests,
           NEW pc \in Pcs \ {"idle", "supersede"}, Goto(r, pc),
           UNCHANGED <<compacts, life, evidence, crashes, lifes>>,
           pc \notin {"release", "done"} => task[r].new \in Compact,
           lock' \in Requests \cup {None},
           \A q \in Requests \ {r} : InLock(q) => lock' = q,
           InLock(r)' => lock' = r,
           Unwritten(r)' => Unwritten(r),
           Sealing(r)' => Sealing(r),
           pc = "write" /\ task[r].new.status = "CURRENT" /\ "mark" \notin lifes => Current = {}
    PROVE  CompactsInv'
<1> DEFINE t == [task[r] EXCEPT !.pc = pc]
<1>1. task[r] \in Task
  BY DEF CompactsInv, TypeOK
<1>2. t \in Task /\ t.pc = pc /\ t.new = task[r].new
  BY <1>1 DEF Task
<1>3. task' = [task EXCEPT ![r] = t]
  BY DEF Goto
<1>4. SameContent(t.new, task[r].new)
  BY <1>2 DEF SameContent
<1> HIDE DEF t
<1> QED
  BY <1>2, <1>3, <1>4, TaskStep

LEMMA GotoFacts ==
    ASSUME CompactsInv, NEW r \in Requests, NEW pc, Goto(r, pc)
    PROVE  task'[r].pc = pc /\ task'[r].new = task[r].new
           /\ (task[r].pc \notin {"idle", "release", "done"} => task[r].new \in Compact)
           /\ lock \in Requests \cup {None}
           /\ \A q \in Requests : InLock(q) => lock = q
<1>1. task \in [Requests -> Task]
  BY DEF CompactsInv, TypeOK
<1>2. task'[r].pc = pc /\ task'[r].new = task[r].new
  BY <1>1 DEF Goto, Task
<1> QED
  BY <1>2 DEF CompactsInv, NewKnown, TypeOK, LockHeld

LEMMA NormalizeStep ==
    ASSUME CompactsInv, NEW r \in Requests, NEW ok \in BOOLEAN, Normalize(r, ok)
    PROVE  CompactsInv'
<1> DEFINE pc == IF task[r].new.kind = "plain" THEN "guard" ELSE "signature"
<1>1. task[r].pc = "normalize" /\ UNCHANGED <<compacts, lock, life, evidence, crashes, lifes>>
  BY DEF Normalize
<1>2. CASE ok
  <2>1. Goto(r, pc)
    BY <1>2 DEF Normalize
  <2>2. /\ task'[r].pc = pc /\ task'[r].new = task[r].new /\ task[r].new \in Compact
        /\ lock \in Requests \cup {None}
        /\ \A q \in Requests : InLock(q) => lock = q
    BY <1>1, <2>1, GotoFacts
  <2>3. task[r].new.kind \in Kinds
    BY <2>2 DEF Compact
  <2>4. InLock(r)' => InLock(r)
    BY <1>1, <2>2, <2>3 DEF InLock, Kinds
  <2>5. Unwritten(r) /\ (Sealing(r)' => Sealing(r))
    BY <1>1, <2>2 DEF Unwritten, Sealing
  <2> QED
    BY <1>1, <2>1, <2>2, <2>4, <2>5, GotoStep DEF Pcs
<1>3. CASE ~ok
  BY <1>1, <1>3, FinishStep DEF Normalize
<1> QED
  BY <1>2, <1>3

\* flock keeps the requests between _acquire and _release apart.
LEMMA AcquireStep ==
    ASSUME CompactsInv, NEW r \in Requests, Acquire(r)
    PROVE  CompactsInv'
<1> DEFINE pc == IF task[r].new.kind = "resume" THEN "lineage" ELSE "signature"
<1>1. /\ task[r].pc = "guard" /\ lock = None /\ lock' = r /\ Goto(r, pc)
      /\ UNCHANGED <<compacts, life, evidence, crashes, lifes>>
  BY DEF Acquire
<1>2. /\ task'[r].pc = pc /\ task'[r].new = task[r].new /\ task[r].new \in Compact
      /\ \A q \in Requests : InLock(q) => lock = q
  BY <1>1, GotoFacts
<1>3. \A q \in Requests : ~InLock(q)
  BY <1>1, <1>2, CompactAssumption
<1>4. Unwritten(r) /\ ~Sealing(r)'
  BY <1>1, <1>2 DEF Unwritten, Sealing
<1> QED
  BY <1>1, <1>2, <1>3, <1>4, GotoStep DEF Pcs

\* While a request holds the lock and rewrites nothing itself, every version of
\* a compact has the content of a stored file.
LEMMA VersionsStored ==
    ASSUME CompactsInv, NEW r \in Requests, InLock(r), task[r].pc # "supersede",
           NEW i \in Requests, NEW c \in Versions(i)
    PROVE  i \in Stored /\ compacts[i] \in Versions(i) /\ SameContent(c, compacts[i])
<1>1. \A q \in Requests : task[q].pc # "supersede"
  BY DEF CompactsInv, LockHeld, InLock
<1>2. Versions(i) \subseteq
        {compacts[i]} \cup (IF life # NoLife /\ i \in life.todo \cup {life.id}
                            THEN {life.snap[i]} ELSE {})
  BY <1>1 DEF Versions
<1>3. c # Absent
  BY DEF Versions
<1>4. compacts[i] # Absent
  BY <1>2, <1>3 DEF CompactsInv, ReadsStored
<1>5. compacts[i] \in Versions(i)
  BY <1>4 DEF Versions
<1> QED
  BY <1>4, <1>5 DEF CompactsInv, VersionsAgree, Stored

\* The record of a request that has got its place in the lineage.
LEMMA SealShape ==
    ASSUME CompactsInv, NEW r \in Requests, task[r].pc = "lineage",
           NEW p \in Packages \cup {None},
           task' = [task EXCEPT ![r].pc = "normalize", ![r].new.prev = p,
                       ![r].new.rev = IF p = None THEN 1 ELSE compacts[p].rev + 1]
    PROVE  \E t \in Task :
             /\ task' = [task EXCEPT ![r] = t]
             /\ t.pc = "normalize" /\ t.new \in Compact /\ t.new.prev = p
             /\ t.new.rev = (IF p = None THEN 1 ELSE compacts[p].rev + 1)
             /\ t.new.kind = task[r].new.kind /\ t.new.draft = task[r].new.draft
             /\ t.new.rid = task[r].new.rid
<1> USE DEF CompactsInv
<1> DEFINE rev == IF p = None THEN 1 ELSE compacts[p].rev + 1
           new == [task[r].new EXCEPT !.prev = p, !.rev = rev]
           t == [task[r] EXCEPT !.pc = "normalize", !.new = new]
           T == [task[r] EXCEPT !.pc = "normalize", !.new.prev = p, !.new.rev = rev]
<1>1. /\ task[r] \in Task /\ task[r].new \in Compact /\ DOMAIN task = Requests
      /\ \A i \in Stored : compacts[i] \in Compact
  BY DEF TypeOK, NewKnown, Stored
<1>2. rev \in Nat /\ Packages \subseteq Stored /\ Stored \subseteq Requests
  BY <1>1 DEF Packages, Stored, Compact
<1>3. /\ new \in Compact /\ new.prev = p /\ new.rev = rev
      /\ new.kind = task[r].new.kind /\ new.draft = task[r].new.draft
      /\ new.rid = task[r].new.rid
  BY <1>1, <1>2 DEF Compact
<1>4. t \in Task /\ t.pc = "normalize" /\ t.new = new
  BY <1>1, <1>3 DEF Task, Pcs
<1>5. task' = [task EXCEPT ![r] = T] /\ T = t
  <2>1. task' = [task EXCEPT ![r] = T]
    BY <1>1
  <2>2. T = t
    BY <1>1 DEF Task, Compact
  <2> QED
    BY <2>1, <2>2
<1> HIDE DEF T, t, new
<1> QED
  BY <1>3, <1>4, <1>5

\* create_resume_package gives a new package its place, under the lock.
LEMMA SealStep ==
    ASSUME CompactsInv, NEW r \in Requests, task[r].pc = "lineage",
           SameDraft(r) = {}, ~RequestConflict(r),
           NEW p \in Packages \cup {None}, Successor(p),
           NEW t \in Task, task' = [task EXCEPT ![r] = t],
           t.pc = "normalize", t.new \in Compact, t.new.prev = p,
           t.new.rev = (IF p = None THEN 1 ELSE compacts[p].rev + 1),
           t.new.kind = task[r].new.kind, t.new.draft = task[r].new.draft,
           t.new.rid = task[r].new.rid,
           UNCHANGED <<compacts, lock, life, evidence, crashes, lifes>>
    PROVE  CompactsInv'
<1> USE DEF CompactsInv
<1>1. /\ None \notin Requests
      /\ \A i \in Stored : compacts[i] \in Compact
  BY CompactAssumption DEF TypeOK, Stored
<1>2. Packages \subseteq Stored /\ Stored \subseteq Requests
  BY <1>1 DEF Packages, Stored
<1>6. /\ task' \in [Requests -> Task] /\ task'[r] = t
      /\ \A q \in Requests \ {r} : task'[q] = task[q]
  BY DEF TypeOK
<1>7. TypeOK' /\ LifeTypeOK'
  BY <1>6 DEF TypeOK, LifeTypeOK
<1>8. LockHeld'
  BY <1>6 DEF LockHeld, InLock
<1>9. NewKnown'
  BY <1>6 DEF NewKnown
<1>10. ReadsStored'
  BY <1>6 DEF ReadsStored
<1>11. \A i \in Requests : Versions(i)' \subseteq Versions(i)
  BY <1>6 DEF Versions
<1>12. \A q \in Requests : Unwritten(q)' = Unwritten(q)
  BY <1>6 DEF Unwritten
<1>13. VersionsAgree' /\ VersionsLinear'
  BY <1>11 DEF VersionsAgree, VersionsLinear
<1>14. InLock(r) /\ Unwritten(r)
  BY DEF InLock, Unwritten
<1>15. p # None => ~Unwritten(p)
  <2>1. SUFFICES ASSUME p # None PROVE ~Unwritten(p)
    OBVIOUS
  <2>2. p \in Requests /\ compacts[p] \in Versions(p)
    BY <2>1, <1>2 DEF Packages, Stored, Versions
  <2> QED
    BY <2>2 DEF WrittenBefore
<1>16. WrittenBefore'
  <2>1. \A i \in Requests : Unwritten(i)' => Versions(i)' = {}
    BY <1>11, <1>12 DEF WrittenBefore
  <2>2. \A i \in Requests : \A c \in Versions(i)' :
            c.kind = "resume" /\ c.prev # None => ~Unwritten(c.prev)'
    <3>1. SUFFICES ASSUME NEW i \in Requests, NEW c \in Versions(i), c.kind = "resume", c.prev # None
                   PROVE  ~Unwritten(c.prev)'
      BY <1>11
    <3>2. c.prev \in Requests /\ ~Unwritten(c.prev)
      BY <3>1, VersionTypes DEF WrittenBefore, Compact
    <3> QED
      BY <3>2, <1>12
  <2>3. ASSUME NEW q \in Requests, Sealing(q)', task'[q].new.prev # None
        PROVE  task'[q].new.prev \in Requests /\ ~Unwritten(task'[q].new.prev)
    <3>1. CASE q = r
      BY <2>3, <3>1, <1>2, <1>6, <1>15
    <3>2. CASE q # r
      <4>1. task'[q] = task[q] /\ Sealing(q)
        BY <2>3, <3>2, <1>6 DEF Sealing
      <4>2. task[q].new \in Compact
        BY <4>1 DEF Sealing, NewKnown
      <4> QED
        BY <2>3, <4>1, <4>2 DEF WrittenBefore, Compact
    <3> QED
      BY <3>1, <3>2
  <2>4. \A q \in Requests : Sealing(q)' /\ task'[q].new.prev # None => ~Unwritten(task[q].new.prev)'
    BY <2>3, <1>12
  <2> QED
    BY <2>1, <2>2, <2>4 DEF WrittenBefore
<1>17. ASSUME NEW q \in Requests, Sealing(q)', NEW i \in Requests,
              NEW c \in Versions(i)', c.kind = "resume"
       PROVE  /\ c.rev < task'[q].new.rev /\ c.draft # task'[q].new.draft
              /\ c.rid # task'[q].new.rid
              /\ task'[q].new.prev = i => task'[q].new.rev = c.rev + 1
  <2>1. c \in Versions(i)
    BY <1>17, <1>11
  <2>2. CASE q # r
    BY <1>17, <2>1, <2>2, <1>6 DEF SealedLast, Sealing
  <2>3. CASE q = r
    <3>1. /\ i \in Stored /\ SameContent(c, compacts[i])
      BY <2>1, <1>14, VersionsStored
    <3>2. i \in Packages
      BY <3>1, <1>17 DEF Packages, SameContent
    <3>3. compacts[i].draft # t.new.draft /\ compacts[i].rid # t.new.rid
      BY <3>2 DEF SameDraft, RequestConflict
    <3>4. p # None /\ p \in Packages /\ compacts[i].rev <= compacts[p].rev
      BY <3>2, <1>1, <1>2 DEF Successor
    <3>5. compacts[i].rev \in Nat /\ compacts[p].rev \in Nat
      BY <3>2, <3>4, <1>1, <1>2 DEF Compact
    <3>6. compacts[i].rev < t.new.rev /\ (p = i => t.new.rev = compacts[i].rev + 1)
      BY <3>4, <3>5
    <3> QED
      BY <3>1, <3>3, <3>6, <2>3, <1>6 DEF SameContent
  <2> QED
    BY <2>2, <2>3
<1>18. SealedLast'
  BY <1>17 DEF SealedLast
<1>19. SupersedesAll'
  BY <1>6 DEF SupersedesAll, Current, Stored
<1> QED
  BY <1>7, <1>8, <1>9, <1>10, <1>13, <1>16, <1>18, <1>19

LEMMA ReadLineageStep ==
    ASSUME CompactsInv, NEW r \in Requests, ReadLineage(r)
    PROVE  CompactsInv'
<1>1. task[r].pc = "lineage" /\ UNCHANGED <<compacts, lock, life, evidence, crashes, lifes>>
  BY DEF ReadLineage
<1>2. CASE \E i \in SameDraft(r) : Finish(r, i)
  BY <1>1, <1>2, FinishStep DEF SameDraft, Packages, Stored
<1>3. CASE Finish(r, None)
  BY <1>1, <1>3, FinishStep
<1>4. CASE /\ SameDraft(r) = {} /\ ~RequestConflict(r)
           /\ \E i \in Packages \cup {None} :
               /\ Successor(i)
               /\ task' = [task EXCEPT
                     ![r].pc = "normalize", ![r].new.prev = i,
                     ![r].new.rev = IF i = None THEN 1 ELSE compacts[i].rev + 1]
  <2>1. PICK i \in Packages \cup {None} :
               /\ Successor(i)
               /\ task' = [task EXCEPT
                     ![r].pc = "normalize", ![r].new.prev = i,
                     ![r].new.rev = IF i = None THEN 1 ELSE compacts[i].rev + 1]
    BY <1>4
  <2>2. PICK t \in Task :
             /\ task' = [task EXCEPT ![r] = t]
             /\ t.pc = "normalize" /\ t.new \in Compact /\ t.new.prev = i
             /\ t.new.rev = (IF i = None THEN 1 ELSE compacts[i].rev + 1)
             /\ t.new.kind = task[r].new.kind /\ t.new.draft = task[r].new.draft
             /\ t.new.rid = task[r].new.rid
    BY <1>1, <2>1, SealShape
  <2>3. SameDraft(r) = {} /\ ~RequestConflict(r) /\ Successor(i)
    BY <1>4, <2>1
  <2> HIDE <2>1
  <2> QED
    BY <1>1, <2>2, <2>3, SealStep
<1> QED
  BY <1>2, <1>3, <1>4 DEF ReadLineage

LEMMA FindBySignatureStep ==
    ASSUME CompactsInv, NEW r \in Requests, FindBySignature(r)
    PROVE  CompactsInv'
<1>1. task[r].pc = "signature" /\ UNCHANGED <<compacts, lock, life, evidence, crashes, lifes>>
  BY DEF FindBySignature
<1>2. CASE Goto(r, "persist")
  <2>1. /\ task'[r].pc = "persist" /\ task'[r].new = task[r].new /\ task[r].new \in Compact
        /\ lock \in Requests \cup {None}
        /\ \A q \in Requests : InLock(q) => lock = q
    BY <1>1, <1>2, GotoFacts
  <2>2. InLock(r) /\ Unwritten(r) /\ (Sealing(r)' => Sealing(r))
    BY <1>1, <2>1 DEF InLock, Unwritten, Sealing
  <2> QED
    BY <1>1, <1>2, <2>1, <2>2, GotoStep DEF Pcs
<1>3. CASE \E i \in Stored : Finish(r, i)
  BY <1>1, <1>3, FinishStep DEF Stored
<1> QED
  BY <1>2, <1>3 DEF FindBySignature

LEMMA AbsentNotCompact == Absent \notin Compact
<1>1. Compact \subseteq [status : {"DRAFT", "CURRENT", "SUPERSEDED", "ARCHIVED"},
                         kind : {"plain", "resume"}, draft : Drafts \X Nat,
                         rid : RequestIds, rev : Nat, prev : Requests \cup {None}]
  BY CompactAssumption DEF Compact, Statuses, Kinds
<1> QED
  BY <1>1, CompactAssumption

\* A CURRENT compact has read the directory for what it supersedes.
LEMMA ScanStep ==
    ASSUME CompactsInv, NEW r \in Requests, task[r].pc = "persist",
           task[r].new.status = "CURRENT",
           NEW t \in Task, task' = [task EXCEPT ![r] = t], t.pc = "supersede",
           t.todo = Current, t.snap = compacts, t.new = task[r].new,
           UNCHANGED <<compacts, lock, life, evidence, crashes, lifes>>
    PROVE  CompactsInv'
<1> USE DEF CompactsInv
<1>1. /\ task' \in [Requests -> Task] /\ task'[r] = t
      /\ \A q \in Requests \ {r} : task'[q] = task[q]
  BY DEF TypeOK
<1>2. TypeOK' /\ LifeTypeOK'
  BY <1>1 DEF TypeOK, LifeTypeOK
<1>3. LockHeld'
  BY <1>1 DEF LockHeld, InLock
<1>4. NewKnown'
  BY <1>1 DEF NewKnown
<1>5. ReadsStored'
  BY <1>1 DEF ReadsStored, Current, Stored
<1>6. \A i \in Requests : Versions(i)' \subseteq Versions(i)
  BY <1>1 DEF Versions
<1>7. \A q \in Requests : Unwritten(q)' => Unwritten(q)
  BY <1>1 DEF Unwritten
<1>8. \A q \in Requests : Sealing(q)' => Sealing(q) /\ SameContent(task'[q].new, task[q].new)
  BY <1>1 DEF Sealing, SameContent
<1>9. VersionsAgree' /\ VersionsLinear' /\ WrittenBefore' /\ SealedLast'
  <2>1. \A i \in Requests : \A c \in Versions(i)' : \E d \in Versions(i) : SameContent(c, d)
    BY <1>6 DEF SameContent
  <2> QED
    BY <1>7, <1>8, <2>1, LineageKept
<1>10. SupersedesAll'
  BY <1>1 DEF SupersedesAll, Current, Stored
<1> QED
  BY <1>2, <1>3, <1>4, <1>5, <1>9, <1>10

LEMMA PersistScanStep ==
    ASSUME CompactsInv, NEW r \in Requests, PersistScan(r)
    PROVE  CompactsInv'
<1>1. task[r].pc = "persist" /\ UNCHANGED <<compacts, lock, life, evidence, crashes, lifes>>
  BY DEF PersistScan
<1>2. CASE task[r].new.status # "CURRENT"
  <2>1. Goto(r, "write")
    BY <1>2 DEF PersistScan, Goto
  <2>2. /\ task'[r].pc = "write" /\ task'[r].new = task[r].new /\ task[r].new \in Compact
        /\ lock \in Requests \cup {None}
        /\ \A q \in Requests : InLock(q) => lock = q
    BY <1>1, <2>1, GotoFacts
  <2>3. InLock(r) /\ Unwritten(r) /\ (Sealing(r)' => Sealing(r))
    BY <1>1, <2>2 DEF InLock, Unwritten, Sealing
  <2> QED
    BY <1>1, <1>2, <2>1, <2>2, <2>3, GotoStep DEF Pcs
<1>3. CASE task[r].new.status = "CURRENT"
  <2> DEFINE t == [task[r] EXCEPT !.pc = "supersede", !.todo = Current, !.snap = compacts]
  <2>1. task[r] \in Task /\ compacts \in [Requests -> Compact \cup {Absent}] /\ DOMAIN task = Requests
    BY DEF CompactsInv, TypeOK
  <2>2. Current \subseteq Requests
    BY DEF Current, Stored
  <2>3. t \in Task /\ t.pc = "supersede" /\ t.todo = Current /\ t.snap = compacts /\ t.new = task[r].new
    BY <2>1, <2>2 DEF Task, Pcs
  <2>4. task' = [task EXCEPT ![r] = t]
    BY <1>3, <2>1 DEF PersistScan
  <2> HIDE DEF t
  <2> QED
    BY <1>1, <1>3, <2>3, <2>4, ScanStep
<1> QED
  BY <1>2, <1>3

LEMMA ReadBackStep ==
    ASSUME CompactsInv, NEW r \in Requests, ReadBack(r)
    PROVE  CompactsInv'
BY FinishStep DEF ReadBack

LEMMA ReleaseStep ==
    ASSUME CompactsInv, NEW r \in Requests, Release(r)
    PROVE  CompactsInv'
<1>1. /\ task[r].pc = "release" /\ lock' = (IF lock = r THEN None ELSE lock) /\ Goto(r, "done")
      /\ UNCHANGED <<compacts, life, evidence, crashes, lifes>>
  BY DEF Release
<1>2. /\ task'[r].pc = "done" /\ lock \in Requests \cup {None}
      /\ \A q \in Requests : InLock(q) => lock = q
  BY <1>1, GotoFacts
<1>3. ~InLock(r)' /\ ~Unwritten(r)' /\ ~Sealing(r)'
  BY <1>2 DEF InLock, Unwritten, Sealing
<1> QED
  BY <1>1, <1>2, <1>3, GotoStep DEF Pcs

\* A compact that is superseded keeps its content, whoever reads it when.
LEMMA SupersedeFileStep ==
    ASSUME CompactsInv, NEW r \in Requests, task[r].pc = "supersede",
           NEW i \in task[r].todo, NEW x, x = [task[r].snap[i] EXCEPT !.status = "SUPERSEDED"],
           compacts' = [compacts EXCEPT ![i] = x],
           NEW t \in Task, task' = [task EXCEPT ![r] = t], t.pc = "supersede",
           t.todo = task[r].todo \ {i}, t.snap = task[r].snap, t.new = task[r].new,
           UNCHANGED <<lock, life, evidence, crashes, lifes>>
    PROVE  CompactsInv'
<1> USE DEF CompactsInv
<1>1. /\ task' \in [Requests -> Task] /\ task'[r] = t
      /\ \A q \in Requests \ {r} : task'[q] = task[q]
  BY DEF TypeOK
<1>2. i \in Requests /\ task[r].snap[i] \in Compact
  BY DEF TypeOK, Task, ReadsStored
<1>3. /\ x \in Compact /\ x # Absent /\ x.status = "SUPERSEDED"
      /\ SameContent(x, task[r].snap[i])
  <2>1. x \in Compact /\ x.status = "SUPERSEDED" /\ SameContent(x, task[r].snap[i])
    BY <1>2 DEF Compact, Statuses, SameContent
  <2> QED
    BY <2>1, AbsentNotCompact
<1>4. /\ compacts' \in [Requests -> Compact \cup {Absent}] /\ compacts'[i] = x
      /\ \A k \in Requests \ {i} : compacts'[k] = compacts[k]
  BY <1>2, <1>3 DEF TypeOK
<1>5. TypeOK' /\ LifeTypeOK'
  BY <1>1, <1>4 DEF TypeOK, LifeTypeOK
<1>6. LockHeld'
  BY <1>1 DEF LockHeld, InLock
<1>7. NewKnown'
  BY <1>1 DEF NewKnown
<1>8. ReadsStored'
  BY <1>1, <1>3, <1>4 DEF ReadsStored, LifeTypeOK
<1>9. \A k \in Requests \ {i} : Versions(k)' \subseteq Versions(k)
  BY <1>1, <1>4 DEF Versions
<1>10. Versions(i)' \subseteq Versions(i) \cup {x}
  BY <1>1, <1>2, <1>4 DEF Versions
<1>11. task[r].snap[i] \in Versions(i)
  BY <1>2, AbsentNotCompact DEF Versions
<1>12. \A k \in Requests : \A c \in Versions(k)' : \E d \in Versions(k) : SameContent(c, d)
  BY <1>3, <1>9, <1>10, <1>11 DEF SameContent
<1>13. \A q \in Requests : Unwritten(q)' => Unwritten(q)
  BY <1>1 DEF Unwritten
<1>14. \A q \in Requests : Sealing(q)' => Sealing(q) /\ SameContent(task'[q].new, task[q].new)
  BY <1>1 DEF Sealing, SameContent
<1>15. VersionsAgree' /\ VersionsLinear' /\ WrittenBefore' /\ SealedLast'
  BY <1>12, <1>13, <1>14, LineageKept
<1>16. Current' \subseteq Current \ {i}
  BY <1>3, <1>4 DEF Current, Stored
<1>17. SupersedesAll'
  <2>1. SUFFICES ASSUME "mark" \notin lifes
                 PROVE  SupersedesAll'
    BY DEF SupersedesAll
  <2>2. \A j, k \in Current' : j = k
    BY <2>1, <1>16 DEF SupersedesAll
  <2>3. \A q \in Requests : task'[q].pc = "supersede" => Current' \subseteq task'[q].todo
    BY <2>1, <1>1, <1>16 DEF SupersedesAll
  <2>4. \A q \in Requests :
          task'[q].pc = "write" /\ task'[q].new.status = "CURRENT" => Current' = {}
    BY <2>1, <1>1, <1>16 DEF SupersedesAll
  <2> QED
    BY <2>1, <2>2, <2>3, <2>4 DEF SupersedesAll
<1> QED
  BY <1>5, <1>6, <1>7, <1>8, <1>15, <1>17

LEMMA SupersedeOneStep ==
    ASSUME CompactsInv, NEW r \in Requests, SupersedeOne(r)
    PROVE  CompactsInv'
<1>1. task[r].pc = "supersede" /\ UNCHANGED <<lock, life, evidence, crashes, lifes>>
  BY DEF SupersedeOne
<1>2. CASE task[r].todo = {}
  <2>1. Goto(r, "write") /\ UNCHANGED compacts
    BY <1>2 DEF SupersedeOne
  <2>2. /\ task'[r].pc = "write" /\ task'[r].new = task[r].new /\ task[r].new \in Compact
        /\ lock \in Requests \cup {None}
        /\ \A q \in Requests : InLock(q) => lock = q
    BY <1>1, <2>1, GotoFacts
  <2>3. InLock(r) /\ Unwritten(r) /\ (Sealing(r)' => Sealing(r))
    BY <1>1, <2>2 DEF InLock, Unwritten, Sealing
  <2>4. "mark" \notin lifes => Current = {}
    BY <1>1, <1>2 DEF CompactsInv, SupersedesAll
  <2> QED
    BY <1>1, <2>1, <2>2, <2>3, <2>4, GotoStep DEF Pcs
<1>3. CASE task[r].todo # {}
  <2>1. PICK i \in task[r].todo :
              /\ compacts' = [compacts EXCEPT
                                ![i] = [task[r].snap[i] EXCEPT !.status = "SUPERSEDED"]]
              /\ task' = [task EXCEPT ![r].todo = @ \ {i}]
    BY <1>3 DEF SupersedeOne
  <2> DEFINE t == [task[r] EXCEPT !.todo = @ \ {i}]
             x == [task[r].snap[i] EXCEPT !.status = "SUPERSEDED"]
  <2>2. task[r] \in Task /\ DOMAIN task = Requests
    BY DEF CompactsInv, TypeOK
  <2>3. /\ t \in Task /\ t.pc = "supersede" /\ t.todo = task[r].todo \ {i}
        /\ t.snap = task[r].snap /\ t.new = task[r].new
    BY <1>1, <2>2 DEF Task
  <2>4. task' = [task EXCEPT ![r] = t] /\ compacts' = [compacts EXCEPT ![i] = x]
    BY <2>1, <2>2
  <2>5. x = [task[r].snap[i] EXCEPT !.status = "SUPERSEDED"]
    OBVIOUS
  <2> HIDE DEF t, x
  <2> QED
    BY <1>1, <2>3, <2>4, <2>5, SupersedeFileStep
<1> QED
  BY <1>2, <1>3

\* The new file is the next of its lineage, and the only CURRENT one.
LEMMA NewFileStep ==
    ASSUME CompactsInv, NEW r \in Requests, task[r].pc = "write",
           NEW n, n = task[r].new, compacts' = [compacts EXCEPT ![r] = n],
           NEW t \in Task, task' = [task EXCEPT ![r] = t], t.pc \in {"readback", "release"},
           t.pc = "readback" => t.new = n,
           UNCHANGED <<lock, life, evidence, crashes, lifes>>
    PROVE  CompactsInv'
<1> USE DEF CompactsInv
<1>1. /\ task' \in [Requests -> Task] /\ task'[r] = t
      /\ \A q \in Requests \ {r} : task'[q] = task[q]
  BY DEF TypeOK
<1>2. n \in Compact /\ n # Absent
  BY AbsentNotCompact DEF NewKnown
<1>3. /\ compacts' \in [Requests -> Compact \cup {Absent}] /\ compacts'[r] = n
      /\ \A k \in Requests \ {r} : compacts'[k] = compacts[k]
  BY <1>2 DEF TypeOK
<1>4. TypeOK' /\ LifeTypeOK'
  BY <1>1, <1>3 DEF TypeOK, LifeTypeOK
<1>5. LockHeld'
  BY <1>1 DEF LockHeld, InLock
<1>6. NewKnown'
  BY <1>1, <1>2 DEF NewKnown
<1>7. ReadsStored'
  BY <1>1, <1>2, <1>3 DEF ReadsStored, LifeTypeOK
<1>8. Unwritten(r) /\ ~Unwritten(r)' /\ \A q \in Requests \ {r} : Unwritten(q)' = Unwritten(q)
  BY <1>1 DEF Unwritten
<1>9. lock = r /\ \A q \in Requests \ {r} : ~InLock(q)
  BY DEF LockHeld, InLock
<1>10. \A q \in Requests : ~Sealing(q)'
  BY <1>1, <1>9 DEF Sealing, InLock
<1>11. Versions(r) = {}
  BY <1>8 DEF WrittenBefore
<1>12. Versions(r)' \subseteq {n}
  <2>1. Versions(r)' \subseteq {n} \cup Versions(r)
    BY <1>1, <1>3 DEF Versions
  <2> QED
    BY <2>1, <1>11
<1>13. \A k \in Requests \ {r} : Versions(k)' \subseteq Versions(k)
  BY <1>1, <1>3 DEF Versions
<1>14. VersionsAgree'
  <2>1. \A c, d \in Versions(r)' : SameContent(c, d)
    BY <1>12 DEF SameContent
  <2> QED
    BY <2>1, <1>13 DEF VersionsAgree
<1>15. ASSUME n.kind = "resume"
       PROVE  /\ n.prev # None => n.prev \in Requests \ {r} /\ ~Unwritten(n.prev)
              /\ \A i \in Requests : \A c \in Versions(i) : c.kind = "resume" =>
                    /\ c.rev < n.rev /\ c.draft # n.draft /\ c.rid # n.rid
                    /\ (n.prev = i => n.rev = c.rev + 1)
  <2>1. Sealing(r)
    BY <1>15 DEF Sealing
  <2> QED
    BY <2>1, <1>2, <1>8 DEF WrittenBefore, SealedLast, Compact
<1>16. VersionsLinear'
  <2>1. SUFFICES ASSUME NEW i \in Requests, NEW j \in Requests,
                        NEW c \in Versions(i)', NEW d \in Versions(j)',
                        c.kind = "resume", d.kind = "resume"
                 PROVE  Linear(i, c, j, d)
    BY DEF VersionsLinear
  <2>2. CASE i # r /\ j # r
    BY <2>1, <2>2, <1>13 DEF VersionsLinear
  <2>3. CASE i = r /\ j = r
    <3>1. c = n /\ d = n /\ n.prev # r
      BY <2>1, <2>3, <1>12, <1>15, CompactAssumption
    <3> QED
      BY <2>3, <3>1 DEF Linear
  <2>4. CASE i = r /\ j # r
    <3>1. c = n /\ d \in Versions(j) /\ d.rev \in Nat /\ n.rev \in Nat
      BY <2>1, <2>4, <1>2, <1>12, <1>13, VersionTypes DEF Compact
    <3> QED
      BY <2>1, <3>1, <1>15 DEF Linear
  <2>5. CASE i # r /\ j = r
    <3>1. d = n /\ c \in Versions(i) /\ c.rev \in Nat /\ n.rev \in Nat
      BY <2>1, <2>5, <1>2, <1>12, <1>13, VersionTypes DEF Compact
    <3>2. c.prev # r
      BY <2>1, <3>1, <1>8, CompactAssumption DEF WrittenBefore
    <3> QED
      BY <2>1, <2>5, <3>1, <3>2, <1>15 DEF Linear
  <2> QED
    BY <2>2, <2>3, <2>4, <2>5
<1>17. WrittenBefore'
  <2>1. \A i \in Requests : Unwritten(i)' => Versions(i)' = {}
    BY <1>8, <1>13 DEF WrittenBefore
  <2>2. ASSUME NEW i \in Requests, NEW c \in Versions(i)', c.kind = "resume", c.prev # None
        PROVE  ~Unwritten(c.prev)'
    <3>1. c.prev \in Requests /\ ~Unwritten(c.prev)
      <4>1. CASE i = r
        BY <2>2, <4>1, <1>12, <1>15
      <4>2. CASE i # r
        BY <2>2, <4>2, <1>13, VersionTypes DEF WrittenBefore, Compact
      <4> QED
        BY <4>1, <4>2
    <3> QED
      BY <3>1, <1>8
  <2> QED
    BY <2>1, <2>2, <1>10 DEF WrittenBefore
<1>18. SealedLast'
  BY <1>10 DEF SealedLast
<1>19. SupersedesAll'
  <2>1. SUFFICES ASSUME "mark" \notin lifes
                 PROVE  SupersedesAll'
    BY DEF SupersedesAll
  <2>2. \A i, j \in Current' : i = j
    <3>1. CASE n.status = "CURRENT"
      <4>1. Current' \subseteq Current \cup {r}
        BY <1>3 DEF Current, Stored
      <4> QED
        BY <2>1, <3>1, <4>1 DEF SupersedesAll
    <3>2. CASE n.status # "CURRENT"
      <4>1. Current' \subseteq Current
        BY <1>3, <3>2 DEF Current, Stored
      <4> QED
        BY <2>1, <4>1 DEF SupersedesAll
    <3> QED
      BY <3>1, <3>2
  <2>3. \A q \in Requests : task'[q].pc \notin {"supersede", "write"}
    BY <1>1, <1>9 DEF InLock
  <2> QED
    BY <2>1, <2>2, <2>3 DEF SupersedesAll
<1> QED
  BY <1>4, <1>5, <1>6, <1>7, <1>14, <1>16, <1>17, <1>18, <1>19

LEMMA WriteNewStep ==
    ASSUME CompactsInv, NEW r \in Requests, WriteNew(r)
    PROVE  CompactsInv'
<1> DEFINE n == task[r].new
<1>1. /\ task[r].pc = "write" /\ compacts' = [compacts EXCEPT ![r] = n]
      /\ UNCHANGED <<lock, life, evidence, crashes, lifes>>
      /\ task[r] \in Task /\ DOMAIN task = Requests
  BY DEF WriteNew, CompactsInv, TypeOK
<1>2. n = task[r].new
  OBVIOUS
<1>3. CASE Goto(r, "readback")
  <2> DEFINE t == [task[r] EXCEPT !.pc = "readback"]
  <2>1. t \in Task /\ t.pc = "readback" /\ t.new = n
    BY <1>1 DEF Task, Pcs
  <2>2. task' = [task EXCEPT ![r] = t]
    BY <1>1, <1>3 DEF Goto
  <2> HIDE DEF t, n
  <2> QED
    BY <1>1, <1>2, <2>1, <2>2, NewFileStep
<1>4. CASE Finish(r, r)
  <2> DEFINE t == [Idle EXCEPT !.pc = "release", !.reply = r]
  <2>1. t \in Task /\ t.pc = "release"
    BY DEF Idle, Task, Pcs
  <2>2. task' = [task EXCEPT ![r] = t]
    BY <1>4 DEF Finish
  <2> HIDE DEF t, n
  <2> QED
    BY <1>1, <1>2, <2>1, <2>2, NewFileStep
<1> QED
  BY <1>3, <1>4 DEF WriteNew

LEMMA LifecycleBeginStep ==
    ASSUME CompactsInv, NEW op \in Lifecycle, NEW i \in Requests, LifecycleBegin(op, i)
    PROVE  CompactsInv'
<1> USE DEF CompactsInv
<1> DEFINE l == [op |-> op, id |-> i, snap |-> compacts,
                 todo |-> IF op = "mark" THEN Current \ {i} ELSE {}]
<1>1. /\ life = NoLife /\ i \in Stored /\ life' = l /\ lifes' = lifes \cup {op}
      /\ UNCHANGED <<compacts, lock, task, evidence, crashes>>
  BY DEF LifecycleBegin
<1>2. /\ l.op = op /\ l.id = i /\ l.snap = compacts
      /\ l.todo \subseteq Stored /\ Stored \subseteq Requests
  BY DEF Current, Stored
<1>3. l \in [op : Lifecycle, id : Requests, todo : SUBSET Requests,
             snap : [Requests -> Compact \cup {Absent}]]
  BY <1>2 DEF TypeOK
<1> HIDE DEF l
<1>4. TypeOK'
  BY <1>1, <1>2, CompactAssumption DEF TypeOK
<1>5. LifeTypeOK'
  BY <1>1, <1>3 DEF LifeTypeOK
<1>6. LockHeld' /\ NewKnown'
  BY <1>1 DEF LockHeld, InLock, NewKnown
<1>7. ReadsStored'
  BY <1>1, <1>2 DEF ReadsStored, Stored
<1>8. \A k \in Requests : Versions(k)' \subseteq Versions(k)
  BY <1>1, <1>2 DEF Versions
<1>9. /\ \A q \in Requests : Unwritten(q)' => Unwritten(q)
      /\ \A q \in Requests : Sealing(q)' => Sealing(q) /\ SameContent(task'[q].new, task[q].new)
  BY <1>1 DEF Unwritten, Sealing, SameContent
<1>10. VersionsAgree' /\ VersionsLinear' /\ WrittenBefore' /\ SealedLast'
  <2>1. \A k \in Requests : \A c \in Versions(k)' : \E d \in Versions(k) : SameContent(c, d)
    BY <1>8 DEF SameContent
  <2> QED
    BY <1>9, <2>1, LineageKept
<1>11. SupersedesAll'
  BY <1>1, <1>2 DEF SupersedesAll, Current, Stored
<1> QED
  BY <1>4, <1>5, <1>6, <1>7, <1>10, <1>11

\* A lifecycle request writes back what it has read, with another status, or
\* removes the file.
LEMMA LifecycleFileStep ==
    ASSUME CompactsInv, life # NoLife, NEW i \in life.todo \cup {life.id},
           NEW x \in Compact \cup {Absent}, x # Absent => SameContent(x, life.snap[i]),
           compacts' = [compacts EXCEPT ![i] = x],
           UNCHANGED <<lock, task, evidence, crashes, lifes>>,
           LifeTypeOK', life' # NoLife => /\ x # Absent /\ life'.op = life.op
                                          /\ life'.snap = life.snap /\ life'.id = life.id
                                          /\ life'.todo \subseteq life.todo,
           "mark" \notin lifes => x = Absent \/ x.status # "CURRENT"
    PROVE  CompactsInv'
<1> USE DEF CompactsInv
<1>1. i \in Requests /\ life.snap[i] \in Compact
  BY DEF LifeTypeOK, ReadsStored
<1>2. /\ compacts' \in [Requests -> Compact \cup {Absent}] /\ compacts'[i] = x
      /\ \A k \in Requests \ {i} : compacts'[k] = compacts[k]
  BY <1>1 DEF TypeOK
<1>3. TypeOK'
  <2>1. life'.op \in LifecycleOps \cup {None}
    BY CompactAssumption DEF LifeTypeOK, NoLife
  <2> QED
    BY <2>1, <1>2 DEF TypeOK
<1>4. LockHeld' /\ NewKnown'
  BY DEF LockHeld, InLock, NewKnown
<1>5. ReadsStored'
  BY <1>1, <1>2 DEF ReadsStored, LifeTypeOK
<1>6. \A k \in Requests \ {i} : Versions(k)' \subseteq Versions(k)
  BY <1>2 DEF Versions
<1>7. Versions(i)' \subseteq Versions(i) \cup ({x} \ {Absent})
  BY <1>2 DEF Versions
<1>8. life.snap[i] \in Versions(i)
  BY <1>1, AbsentNotCompact DEF Versions
<1>9. \A k \in Requests : \A c \in Versions(k)' : \E d \in Versions(k) : SameContent(c, d)
  BY <1>6, <1>7, <1>8 DEF SameContent
<1>10. /\ \A q \in Requests : Unwritten(q)' => Unwritten(q)
       /\ \A q \in Requests : Sealing(q)' => Sealing(q) /\ SameContent(task'[q].new, task[q].new)
  BY DEF Unwritten, Sealing, SameContent
<1>11. VersionsAgree' /\ VersionsLinear' /\ WrittenBefore' /\ SealedLast'
  BY <1>9, <1>10, LineageKept
<1>12. SupersedesAll'
  <2>1. SUFFICES ASSUME "mark" \notin lifes
                 PROVE  SupersedesAll'
    BY DEF SupersedesAll
  <2>2. Current' \subseteq Current
    BY <2>1, <1>2 DEF Current, Stored
  <2> QED
    BY <2>1, <2>2 DEF SupersedesAll
<1> QED
  BY <1>3, <1>4, <1>5, <1>11, <1>12

LEMMA LifecycleSupersedeStep ==
    ASSUME CompactsInv, LifecycleSupersede
    PROVE  CompactsInv'
<1>1. PICK i \in life.todo :
         /\ compacts' = [compacts EXCEPT
                           ![i] = [life.snap[i] EXCEPT !.status = "SUPERSEDED"]]
         /\ life' = [life EXCEPT !.todo = @ \ {i}]
  BY DEF LifecycleSupersede
<1> DEFINE x == [life.snap[i] EXCEPT !.status = "SUPERSEDED"]
<1>2. life # NoLife /\ UNCHANGED <<lock, task, evidence, crashes, lifes>> /\ life.op = "mark"
  BY DEF LifecycleSupersede, NoLife
<1>3. life.snap[i] \in Compact
  BY <1>2 DEF CompactsInv, LifeTypeOK, ReadsStored
<1>4. x \in Compact /\ SameContent(x, life.snap[i]) /\ x # Absent
  <2>1. x \in Compact /\ SameContent(x, life.snap[i])
    BY <1>3 DEF Compact, Statuses, SameContent
  <2> QED
    BY <2>1, AbsentNotCompact
<1>5. /\ life' \in [op : Lifecycle, id : Requests, todo : SUBSET Requests,
                    snap : [Requests -> Compact \cup {Absent}]]
      /\ life'.op = life.op /\ life'.snap = life.snap /\ life'.id = life.id
      /\ life'.todo \subseteq life.todo
  BY <1>1, <1>2 DEF CompactsInv, LifeTypeOK
<1>6. "mark" \in lifes
  BY <1>2 DEF CompactsInv, SupersedesAll
<1>7. compacts' = [compacts EXCEPT ![i] = x]
  BY <1>1
<1>8. LifeTypeOK'
  BY <1>5 DEF LifeTypeOK
<1> HIDE DEF x
<1> QED
  BY <1>2, <1>4, <1>5, <1>6, <1>7, <1>8, LifecycleFileStep

LEMMA LifecycleEndStep ==
    ASSUME CompactsInv, LifecycleEnd
    PROVE  CompactsInv'
<1> DEFINE x == LifecycleResult
<1>1. /\ life # NoLife /\ life' = NoLife /\ compacts' = [compacts EXCEPT ![life.id] = x]
      /\ UNCHANGED <<lock, task, evidence, crashes, lifes>>
  BY DEF LifecycleEnd
<1>2. /\ life.id \in Requests /\ life.snap[life.id] \in Compact
      /\ life.op \in {"mark", "archive", "delete"}
  BY <1>1, CompactAssumption DEF CompactsInv, LifeTypeOK, ReadsStored, LifecycleOps
<1>3. /\ x \in Compact \cup {Absent} /\ (x # Absent => SameContent(x, life.snap[life.id]))
      /\ (life.op # "mark" => x = Absent \/ x.status # "CURRENT")
  BY <1>2 DEF LifecycleResult, Compact, Statuses, SameContent
<1>4. "mark" \notin lifes => life.op # "mark"
  BY <1>1 DEF CompactsInv, SupersedesAll
<1>5. LifeTypeOK'
  BY <1>1 DEF LifeTypeOK, NoLife
<1> HIDE DEF x
<1> QED
  BY <1>1, <1>3, <1>4, <1>5, LifecycleFileStep

LEMMA EditEvidenceStep ==
    ASSUME CompactsInv, EditEvidence
    PROVE  CompactsInv'
<1> USE DEF CompactsInv
<1>1. /\ evidence < MaxEvidence /\ evidence' = evidence + 1
      /\ UNCHANGED <<compacts, lock, task, life, crashes, lifes>>
  BY DEF EditEvidence
<1>2. TypeOK'
  BY <1>1, CompactAssumption DEF TypeOK
<1>3. LifeTypeOK' /\ LockHeld' /\ NewKnown' /\ ReadsStored' /\ SupersedesAll'
  BY <1>1 DEF LifeTypeOK, LockHeld, InLock, NewKnown, ReadsStored, SupersedesAll, Current, Stored
<1>4. /\ \A k \in Requests : \A c \in Versions(k)' : \E d \in Versions(k) : SameContent(c, d)
      /\ \A q \in Requests : Unwritten(q)' => Unwritten(q)
      /\ \A q \in Requests : Sealing(q)' => Sealing(q) /\ SameContent(task'[q].new, task[q].new)
  BY <1>1 DEF Versions, Unwritten, Sealing, SameContent
<1> QED
  BY <1>2, <1>3, <1>4, LineageKept

LEMMA StutterStep ==
    ASSUME CompactsInv, UNCHANGED vars
    PROVE  CompactsInv'
<1> USE DEF CompactsInv, vars
<1>1. TypeOK' /\ LifeTypeOK' /\ LockHeld' /\ NewKnown' /\ ReadsStored' /\ SupersedesAll'
  BY DEF TypeOK, LifeTypeOK, LockHeld, InLock, NewKnown, ReadsStored, SupersedesAll, Current, Stored
<1>2. /\ \A k \in Requests : \A c \in Versions(k)' : \E d \in Versions(k) : SameContent(c, d)
      /\ \A q \in Requests : Unwritten(q)' => Unwritten(q)
      /\ \A q \in Requests : Sealing(q)' => Sealing(q) /\ SameContent(task'[q].new, task[q].new)
  BY DEF Versions, Unwritten, Sealing, SameContent
<1> QED
  BY <1>1, <1>2, LineageKept

\* A crash forgets what was read; the files stay as they are.
LEMMA CrashStep ==
    ASSUME CompactsInv, Crash
    PROVE  CompactsInv'
<1> USE DEF CompactsInv
<1> DEFINE dead == [Idle EXCEPT !.pc = "done"]
<1>1. /\ crashes < MaxCrashes /\ crashes' = crashes + 1 /\ lock' = None /\ life' = NoLife
      /\ UNCHANGED <<compacts, evidence, lifes>>
      /\ task' = [r \in Requests |->
                    IF task[r].pc \in {"idle", "done"} THEN task[r] ELSE dead]
  BY DEF Crash
<1>2. dead \in Task /\ dead.pc = "done"
  BY DEF Idle, Task, Pcs
<1> HIDE DEF dead
<1>3. /\ task' \in [Requests -> Task]
      /\ \A r \in Requests : /\ task'[r].pc \in {"idle", "done"}
                             /\ task'[r].pc = "idle" => task'[r] = task[r]
  BY <1>1, <1>2 DEF TypeOK
<1>4. TypeOK'
  BY <1>1, <1>3, CompactAssumption DEF TypeOK, NoLife
<1>5. LifeTypeOK' /\ LockHeld' /\ NewKnown' /\ ReadsStored'
  BY <1>1, <1>3 DEF LifeTypeOK, LockHeld, InLock, NewKnown, ReadsStored
<1>6. \A k \in Requests : Versions(k)' \subseteq Versions(k)
  BY <1>1, <1>3 DEF Versions
<1>7. /\ \A q \in Requests : Unwritten(q)' => Unwritten(q)
      /\ \A q \in Requests : ~Sealing(q)'
  BY <1>3 DEF Unwritten, Sealing
<1>8. VersionsAgree' /\ VersionsLinear' /\ WrittenBefore' /\ SealedLast'
  <2>1. \A k \in Requests : \A c \in Versions(k)' : \E d \in Versions(k) : SameContent(c, d)
    BY <1>6 DEF SameContent
  <2> QED
    BY <1>7, <2>1, LineageKept
<1>9. SupersedesAll'
  BY <1>1, <1>3 DEF SupersedesAll, Current, Stored
<1> QED
  BY <1>4, <1>5, <1>8, <1>9

LEMMA InitHolds ==
    ASSUME Init
    PROVE  CompactsInv
<1> USE DEF Init
<1>1. \A r \in Requests : task[r] = Idle /\ task[r].pc = "idle" /\ compacts[r] = Absent
  BY IdleType
<1>2. TypeOK
  BY CompactAssumption, IdleType DEF TypeOK, NoLife
<1>3. \A i \in Requests : Versions(i) = {}
  BY <1>1 DEF Versions
<1>4. VersionsAgree /\ VersionsLinear
  BY <1>3 DEF VersionsAgree, VersionsLinear
<1>5. WrittenBefore /\ SealedLast
  BY <1>1, <1>3 DEF WrittenBefore, SealedLast, Sealing
<1>6. LifeTypeOK /\ LockHeld /\ NewKnown /\ ReadsStored
  BY <1>1 DEF LifeTypeOK, LockHeld, InLock, NewKnown, ReadsStored
<1>7. SupersedesAll
  BY <1>1 DEF SupersedesAll, Current, Stored
<1> QED
  BY <1>2, <1>4, <1>5, <1>6, <1>7 DEF CompactsInv

\* The inductive invariant: whatever a request has read and will write back has
\* the content of the file it replaces, and the holder of the lock seals the
\* successor of everything there is.
THEOREM CompactsInvariant == Spec => []CompactsInv
<1>1. ASSUME CompactsInv, [Next]_vars
      PROVE  CompactsInv'
  <2>1. CASE \E r \in Requests : CreateStep(r)
    <3>1. PICK r \in Requests : CreateStep(r)
      BY <2>1
    <3>2. CASE \E kind \in Kinds, d \in Drafts, rid \in RequestIds,
                  status \in {"DRAFT", "CURRENT"} : Start(r, kind, d, rid, status)
      BY <1>1, <3>2, StartStep
    <3>3. CASE \E ok \in BOOLEAN : Normalize(r, ok)
      BY <1>1, <3>3, NormalizeStep
    <3>4. CASE Acquire(r)
      BY <1>1, <3>4, AcquireStep
    <3>5. CASE ReadLineage(r)
      BY <1>1, <3>5, ReadLineageStep
    <3>6. CASE FindBySignature(r)
      BY <1>1, <3>6, FindBySignatureStep
    <3>7. CASE PersistScan(r)
      BY <1>1, <3>7, PersistScanStep
    <3>8. CASE SupersedeOne(r)
      BY <1>1, <3>8, SupersedeOneStep
    <3>9. CASE WriteNew(r)
      BY <1>1, <3>9, WriteNewStep
    <3>10. CASE ReadBack(r)
      BY <1>1, <3>10, ReadBackStep
    <3>11. CASE Release(r)
      BY <1>1, <3>11, ReleaseStep
    <3> QED
      BY <3>1, <3>2, <3>3, <3>4, <3>5, <3>6, <3>7, <3>8, <3>9, <3>10, <3>11 DEF CreateStep
  <2>2. CASE \E op \in Lifecycle, i \in Requests : LifecycleBegin(op, i)
    BY <1>1, <2>2, LifecycleBeginStep
  <2>3. CASE LifecycleSupersede
    BY <1>1, <2>3, LifecycleSupersedeStep
  <2>4. CASE LifecycleEnd
    BY <1>1, <2>4, LifecycleEndStep
  <2>5. CASE EditEvidence
    BY <1>1, <2>5, EditEvidenceStep
  <2>6. CASE Crash
    BY <1>1, <2>6, CrashStep
  <2>7. CASE UNCHANGED vars
    BY <1>1, <2>7, StutterStep
  <2> QED
    BY <1>1, <2>1, <2>2, <2>3, <2>4, <2>5, <2>6, <2>7 DEF Next
<1> QED
  BY <1>1, InitHolds, PTL DEF Spec

\* The variables keep their types.
THEOREM CompactsTypeOK == Spec => []TypeOK
BY CompactsInvariant, PTL DEF CompactsInv

\* _supersede_current_project under the creation lock: creations, archives,
\* deletions and crashes never leave two CURRENT compacts.
THEOREM CompactsOneCurrent == Spec => []OneCurrent
<1>1. ASSUME CompactsInv
      PROVE  OneCurrent
  <2>1. SUFFICES ASSUME "mark" \notin lifes
                 PROVE  Cardinality(Current) <= 1
    BY DEF OneCurrent
  <2>2. CASE Current = {}
    BY <2>2, FS_EmptySet
  <2>3. CASE Current # {}
    <3>1. PICK i \in Current : TRUE
      BY <2>3
    <3>2. Current = {i}
      BY <1>1, <2>1, <3>1 DEF CompactsInv, SupersedesAll
    <3>3. Cardinality({i}) = 1
      BY FS_Singleton, Zenon
    <3> QED
      BY <3>2, <3>3
  <2> QED
    BY <2>2, <2>3
<1> QED
  BY <1>1, CompactsInvariant, PTL

\* A stored package is a version of itself.
LEMMA StoredVersion ==
    ASSUME NEW i \in Packages
    PROVE  i \in Requests /\ compacts[i] \in Versions(i) /\ compacts[i].kind = "resume"
BY DEF Packages, Stored, Versions

\* next_lineage_successor and the draft hash: concurrent seals, retries,
\* deletions and crashes never fork a lineage.
THEOREM CompactsLineageLinear == Spec => []LineageLinear
<1>1. ASSUME CompactsInv
      PROVE  LineageLinear
  <2>1. SUFFICES ASSUME NEW i \in Packages
                 PROVE  /\ \A j \in Packages \ {i} : /\ compacts[i].rev # compacts[j].rev
                                                     /\ compacts[i].draft # compacts[j].draft
                        /\ compacts[i].prev \in Packages =>
                             compacts[i].rev = compacts[compacts[i].prev].rev + 1
    BY DEF LineageLinear
  <2>2. \A j \in Packages : Linear(i, compacts[i], j, compacts[j])
    BY <1>1, StoredVersion DEF CompactsInv, VersionsLinear
  <2> QED
    BY <2>2 DEF Linear
<1> QED
  BY <1>1, CompactsInvariant, PTL

\* _reject_request_id_conflict: a request id never names two stored packages.
THEOREM CompactsRequestIdOnce == Spec => []RequestIdOnce
<1>1. ASSUME CompactsInv
      PROVE  RequestIdOnce
  <2>1. \A i, j \in Packages : Linear(i, compacts[i], j, compacts[j])
    BY <1>1, StoredVersion DEF CompactsInv, VersionsLinear
  <2> QED
    BY <2>1 DEF Linear, RequestIdOnce
<1> QED
  BY <1>1, CompactsInvariant, PTL
=============================================================================
