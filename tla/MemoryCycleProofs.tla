-------------------------- MODULE MemoryCycleProofs --------------------------
(***************************************************************************)
(* CycleInv is inductive for any window, classification, number of keys,   *)
(* edits, Compacts, crashes and failures.                                  *)
(***************************************************************************)
EXTENDS MemoryCycle, FiniteSetTheorems, TLAPS

-----------------------------------------------------------------------------
(* Types                                                                   *)

LEMMA Taken ==
    \A d : d \in TakenForDone <=>
             \/ d \in run.done
             \/ \E k \in Keys : cp[k] # None /\ d \in cp[k].done
BY DEF TakenForDone

LEMMA VerdictType ==
    ASSUME TypeOK, NEW c \in Window
    PROVE  Verdict(c) \in Verdicts /\ PlanKey(c) \in PlanKeys
<1>1. TargetOf[c] \in Contexts /\ c \in Contexts
  BY CycleAssumption DEF Contexts
<1>2. indexed[c].body \in Bodies /\ indexed[TargetOf[c]].body \in Bodies
  BY <1>1 DEF TypeOK, Sources, Revisions
<1>3. <<c, indexed[c].body, indexed[TargetOf[c]].body>>
         \in Window \X (0 .. MaxEdits) \X (0 .. MaxEdits)
  BY <1>2 DEF Bodies
<1> QED
  BY <1>2, <1>3, CycleAssumption DEF Verdict, PlanKey, PlanKeys

LEMMA PlanNowType ==
    ASSUME TypeOK
    PROVE  /\ PlanNow \in CyclePlans /\ PlanNow.sources = indexed
           /\ PlanNow.children = [c \in Children |-> Verdict(c)]
<1>1. Children \in SUBSET Window
  BY DEF Children
<1>2. [c \in Children |-> Verdict(c)] \in [Children -> Verdicts]
  BY <1>1, VerdictType
<1>3. CurrentCompacts \in SUBSET Nat
  BY DEF TypeOK, CurrentCompacts
<1>4. (\A c \in Children : ~RequiresReview(Verdict(c))) \in BOOLEAN
  OBVIOUS
<1>5. indexed \in Sources
  BY DEF TypeOK
<1> QED
  BY <1>1, <1>2, <1>3, <1>4, <1>5 DEF PlanNow, CyclePlans

LEMMA CheckpointType ==
    ASSUME CycleInv, run.pc # "idle",
           NEW state \in {"ADMITTED", "PARTIAL", "REVIEW_REQUIRED", "COMPLETED"}
    PROVE  /\ Checkpoint(state) \in Checkpoints
           /\ Checkpoint(state).plan = run.plan /\ Checkpoint(state).done = run.done
           /\ Checkpoint(state).state = state /\ Checkpoint(state).compact = run.compact
<1>1. run.plan \in CyclePlans /\ run.done \subseteq ChildResults /\ run.compact \in Nat
  BY DEF CycleInv, RunShape, TypeOK, Runs
<1>2. run.plan.sources \in Sources /\ run.plan.safe \in BOOLEAN
  BY <1>1 DEF CyclePlans
<1>3. (run.pc = "retrieval" /\ run.plan.safe) \in BOOLEAN
  BY <1>2
<1> QED
  BY <1>1, <1>2, <1>3 DEF Checkpoint, Checkpoints

LEMMA ChildType ==
    ASSUME CycleInv, run.pc # "idle", run.todo # <<>>
    PROVE  /\ Head(run.todo) \in Window /\ Child \in PlanKeys /\ Child[1] = Head(run.todo)
           /\ Head(run.todo) \in DOMAIN run.plan.children
           /\ run.plan.children[Head(run.todo)] \in Verdicts
           /\ TargetOf[Head(run.todo)] \in Contexts
<1>1. run.todo \in Seq(Window) /\ run.plan \in CyclePlans
  BY DEF CycleInv, RunShape, TypeOK, Runs
<1>2. Head(run.todo) \in Window /\ Head(run.todo) = run.todo[1] /\ 1 \in DOMAIN run.todo
  BY <1>1
<1>3. run.plan.sources[Head(run.todo)].body \in Bodies
  BY <1>1, <1>2 DEF CyclePlans, Sources, Revisions, Contexts
<1>4. Head(run.todo) \in DOMAIN run.plan.children
  BY <1>2 DEF CycleInv, ChildrenCovered
<1>5. \E C \in SUBSET Window : run.plan.children \in [C -> Verdicts]
  BY <1>1 DEF CyclePlans
<1>6. run.plan.children[Head(run.todo)] \in Verdicts
  BY <1>4, <1>5
<1> QED
  BY <1>2, <1>3, <1>4, <1>6, CycleAssumption DEF Child, PlanKeys

LEMMA NoRunType == NoRun \in Runs /\ NoRun.pc = "idle" /\ NoRun.done = {} /\ NoRun.row = None
<1>1. <<>> \in Seq(Window)
  OBVIOUS
<1> QED
  BY <1>1 DEF NoRun, Runs, Pcs

-----------------------------------------------------------------------------
(* Steps that end an apply                                                 *)

\* The apply is over; a checkpoint may have been saved for it.
LEMMA EndStep ==
    ASSUME CycleInv, run.pc # "idle", run' = NoRun,
           UNCHANGED <<file, indexed, plans, results, compacts, merges, outside, edits>>,
           faults' \in 0 .. MaxFaults, faults' >= faults,
           run.pc = "commit" => faults' = faults + 1,
           \/ cp' = cp
           \/ \E x \in Checkpoints :
                /\ cp' = [cp EXCEPT ![run.key] = x]
                /\ x.plan = run.plan /\ x.done = run.done
                /\ x.state \in {"REVIEW_REQUIRED", "COMPLETED"} => x.compact \in DOMAIN compacts
                /\ x.state = "COMPLETED" =>
                     \A c \in DOMAIN run.plan.children : \E d \in run.done : d.plan[1] = c
    PROVE  CycleInv'
<1> USE DEF CycleInv
<1>1. run.key \in Keys
  BY DEF RunShape
<1>2. cp' \in [Keys -> Checkpoints \cup {None}]
  BY <1>1 DEF TypeOK
<1>3. \A k \in Keys : \/ cp'[k] = cp[k]
                      \/ /\ cp'[k] # None /\ cp'[k].done = run.done /\ cp'[k].plan = run.plan
                         /\ cp'[k].state \in {"REVIEW_REQUIRED", "COMPLETED"} =>
                              cp'[k].compact \in DOMAIN compacts
                         /\ cp'[k].state = "COMPLETED" =>
                              \A c \in DOMAIN run.plan.children : \E d \in run.done : d.plan[1] = c
  BY <1>1, CycleAssumption DEF TypeOK
<1>4. run'.pc = "idle" /\ run'.done = {} /\ run' \in Runs /\ run'.row = None
  BY NoRunType
<1>5. TypeOK'
  BY <1>2, <1>4 DEF TypeOK
<1>6. BodiesBounded' /\ RunShape' /\ ChildrenCovered'
  BY <1>4 DEF BodiesBounded, RunShape, ChildrenCovered
<1>7. TakenForDone' \subseteq TakenForDone
  BY <1>3, <1>4 DEF TakenForDone
<1>8. DoneBacked'
  BY <1>7 DEF DoneBacked, Backed
<1>9. ResultsPlanned' /\ SessionCoherent'
  BY <1>4 DEF ResultsPlanned, SessionCoherent
<1>10. CheckpointsComplete'
  BY <1>3 DEF CheckpointsComplete
<1>11. MergesSettled' /\ RowShape'
  BY <1>4 DEF MergesSettled, RowShape, TypeOK
<1>12. BodiesHeld'
  BY <1>4 DEF BodiesHeld
<1> QED
  BY <1>5, <1>6, <1>8, <1>9, <1>10, <1>11, <1>12

\* A PARTIAL checkpoint ends the cycle.
LEMMA PartialStep ==
    ASSUME CycleInv, run.pc # "idle", run' = NoRun, SaveCheckpoint(Checkpoint("PARTIAL")),
           UNCHANGED <<file, indexed, plans, results, compacts, merges, outside, edits>>,
           faults' \in 0 .. MaxFaults, faults' >= faults,
           run.pc = "commit" => faults' = faults + 1
    PROVE  CycleInv'
<1>1. /\ Checkpoint("PARTIAL") \in Checkpoints
      /\ Checkpoint("PARTIAL").plan = run.plan /\ Checkpoint("PARTIAL").done = run.done
      /\ Checkpoint("PARTIAL").state = "PARTIAL"
  BY CheckpointType
<1> QED
  BY <1>1, EndStep DEF SaveCheckpoint

LEMMA CrashStep ==
    ASSUME CycleInv, Crash
    PROVE  CycleInv'
<1>1. faults' \in 0 .. MaxFaults /\ faults' = faults + 1 /\ faults' >= faults
  BY CycleAssumption DEF Crash, CycleInv, TypeOK
<1> QED
  BY <1>1, EndStep DEF Crash

LEMMA PhaseFailsStep ==
    ASSUME CycleInv, PhaseFails
    PROVE  CycleInv'
<1>1. faults' \in 0 .. MaxFaults /\ faults' = faults + 1 /\ faults' >= faults
  BY CycleAssumption DEF PhaseFails, CycleInv, TypeOK
<1> QED
  BY <1>1, PartialStep DEF PhaseFails

LEMMA FinishStep ==
    ASSUME CycleInv, NEW found \in BOOLEAN, Finish(found)
    PROVE  CycleInv'
<1> DEFINE review == ~run.plan.safe \/ \E d \in run.done : d.result = None
           state == IF ~found THEN "PARTIAL"
                    ELSE IF review THEN "REVIEW_REQUIRED" ELSE "COMPLETED"
           y == Checkpoint(state)
           x == [y EXCEPT !.sources = run.post]
<1>1. /\ run.pc = "retrieval" /\ run' = NoRun /\ cp' = [cp EXCEPT ![run.key] = x]
      /\ UNCHANGED <<file, indexed, plans, results, compacts, token, merges, outside, edits>>
  BY DEF Finish, SaveCheckpoint
<1>2. faults' \in 0 .. MaxFaults /\ faults' >= faults
  BY CycleAssumption DEF Finish, CycleInv, TypeOK
<1>3. state \in {"ADMITTED", "PARTIAL", "REVIEW_REQUIRED", "COMPLETED"}
  OBVIOUS
<1> HIDE DEF state
<1>4. /\ y \in Checkpoints /\ y.plan = run.plan /\ y.done = run.done /\ y.compact = run.compact
  BY <1>1, <1>3, CheckpointType
<1> HIDE DEF y
<1>5. run.post \in Sources /\ run.compact \in DOMAIN compacts /\ run.todo = <<>>
  BY <1>1 DEF CycleInv, RunShape
<1>6. x \in Checkpoints /\ x.plan = run.plan /\ x.done = run.done /\ x.compact = run.compact
  BY <1>4, <1>5 DEF Checkpoints
<1>7. \A c \in DOMAIN run.plan.children : \E d \in run.done : d.plan[1] = c
  BY <1>1, <1>5 DEF CycleInv, ChildrenCovered
<1> HIDE DEF x
<1> QED
  BY <1>1, <1>2, <1>5, <1>6, <1>7, EndStep

-----------------------------------------------------------------------------
(* Steps of others                                                         *)

\* Requests that change nothing but what a client has been shown.
LEMMA TokenStep ==
    ASSUME CycleInv,
           UNCHANGED <<file, indexed, plans, results, compacts, cp, run, merges, outside,
                       edits, faults>>
    PROVE  CycleInv'
<1> USE DEF CycleInv
<1>1. TypeOK' /\ BodiesBounded' /\ RunShape' /\ ChildrenCovered'
  BY DEF TypeOK, BodiesBounded, RunShape, ChildrenCovered
<1>2. DoneBacked' /\ ResultsPlanned' /\ SessionCoherent'
  BY DEF DoneBacked, Backed, TakenForDone, ResultsPlanned, SessionCoherent, Child
<1>3. CheckpointsComplete' /\ MergesSettled' /\ RowShape' /\ BodiesHeld'
  BY DEF CheckpointsComplete, MergesSettled, Child, RowShape, BodiesHeld
<1> QED
  BY <1>1, <1>2, <1>3

\* Notes are edited or indexed: under a lease no apply is in progress, without
\* one it is remembered.
LEMMA NotesStep ==
    ASSUME CycleInv, UNCHANGED <<plans, results, compacts, cp, run, merges, faults>>,
           file' \in Sources, indexed' \in Sources, edits' \in Bodies, outside' \in BOOLEAN,
           \A c \in Contexts : file'[c].body <= edits' /\ indexed'[c].body <= edits',
           ~outside' => ~outside /\ run.pc = "idle", edits' >= edits
    PROVE  CycleInv'
<1> USE DEF CycleInv
<1>1. TypeOK' /\ BodiesBounded' /\ RunShape' /\ ChildrenCovered'
  BY DEF TypeOK, BodiesBounded, RunShape, ChildrenCovered
<1>2. DoneBacked' /\ ResultsPlanned' /\ SessionCoherent'
  BY DEF DoneBacked, Backed, TakenForDone, ResultsPlanned, SessionCoherent, Child
<1>3. CheckpointsComplete' /\ MergesSettled'
  BY DEF CheckpointsComplete, MergesSettled, Child
<1>4. BodiesHeld'
  BY DEF BodiesHeld, RunShape
<1>5. RowShape'
  BY DEF RowShape, TypeOK, Runs, Revisions, Bodies
<1> QED
  BY <1>1, <1>2, <1>3, <1>4, <1>5

LEMMA EditedFile ==
    ASSUME CycleInv, NEW c \in Contexts, edits < MaxEdits, edits' = edits + 1,
           file' = [file EXCEPT ![c].body = @ + 1]
    PROVE  /\ file' \in Sources /\ edits' \in Bodies /\ edits' >= edits
           /\ \A d \in Contexts : file'[d].body <= edits' /\ indexed[d].body <= edits'
<1> USE DEF CycleInv
<1>1. /\ file \in Sources /\ indexed \in Sources /\ edits \in Bodies /\ MaxEdits \in Nat
  BY CycleAssumption DEF TypeOK
<1>2. \A d \in Contexts : /\ file[d] \in Revisions
                          /\ indexed[d] \in Revisions
                          /\ file[d].body <= edits /\ indexed[d].body <= edits
  BY <1>1 DEF Sources, BodiesBounded
<1> DEFINE x == [file[c] EXCEPT !.body = @ + 1]
<1>3. x \in Revisions /\ x.body <= edits + 1
  BY <1>1, <1>2 DEF Bodies, Revisions
<1>4. file' = [file EXCEPT ![c] = x]
  OBVIOUS
<1> HIDE DEF x
<1>5. /\ file' \in Sources /\ file'[c] = x /\ \A d \in Contexts \ {c} : file'[d] = file[d]
  BY <1>1, <1>3, <1>4 DEF Sources
<1> QED
  BY <1>1, <1>2, <1>3, <1>5 DEF Bodies, Revisions

LEMMA EditStep ==
    ASSUME CycleInv, NEW c \in Contexts, Edit(c)
    PROVE  CycleInv'
<1>1. /\ file' \in Sources /\ edits' \in Bodies /\ edits' >= edits
      /\ \A d \in Contexts : file'[d].body <= edits' /\ indexed[d].body <= edits'
  BY EditedFile DEF Edit
<1>2. indexed' \in Sources /\ \A d \in Contexts : indexed'[d] \in {indexed[d], file'[d]}
  BY <1>1 DEF Edit, CycleInv, TypeOK, Sources
<1>3. \A d \in Contexts : indexed'[d].body <= edits'
  BY <1>1, <1>2
<1>4. outside' = outside /\ outside \in BOOLEAN /\ run.pc = "idle"
      /\ UNCHANGED <<plans, results, compacts, cp, run, merges, faults>>
  BY DEF Edit, LaneFree, CycleInv, TypeOK
<1> QED
  BY <1>1, <1>2, <1>3, <1>4, NotesStep

LEMMA EditOutsideStep ==
    ASSUME CycleInv, NEW c \in Contexts, EditOutside(c)
    PROVE  CycleInv'
<1>1. /\ file' \in Sources /\ edits' \in Bodies /\ edits' >= edits
      /\ \A d \in Contexts : file'[d].body <= edits' /\ indexed[d].body <= edits'
  BY EditedFile DEF EditOutside
<1>2. outside' \in BOOLEAN /\ (~outside' => ~outside /\ run.pc = "idle") /\ indexed \in Sources
      /\ UNCHANGED <<indexed, plans, results, compacts, cp, run, merges, faults>>
  BY DEF EditOutside, CycleInv, TypeOK
<1> QED
  BY <1>1, <1>2, NotesStep

LEMMA RepairRawStep ==
    ASSUME CycleInv, NEW c \in Contexts, RepairRaw(c)
    PROVE  CycleInv'
<1>1. /\ file' \in Sources /\ edits' \in Bodies /\ edits' >= edits
      /\ \A d \in Contexts : file'[d].body <= edits' /\ indexed[d].body <= edits'
  BY EditedFile DEF RepairRaw
<1>2. outside' \in BOOLEAN /\ (~outside' => ~outside /\ run.pc = "idle")
      /\ UNCHANGED <<plans, results, compacts, cp, run, merges, faults>>
  BY DEF RepairRaw, CycleInv, TypeOK
<1>3. indexed' \in Sources /\ \A d \in Contexts : indexed'[d] \in {indexed[d], file'[d]}
  BY <1>1 DEF RepairRaw, CycleInv, TypeOK, Sources
<1>4. \A d \in Contexts : indexed'[d].body <= edits'
  BY <1>1, <1>3
<1> QED
  BY <1>1, <1>2, <1>3, <1>4, NotesStep

LEMMA ReindexStep ==
    ASSUME CycleInv, Reindex
    PROVE  CycleInv'
<1>1. /\ file' = file /\ indexed' = file /\ edits' = edits /\ outside' = outside
      /\ run.pc = "idle" /\ UNCHANGED <<plans, results, compacts, cp, run, merges, faults>>
  BY DEF Reindex, LaneFree
<1>2. file \in Sources /\ edits \in Bodies /\ outside \in BOOLEAN /\ edits >= edits
      /\ \A c \in Contexts : file[c].body <= edits
  BY DEF CycleInv, TypeOK, BodiesBounded, Bodies
<1> QED
  BY <1>1, <1>2, NotesStep

\* A scan stores a plan where there is none, so it contradicts nothing that a
\* checkpoint or a session relies on.
LEMMA ScanStep ==
    ASSUME CycleInv, NEW c \in Window, Scan(c)
    PROVE  CycleInv'
<1> USE DEF CycleInv
<1>1. Verdict(c) \in Verdicts /\ PlanKey(c) \in PlanKeys /\ Verdict(c) # None
  BY VerdictType, CycleAssumption
<1>2. /\ plans[PlanKey(c)] = None /\ plans' = [plans EXCEPT ![PlanKey(c)] = Verdict(c)]
      /\ UNCHANGED <<file, indexed, results, compacts, cp, run, merges, outside, edits, faults>>
  BY DEF Scan
<1>3. /\ plans' \in [PlanKeys -> Verdicts \cup {None}]
      /\ \A p \in PlanKeys : plans[p] # None => plans'[p] = plans[p]
  BY <1>1, <1>2 DEF TypeOK
<1>4. TypeOK' /\ BodiesBounded' /\ RunShape' /\ ChildrenCovered'
  BY <1>2, <1>3 DEF TypeOK, BodiesBounded, RunShape, ChildrenCovered
<1>5. TakenForDone' = TakenForDone /\ \A d \in TakenForDone : d.plan \in PlanKeys
  BY <1>2 DEF TakenForDone, TypeOK, Runs, Checkpoints, ChildResults
<1>6. DoneBacked'
  BY <1>2, <1>3, <1>5 DEF DoneBacked, Backed
<1>7. ResultsPlanned'
  BY <1>2, <1>3 DEF ResultsPlanned
<1>8. SessionCoherent'
  <2>1. SUFFICES ASSUME run.pc = "commit"
                 PROVE  SessionCoherent'
    BY <1>2 DEF SessionCoherent
  <2>2. Child \in PlanKeys /\ Child' = Child
    BY <2>1, <1>2, ChildType DEF RunShape, Child
  <2>3. plans[Child] = run.new => plans'[Child] = run.new
    BY <2>1, <2>2, <1>3 DEF SessionCoherent
  <2> QED
    BY <2>1, <2>2, <2>3, <1>2, <1>5 DEF SessionCoherent
<1>9. CheckpointsComplete' /\ MergesSettled' /\ RowShape' /\ BodiesHeld'
  BY <1>2 DEF CheckpointsComplete, MergesSettled, Child, RowShape, BodiesHeld
<1> QED
  BY <1>4, <1>6, <1>7, <1>8, <1>9

LEMMA PromoteType ==
    ASSUME TypeOK, NEW i
    PROVE  /\ Promote(i) \in Seq(Compacts) /\ DOMAIN Promote(i) = DOMAIN compacts
           /\ Len(Promote(i)) = Len(compacts)
           /\ \A j \in DOMAIN compacts : /\ Promote(i)[j].facts = compacts[j].facts
                                         /\ Promote(i)[j].refs = compacts[j].refs
<1>1. compacts \in Seq(Compacts) /\ Len(compacts) \in Nat /\ DOMAIN compacts = 1 .. Len(compacts)
  BY DEF TypeOK
<1>2. \A j \in DOMAIN compacts :
        /\ Promote(i)[j] \in Compacts
        /\ Promote(i)[j].facts = compacts[j].facts /\ Promote(i)[j].refs = compacts[j].refs
  <2>1. SUFFICES ASSUME NEW j \in DOMAIN compacts
                 PROVE  /\ Promote(i)[j] \in Compacts
                        /\ Promote(i)[j].facts = compacts[j].facts
                        /\ Promote(i)[j].refs = compacts[j].refs
    OBVIOUS
  <2>2. compacts[j] \in Compacts
    BY <1>1
  <2>3. Promote(i)[j] \in {compacts[j], [compacts[j] EXCEPT !.status = "CURRENT"],
                           [compacts[j] EXCEPT !.status = "SUPERSEDED"]}
    BY DEF Promote
  <2> QED
    BY <2>2, <2>3 DEF Compacts
<1>3. DOMAIN Promote(i) = 1 .. Len(compacts)
  BY <1>1 DEF Promote
<1>4. Promote(i) = [j \in 1 .. Len(compacts) |-> Promote(i)[j]]
  BY <1>1 DEF Promote
<1>5. Promote(i) \in Seq(Compacts)
  BY <1>1, <1>2, <1>4
<1> QED
  BY <1>1, <1>2, <1>3, <1>5

LEMMA OtherCompactStep ==
    ASSUME CycleInv, OtherCompact
    PROVE  CycleInv'
<1> USE DEF CycleInv
<1> DEFINE i == Len(compacts) + 1
           new == [status |-> "CURRENT", facts |-> <<>>, refs |-> <<>>]
           s == Promote(i)
<1>1. /\ compacts' = Append(s, new)
      /\ UNCHANGED <<file, indexed, plans, results, cp, run, merges, outside, edits, faults>>
  BY DEF OtherCompact
<1>2. new \in Compacts /\ new.facts = new.refs
  BY DEF Compacts, Facts
<1>3. /\ s \in Seq(Compacts) /\ DOMAIN s = DOMAIN compacts
      /\ \A j \in DOMAIN compacts : s[j].facts = compacts[j].facts /\ s[j].refs = compacts[j].refs
  BY PromoteType
<1> HIDE DEF s, new
<1>4. /\ compacts' \in Seq(Compacts) /\ DOMAIN compacts \subseteq DOMAIN compacts'
      /\ \A j \in DOMAIN compacts' : \/ compacts'[j] = new
                                     \/ j \in DOMAIN compacts /\ compacts'[j] = s[j]
  BY <1>1, <1>2, <1>3
<1>5. TypeOK' /\ BodiesBounded' /\ RunShape' /\ ChildrenCovered'
  BY <1>1, <1>4 DEF TypeOK, BodiesBounded, RunShape, ChildrenCovered
<1>6. DoneBacked' /\ ResultsPlanned' /\ SessionCoherent'
  BY <1>1 DEF DoneBacked, Backed, TakenForDone, ResultsPlanned, SessionCoherent, Child
<1>7. CheckpointsComplete' /\ MergesSettled' /\ RowShape'
  BY <1>1, <1>4 DEF CheckpointsComplete, MergesSettled, Child, RowShape
<1>8. BodiesHeld'
  BY <1>1, <1>2, <1>3, <1>4 DEF BodiesHeld
<1> QED
  BY <1>5, <1>6, <1>7, <1>8

-----------------------------------------------------------------------------
(* Steps of the apply                                                      *)

\* The apply goes on: to its next child, or to a phase after the children.
LEMMA MoveStep ==
    ASSUME CycleInv, run.pc \notin {"idle", "commit"}, run' \in Runs, run'.row = None,
           run'.key = run.key, run'.plan = run.plan, run'.done = run.done,
           run'.pc \in {"child", "compact", "publish", "readback", "retrieval"},
           UNCHANGED <<file, indexed, plans, results, merges, outside, edits, faults>>,
           compacts' \in Seq(Compacts), DOMAIN compacts \subseteq DOMAIN compacts',
           ~outside => \A i \in DOMAIN compacts' : compacts'[i].facts = compacts'[i].refs,
           \/ cp' = cp
           \/ cp' = [cp EXCEPT ![run.key] = Checkpoint("ADMITTED")],
           run'.pc # "child" => /\ run'.todo = <<>> /\ run'.post \in Sources
                                /\ ~outside => \A c \in Contexts :
                                     run'.post[c].body = run.plan.sources[c].body,
           run'.pc \in {"publish", "readback", "retrieval"} => run'.compact \in DOMAIN compacts',
           \A i \in DOMAIN run'.todo : run'.todo[i] \in DOMAIN run.plan.children,
           \A c \in DOMAIN run.plan.children :
             (\E i \in DOMAIN run'.todo : run'.todo[i] = c) \/ (\E d \in run.done : d.plan[1] = c)
    PROVE  CycleInv'
<1> USE DEF CycleInv
<1>1. run.key \in Keys /\ run.plan \in CyclePlans
  BY DEF RunShape
<1>2. /\ Checkpoint("ADMITTED") \in Checkpoints /\ Checkpoint("ADMITTED").done = run.done
      /\ Checkpoint("ADMITTED").state = "ADMITTED"
  BY CheckpointType
<1>3. /\ cp' \in [Keys -> Checkpoints \cup {None}]
      /\ \A k \in Keys : \/ cp'[k] = cp[k]
                         \/ /\ cp'[k] # None /\ cp'[k].done = run.done
                            /\ cp'[k].state = "ADMITTED"
  BY <1>1, <1>2, CycleAssumption DEF TypeOK
<1>4. TypeOK' /\ BodiesBounded'
  BY <1>3 DEF TypeOK, BodiesBounded
<1>5. RunShape'
  BY <1>1 DEF RunShape
<1>6. ChildrenCovered'
  BY DEF ChildrenCovered
<1>7. TakenForDone' \subseteq TakenForDone
  BY <1>3 DEF TakenForDone
<1>8. DoneBacked'
  BY <1>7 DEF DoneBacked, Backed
<1>9. ResultsPlanned' /\ SessionCoherent'
  BY DEF ResultsPlanned, SessionCoherent
<1>10. CheckpointsComplete'
  BY <1>3 DEF CheckpointsComplete
<1>11. MergesSettled' /\ RowShape'
  BY DEF MergesSettled, RowShape
<1>12. BodiesHeld'
  BY DEF BodiesHeld
<1> QED
  BY <1>4, <1>5, <1>6, <1>8, <1>9, <1>10, <1>11, <1>12

LEMMA RefreshSourcesStep ==
    ASSUME CycleInv, RefreshSources
    PROVE  CycleInv'
<1> USE DEF CycleInv
<1>1. /\ run.row = None /\ run.pc = "child" /\ run.todo = <<>>
      /\ run \in Runs /\ indexed \in Sources
      /\ faults \in 0 .. MaxFaults /\ faults >= faults /\ compacts \in Seq(Compacts)
      /\ UNCHANGED <<file, indexed, plans, results, compacts, merges, outside, edits, faults>>
  BY DEF RefreshSources, TypeOK, RowShape
<1>2. CASE Fresh
  <2>1. run' = [run EXCEPT !.pc = "compact", !.post = indexed] /\ cp' = cp
    BY <1>2 DEF RefreshSources
  <2>2. /\ run' \in Runs /\ run'.key = run.key /\ run'.plan = run.plan /\ run'.done = run.done
        /\ run'.row = None /\ run'.pc = "compact" /\ run'.post = indexed /\ run'.todo = <<>>
    <3>1. run \in Runs /\ indexed \in Sources \cup {None} /\ "compact" \in Pcs
      BY <1>1 DEF Pcs
    <3>2. run' \in Runs
      BY <2>1, <3>1 DEF Runs
    <3>3. /\ run'.key = run.key /\ run'.plan = run.plan /\ run'.done = run.done
          /\ run'.row = run.row /\ run'.pc = "compact" /\ run'.post = indexed
          /\ run'.todo = run.todo
      BY <2>1, <3>1 DEF Runs
    <3> QED
      BY <1>1, <3>2, <3>3
  <2>3. ~outside => /\ \A i \in DOMAIN compacts : compacts[i].facts = compacts[i].refs
                    /\ \A c \in Contexts : indexed[c].body = run.plan.sources[c].body
    BY <1>1 DEF BodiesHeld
  <2>4. \A c \in DOMAIN run.plan.children : \E d \in run.done : d.plan[1] = c
    BY <1>1 DEF ChildrenCovered
  <2> QED
    BY <1>1, <2>1, <2>2, <2>3, <2>4, MoveStep
<1>3. CASE ~Fresh
  BY <1>1, <1>3, PartialStep DEF RefreshSources
<1> QED
  BY <1>2, <1>3

LEMMA CreateCompactStep ==
    ASSUME CycleInv, CreateCompact
    PROVE  CycleInv'
<1> USE DEF CycleInv
<1> DEFINE new == [status |-> "DRAFT",
                   facts |-> [c \in Window |-> run.plan.sources[c].body],
                   refs |-> [c \in Window |-> run.post[c].body]]
           same == {i \in DOMAIN compacts : /\ compacts[i].facts = new.facts
                                            /\ compacts[i].refs = new.refs}
<1>1. /\ run.row = None /\ run.pc = "compact" /\ run.todo = <<>>
      /\ run \in Runs /\ compacts \in Seq(Compacts)
      /\ run.post \in Sources /\ run.plan \in CyclePlans
      /\ UNCHANGED <<file, indexed, plans, results, cp, merges, outside, edits, faults>>
  BY DEF CreateCompact, TypeOK, RunShape, RowShape
<1>2. /\ ~outside => /\ \A i \in DOMAIN compacts : compacts[i].facts = compacts[i].refs
                     /\ \A c \in Contexts : run.post[c].body = run.plan.sources[c].body
      /\ \A c \in DOMAIN run.plan.children : \E d \in run.done : d.plan[1] = c
  BY <1>1 DEF BodiesHeld, ChildrenCovered
<1>3. new \in Compacts /\ (~outside => new.facts = new.refs)
  <2>1. /\ [c \in Window |-> run.plan.sources[c].body] \in [Window -> Bodies]
        /\ [c \in Window |-> run.post[c].body] \in [Window -> Bodies]
    BY <1>1 DEF CyclePlans, Sources, Revisions, Contexts
  <2>2. ~outside => [c \in Window |-> run.plan.sources[c].body]
                      = [c \in Window |-> run.post[c].body]
    BY <1>2 DEF Contexts
  <2> QED
    BY <2>1, <2>2 DEF Compacts, Facts
<1>4. CASE \E i \in same : /\ run' = [run EXCEPT !.pc = "publish", !.compact = i]
                           /\ UNCHANGED compacts
  <2>1. PICK i \in same : /\ run' = [run EXCEPT !.pc = "publish", !.compact = i]
                          /\ UNCHANGED compacts
    BY <1>4
  <2>2. i \in DOMAIN compacts /\ i \in Nat
    BY <1>1
  <2>3. /\ run' \in Runs /\ run'.key = run.key /\ run'.plan = run.plan /\ run'.done = run.done
        /\ run'.row = None /\ run'.pc = "publish" /\ run'.post = run.post /\ run'.todo = <<>> /\ run'.compact = i
    BY <1>1, <2>1, <2>2 DEF Runs, Pcs
  <2> QED
    BY <1>1, <1>2, <2>1, <2>2, <2>3, MoveStep
<1>5. CASE /\ compacts' = Append(compacts, new)
           /\ run' = [run EXCEPT !.pc = "publish", !.compact = Len(compacts) + 1]
  <2> HIDE DEF new
  <2>1. /\ Len(compacts) + 1 \in Nat /\ compacts' \in Seq(Compacts)
        /\ DOMAIN compacts \subseteq DOMAIN compacts' /\ Len(compacts) + 1 \in DOMAIN compacts'
        /\ \A j \in DOMAIN compacts' : \/ compacts'[j] = new
                                       \/ j \in DOMAIN compacts /\ compacts'[j] = compacts[j]
    BY <1>1, <1>3, <1>5
  <2>2. /\ run' \in Runs /\ run'.key = run.key /\ run'.plan = run.plan /\ run'.done = run.done
        /\ run'.row = None /\ run'.pc = "publish" /\ run'.post = run.post /\ run'.todo = <<>>
        /\ run'.compact = Len(compacts) + 1
    BY <1>1, <1>5, <2>1 DEF Runs, Pcs
  <2>3. ~outside => \A i \in DOMAIN compacts' : compacts'[i].facts = compacts'[i].refs
    BY <1>2, <1>3, <2>1
  <2> QED
    BY <1>1, <1>2, <2>1, <2>2, <2>3, MoveStep
<1> QED
  BY <1>4, <1>5 DEF CreateCompact

LEMMA PublishStep ==
    ASSUME CycleInv, Publish
    PROVE  CycleInv'
<1> USE DEF CycleInv
<1>1. /\ run.row = None /\ run.pc = "publish" /\ run.todo = <<>>
      /\ run \in Runs /\ compacts \in Seq(Compacts)
      /\ run.post \in Sources /\ run.compact \in DOMAIN compacts /\ faults \in 0 .. MaxFaults
      /\ faults >= faults
      /\ UNCHANGED <<file, indexed, plans, results, merges, outside, edits, faults>>
  BY DEF Publish, TypeOK, RunShape, RowShape
<1>2. /\ ~outside => /\ \A i \in DOMAIN compacts : compacts[i].facts = compacts[i].refs
                     /\ \A c \in Contexts : run.post[c].body = run.plan.sources[c].body
      /\ \A c \in DOMAIN run.plan.children : \E d \in run.done : d.plan[1] = c
  BY <1>1 DEF BodiesHeld, ChildrenCovered
<1>3. CASE run' = [run EXCEPT !.pc = "retrieval"] /\ UNCHANGED <<compacts, cp>>
  <2>1. /\ run' \in Runs /\ run'.key = run.key /\ run'.plan = run.plan /\ run'.done = run.done
        /\ run'.row = None /\ run'.pc = "retrieval" /\ run'.post = run.post /\ run'.todo = <<>>
        /\ run'.compact = run.compact
    BY <1>1, <1>3 DEF Runs, Pcs
  <2> QED
    BY <1>1, <1>2, <1>3, <2>1, MoveStep
<1>4. CASE compacts' = Promote(run.compact) /\ run' = [run EXCEPT !.pc = "readback"] /\ cp' = cp
  <2>1. /\ run' \in Runs /\ run'.key = run.key /\ run'.plan = run.plan /\ run'.done = run.done
        /\ run'.row = None /\ run'.pc = "readback" /\ run'.post = run.post /\ run'.todo = <<>>
        /\ run'.compact = run.compact
    BY <1>1, <1>4 DEF Runs, Pcs
  <2>2. /\ compacts' \in Seq(Compacts) /\ DOMAIN compacts' = DOMAIN compacts
        /\ \A j \in DOMAIN compacts : /\ compacts'[j].facts = compacts[j].facts
                                      /\ compacts'[j].refs = compacts[j].refs
    BY <1>4, PromoteType
  <2> QED
    BY <1>1, <1>2, <1>4, <2>1, <2>2, MoveStep
<1>5. CASE SaveCheckpoint(Checkpoint("PARTIAL")) /\ run' = NoRun /\ UNCHANGED compacts
  BY <1>1, <1>5, PartialStep
<1> QED
  BY <1>3, <1>4, <1>5 DEF Publish

LEMMA PublishReadbackStep ==
    ASSUME CycleInv, PublishReadback
    PROVE  CycleInv'
<1> USE DEF CycleInv
<1>1. /\ run.row = None /\ run.pc = "readback" /\ run.todo = <<>>
      /\ run \in Runs /\ compacts \in Seq(Compacts)
      /\ run.post \in Sources /\ run.compact \in DOMAIN compacts /\ faults \in 0 .. MaxFaults
      /\ faults >= faults
      /\ UNCHANGED <<file, indexed, plans, results, compacts, merges, outside, edits, faults>>
  BY DEF PublishReadback, TypeOK, RunShape, RowShape
<1>2. /\ ~outside => /\ \A i \in DOMAIN compacts : compacts[i].facts = compacts[i].refs
                     /\ \A c \in Contexts : run.post[c].body = run.plan.sources[c].body
      /\ \A c \in DOMAIN run.plan.children : \E d \in run.done : d.plan[1] = c
  BY <1>1 DEF BodiesHeld, ChildrenCovered
<1>3. CASE run' = [run EXCEPT !.pc = "retrieval"] /\ UNCHANGED cp
  <2>1. /\ run' \in Runs /\ run'.key = run.key /\ run'.plan = run.plan /\ run'.done = run.done
        /\ run'.row = None /\ run'.pc = "retrieval" /\ run'.post = run.post /\ run'.todo = <<>>
        /\ run'.compact = run.compact
    BY <1>1, <1>3 DEF Runs, Pcs
  <2> QED
    BY <1>1, <1>2, <1>3, <2>1, MoveStep
<1>4. CASE SaveCheckpoint(Checkpoint("PARTIAL")) /\ run' = NoRun
  BY <1>1, <1>4, PartialStep
<1> QED
  BY <1>3, <1>4 DEF PublishReadback

LEMMA ChildCheckpointStep ==
    ASSUME CycleInv, ChildCheckpoint
    PROVE  CycleInv'
<1> USE DEF CycleInv
<1>1. /\ run.pc = "record" /\ run.todo # <<>> /\ run \in Runs /\ run.todo \in Seq(Window)
      /\ compacts \in Seq(Compacts) /\ faults \in 0 .. MaxFaults /\ faults >= faults
      /\ UNCHANGED <<file, indexed, plans, results, compacts, merges, outside, edits, faults>>
  BY DEF ChildCheckpoint, TypeOK, RunShape, Runs
<1>2. CASE run.outcome \notin {"APPLIED", None}
  BY <1>1, <1>2, PartialStep DEF ChildCheckpoint
<1>3. CASE run.outcome \in {"APPLIED", None}
  <2>1. /\ run' = [run EXCEPT !.pc = "child", !.todo = Tail(@), !.new = None, !.outcome = None,
                          !.row = None]
        /\ cp' = [cp EXCEPT ![run.key] = Checkpoint("ADMITTED")]
    BY <1>3 DEF ChildCheckpoint, SaveCheckpoint
  <2>2. Tail(run.todo) \in Seq(Window)
    BY <1>1
  <2>3. /\ run' \in Runs /\ run'.key = run.key /\ run'.plan = run.plan /\ run'.done = run.done
        /\ run'.row = None /\ run'.pc = "child" /\ run'.todo = Tail(run.todo)
    BY <1>1, <2>1, <2>2 DEF Runs, Pcs
  <2>4. \A i \in DOMAIN run'.todo : i + 1 \in DOMAIN run.todo /\ run'.todo[i] = run.todo[i + 1]
    BY <1>1, <2>3
  <2>5. \A i \in DOMAIN run'.todo : run'.todo[i] \in DOMAIN run.plan.children
    BY <1>1, <2>4 DEF ChildrenCovered
  <2>6. ASSUME NEW c \in DOMAIN run.plan.children
        PROVE  (\E i \in DOMAIN run'.todo : run'.todo[i] = c) \/ (\E d \in run.done : d.plan[1] = c)
    <3>1. CASE \E d \in run.done : d.plan[1] = c
      BY <3>1
    <3>2. CASE \E i \in DOMAIN run.todo : run.todo[i] = c
      <4>1. PICK i \in DOMAIN run.todo : run.todo[i] = c
        BY <3>2
      <4>2. CASE i = 1
        <5>1. Head(run.todo) = c
          BY <1>1, <4>1, <4>2
        <5> QED
          BY <1>1, <5>1 DEF ChildrenCovered
      <4>3. CASE i # 1
        <5>1. i - 1 \in DOMAIN run'.todo /\ run'.todo[i - 1] = c
          BY <1>1, <2>3, <4>1, <4>3
        <5> QED
          BY <5>1
      <4> QED
        BY <4>2, <4>3
    <3> QED
      BY <1>1, <3>1, <3>2 DEF ChildrenCovered
  <2>7. ~outside => \A i \in DOMAIN compacts : compacts[i].facts = compacts[i].refs
    BY DEF BodiesHeld
  <2> QED
    BY <1>1, <2>1, <2>3, <2>5, <2>6, <2>7, MoveStep
<1> QED
  BY <1>2, <1>3

\* Evidence that is merged changes the revision of the target, never its body;
\* what is in the session agrees with what is stored.
LEMMA ChildApplyStep ==
    ASSUME CycleInv, NEW outcome \in {"APPLIED", "FAILED"}, ChildApply(outcome)
    PROVE  CycleInv'
<1> USE DEF CycleInv
<1> DEFINE rel == ChildRelation
           target == TargetOf[Head(run.todo)]
           merge == ~RequiresReview(rel) /\ results[Child] = None /\ outcome = "APPLIED"
           merged == [file[target] EXCEPT !.rev = @ + 1]
           out == CASE RequiresReview(rel) -> None
                    [] ~RequiresReview(rel) /\ results[Child] # None -> results[Child]
                    [] OTHER -> outcome
           row == IF merge THEN merged ELSE None
<1>1. /\ run.pc = "child" /\ run.todo # <<>> /\ run \in Runs
      /\ UNCHANGED <<indexed, plans, results, compacts, cp, outside, edits>>
  BY DEF ChildApply, TypeOK
<1>2. /\ Child \in PlanKeys /\ target \in Contexts
      /\ run.plan.children[Head(run.todo)] \in Verdicts
  BY <1>1, ChildType
<1>3. rel \in Verdicts /\ rel # None /\ (plans[Child] # None => rel = plans[Child])
  BY <1>2, CycleAssumption DEF ChildRelation, TypeOK
<1>4. /\ results[Child] \in Outcomes \cup {None} /\ outcome \in Outcomes /\ outcome # None
      /\ results[Child] # None => plans[Child] = rel /\ ~RequiresReview(rel)
  BY <1>2, <1>3, CycleAssumption DEF TypeOK, ResultsPlanned, Outcomes
<1>5. run' = [run EXCEPT !.pc = "commit", !.new = rel, !.row = row, !.outcome = out]
  BY DEF ChildApply, StoredResult
<1>6. /\ file' = IF merge THEN [file EXCEPT ![target] = merged] ELSE file
      /\ merges' = IF merge THEN [merges EXCEPT ![Child] = @ + 1] ELSE merges
  BY DEF ChildApply, StoredResult
<1> HIDE DEF rel, target
<1>7. /\ out \in Outcomes \cup {None} /\ (out = None <=> RequiresReview(rel))
      /\ results[Child] # None => out = results[Child]
  BY <1>3, <1>4
<1>8. IF merge THEN out = "APPLIED" /\ results[Child] # "APPLIED"
               ELSE out = "APPLIED" => results[Child] = "APPLIED"
  BY <1>3, <1>4, CycleAssumption DEF Outcomes
<1> HIDE DEF out, merge
<1>9. /\ file[target] \in Revisions
      /\ \A c \in Contexts : file[c] \in Revisions /\ indexed[c] \in Revisions
  BY <1>2 DEF TypeOK, Sources
<1>10. merged \in Revisions /\ merged.body = file[target].body
  BY <1>9 DEF Revisions
<1> HIDE DEF merged
<1>11. row \in Revisions \cup {None} /\ (row # None => row.body = file[target].body)
  BY <1>10
<1> HIDE DEF row
<1>12. /\ run' \in Runs /\ run'.pc = "commit" /\ run'.new = rel /\ run'.outcome = out
       /\ run'.row = row /\ run'.key = run.key /\ run'.plan = run.plan
       /\ run'.todo = run.todo /\ run'.done = run.done
  BY <1>1, <1>3, <1>5, <1>7, <1>11 DEF Runs, Pcs
<1>13. Child' = Child /\ TakenForDone' = TakenForDone
  BY <1>1, <1>12 DEF Child, TakenForDone
<1>14. /\ file' \in Sources
       /\ \A c \in Contexts : file'[c].body = file[c].body
  BY <1>2, <1>6, <1>9, <1>10 DEF TypeOK, Sources
<1>15. faults' \in 0 .. MaxFaults /\ faults' >= faults
  BY CycleAssumption DEF ChildApply, TypeOK
<1>16. /\ merges' \in [PlanKeys -> Nat]
       /\ \A p \in PlanKeys : merges'[p] = IF merge /\ p = Child THEN merges[p] + 1 ELSE merges[p]
  BY <1>2, <1>6 DEF TypeOK
<1>17. TypeOK'
  BY <1>1, <1>12, <1>14, <1>15, <1>16 DEF TypeOK
<1>18. BodiesBounded'
  BY <1>1, <1>14 DEF BodiesBounded
<1>19. RunShape' /\ ChildrenCovered'
  BY <1>1, <1>12 DEF RunShape, ChildrenCovered
<1>20. DoneBacked' /\ ResultsPlanned'
  BY <1>1, <1>13 DEF DoneBacked, Backed, ResultsPlanned
<1>21. SessionCoherent'
  BY <1>1, <1>3, <1>4, <1>7, <1>12, <1>13 DEF SessionCoherent, DoneBacked, Backed
<1>22. CheckpointsComplete'
  BY <1>1 DEF CheckpointsComplete
<1>23. MergesSettled'
  <2>1. SUFFICES ASSUME NEW p \in PlanKeys
                 PROVE  IF results[p] = "APPLIED" \/ (out = "APPLIED" /\ p = Child)
                        THEN merges'[p] \in 1 .. faults' + 1
                        ELSE merges'[p] \in 0 .. faults'
    BY <1>1, <1>12, <1>13 DEF MergesSettled
  <2>2. IF results[p] = "APPLIED" THEN merges[p] \in 1 .. faults + 1 ELSE merges[p] \in 0 .. faults
    BY <1>1 DEF MergesSettled
  <2>3. merges'[p] = IF merge /\ p = Child THEN merges[p] + 1 ELSE merges[p]
    BY <1>16
  <2>4. faults \in Nat /\ faults' \in Nat /\ faults' >= faults
    BY <1>15 DEF TypeOK
  <2>5. CASE p = Child
    BY <2>2, <2>3, <2>4, <2>5, <1>8
  <2>6. CASE p # Child
    BY <2>2, <2>3, <2>4, <2>6
  <2> QED
    BY <2>5, <2>6
<1>24. RowShape'
  <2>1. file[target].body <= edits
    BY <1>2 DEF BodiesBounded
  <2>2. ~outside => file[target].body = run.plan.sources[target].body
    BY <1>1, <1>2 DEF BodiesHeld
  <2> QED
    BY <1>1, <1>11, <1>12, <2>1, <2>2 DEF RowShape, target
<1>25. BodiesHeld'
  BY <1>1, <1>12, <1>14 DEF BodiesHeld
<1> QED
  BY <1>17, <1>18, <1>19, <1>20, <1>21, <1>22, <1>23, <1>24, <1>25

\* The commit adds to what is stored and changes nothing that is relied upon.
LEMMA ChildCommitStep ==
    ASSUME CycleInv, ChildCommit
    PROVE  CycleInv'
<1> USE DEF CycleInv
<1> DEFINE d0 == [plan |-> Child, result |-> run.outcome]
<1>1. /\ run.pc = "commit" /\ run.todo # <<>> /\ run \in Runs
      /\ plans' = [plans EXCEPT ![Child] = run.new]
      /\ results' = [results EXCEPT ![Child] = run.outcome]
      /\ run' = [run EXCEPT !.pc = "record", !.done = @ \cup {d0}]
      /\ UNCHANGED <<file, compacts, cp, merges, outside, edits, faults>>
  BY DEF ChildCommit, TypeOK, RunShape
<1>2. /\ Child \in PlanKeys /\ Child[1] = Head(run.todo)
      /\ TargetOf[Head(run.todo)] \in Contexts
  BY <1>1, ChildType
<1>3. /\ run.new \in Verdicts /\ run.new # None /\ run.outcome \in Outcomes \cup {None}
      /\ run.done \subseteq ChildResults
      /\ run.outcome = None <=> RequiresReview(run.new)
      /\ results[Child] # None => run.outcome = results[Child] /\ plans[Child] = run.new
      /\ \A d \in TakenForDone : d.plan = Child => plans[Child] = run.new
  BY <1>1 DEF SessionCoherent, Runs
<1>4. d0 \in ChildResults /\ d0.plan = Child /\ d0.result = run.outcome
  BY <1>2, <1>3 DEF ChildResults
<1> HIDE DEF d0
<1>5. /\ run' \in Runs /\ run'.pc = "record" /\ run'.key = run.key /\ run'.plan = run.plan
      /\ run'.todo = run.todo /\ run'.done = run.done \cup {d0} /\ run'.row = run.row
  BY <1>1, <1>3, <1>4 DEF Runs, Pcs
<1>6. /\ plans' \in [PlanKeys -> Verdicts \cup {None}]
      /\ results' \in [PlanKeys -> Outcomes \cup {None}]
      /\ plans'[Child] = run.new /\ results'[Child] = run.outcome
      /\ \A p \in PlanKeys : p # Child => plans'[p] = plans[p] /\ results'[p] = results[p]
  BY <1>1, <1>2, <1>3 DEF TypeOK
<1>7. TypeOK' /\ BodiesBounded' /\ BodiesHeld'
  <2> DEFINE target == TargetOf[Head(run.todo)]
  <2>1. /\ indexed' = IF run.row = None THEN indexed ELSE [indexed EXCEPT ![target] = run.row]
        /\ run.row \in Revisions \cup {None} /\ indexed \in Sources
    BY <1>1 DEF ChildCommit, TypeOK, Runs
  <2>2. run.row # None => /\ run.row.body <= edits
                          /\ ~outside => run.row.body = run.plan.sources[target].body
    BY DEF RowShape
  <2> HIDE DEF target
  <2>3. /\ indexed' \in Sources
        /\ \A c \in Contexts : \/ indexed'[c] = indexed[c]
                               \/ c = target /\ run.row # None /\ indexed'[c] = run.row
    BY <2>1 DEF Sources
  <2>4. TypeOK' /\ BodiesBounded'
    BY <1>1, <1>5, <1>6, <2>2, <2>3 DEF TypeOK, BodiesBounded
  <2>5. BodiesHeld'
    BY <1>1, <1>5, <2>2, <2>3 DEF BodiesHeld
  <2> QED
    BY <2>4, <2>5
<1>8. RunShape' /\ RowShape'
  BY <1>1, <1>5 DEF RunShape, RowShape
<1>9. ChildrenCovered'
  BY <1>1, <1>2, <1>4, <1>5 DEF ChildrenCovered
<1>10. \A d : d \in TakenForDone' => d \in TakenForDone \/ d = d0
  BY <1>1, <1>5 DEF TakenForDone
<1>11. \A d \in TakenForDone : d.plan \in PlanKeys
  BY DEF TakenForDone, TypeOK, Runs, Checkpoints, ChildResults
<1>12. DoneBacked'
  <2>1. SUFFICES ASSUME NEW d \in TakenForDone'
                 PROVE  Backed(d)'
    BY DEF DoneBacked
  <2>2. CASE d = d0
    BY <2>2, <1>3, <1>4, <1>6 DEF Backed
  <2>3. CASE d \in TakenForDone /\ d.plan # Child
    BY <2>3, <1>6, <1>11 DEF DoneBacked, Backed
  <2>4. CASE d \in TakenForDone /\ d.plan = Child
    <3>1. Backed(d) /\ plans[Child] = run.new
      BY <2>4, <1>3 DEF DoneBacked
    <3> QED
      BY <2>4, <3>1, <1>3, <1>6 DEF Backed
  <2> QED
    BY <2>2, <2>3, <2>4, <1>10
<1>13. ResultsPlanned'
  BY <1>3, <1>6 DEF ResultsPlanned
<1>14. SessionCoherent'
  BY <1>5 DEF SessionCoherent
<1>15. CheckpointsComplete'
  BY <1>1 DEF CheckpointsComplete
<1>16. MergesSettled'
  <2>1. SUFFICES ASSUME NEW p \in PlanKeys
                 PROVE  IF results'[p] = "APPLIED" THEN merges[p] \in 1 .. faults + 1
                                                   ELSE merges[p] \in 0 .. faults
    BY <1>1, <1>5 DEF MergesSettled
  <2>2. results[p] = "APPLIED" /\ p = Child => run.outcome = "APPLIED"
    BY <1>3, CycleAssumption DEF Outcomes
  <2>3. IF results[p] = "APPLIED" \/ (run.outcome = "APPLIED" /\ p = Child)
        THEN merges[p] \in 1 .. faults + 1 ELSE merges[p] \in 0 .. faults
    BY <1>1 DEF MergesSettled
  <2>4. results'[p] = IF p = Child THEN run.outcome ELSE results[p]
    BY <1>6
  <2> QED
    BY <2>2, <2>3, <2>4
<1> QED
  BY <1>7, <1>8, <1>9, <1>12, <1>13, <1>14, <1>15, <1>16

LEMMA ApplyAdmitStep ==
    ASSUME CycleInv, NEW k \in Keys, ApplyAdmit(k)
    PROVE  CycleInv'
<1> USE DEF CycleInv
<1> DEFINE plan == PlanNow
           x == [plan |-> plan, state |-> "ADMITTED", done |-> {},
                 sources |-> indexed, compact |-> 0, published |-> FALSE]
<1>1. PICK todo \in [1 .. Cardinality(Children) -> Children] :
        /\ Children = {todo[i] : i \in DOMAIN todo}
        /\ run' = [NoRun EXCEPT !.pc = "child", !.key = k, !.plan = plan, !.todo = todo]
  BY DEF ApplyAdmit
<1>2. /\ run.pc = "idle" /\ cp[k] = None /\ file = indexed
      /\ cp' = [cp EXCEPT ![k] = x]
      /\ UNCHANGED <<file, indexed, plans, results, compacts, merges, outside, edits, faults>>
  BY DEF ApplyAdmit, Admissible, LaneFree, Fresh
<1>3. /\ plan \in CyclePlans /\ plan.sources = indexed /\ DOMAIN plan.children = Children
  BY PlanNowType
<1> HIDE DEF plan
<1>4. x \in Checkpoints /\ x.state = "ADMITTED" /\ x.done = {}
  BY <1>3 DEF Checkpoints, TypeOK
<1> HIDE DEF x
<1>5. Cardinality(Children) \in Nat
  BY CycleAssumption, FS_Subset, FS_CardinalityType DEF Children
<1>6. todo \in Seq(Window)
  <2>1. Children \subseteq Window
    BY DEF Children
  <2>2. todo = [i \in 1 .. Cardinality(Children) |-> todo[i]]
        /\ \A i \in 1 .. Cardinality(Children) : todo[i] \in Window
    BY <1>1, <2>1
  <2> QED
    BY <1>5, <2>2
<1>7. /\ run' \in Runs /\ run'.pc = "child" /\ run'.key = k /\ run'.plan = plan
      /\ run'.todo = todo /\ run'.done = {} /\ run'.row = None
  BY <1>1, <1>3, <1>6, NoRunType DEF Runs, Pcs, NoRun
<1>8. /\ cp' \in [Keys -> Checkpoints \cup {None}]
      /\ \A q \in Keys : cp'[q] = cp[q] \/ (q = k /\ cp'[q] = x)
      /\ x # None /\ cp'[k] = x
  BY <1>2, <1>4, CycleAssumption DEF TypeOK
<1>10. TypeOK' /\ BodiesBounded'
  BY <1>2, <1>7, <1>8 DEF TypeOK, BodiesBounded
<1>11. RunShape'
  BY <1>3, <1>7 DEF RunShape
<1>12. ChildrenCovered'
  BY <1>1, <1>3, <1>7 DEF ChildrenCovered
<1>13. TakenForDone' \subseteq TakenForDone
  BY <1>4, <1>7, <1>8 DEF TakenForDone
<1>14. DoneBacked' /\ ResultsPlanned' /\ SessionCoherent'
  BY <1>2, <1>7, <1>13 DEF DoneBacked, Backed, ResultsPlanned, SessionCoherent
<1>15. CheckpointsComplete'
  BY <1>2, <1>4, <1>8 DEF CheckpointsComplete
<1>16. MergesSettled' /\ RowShape'
  BY <1>2, <1>7 DEF MergesSettled, RowShape
<1>17. BodiesHeld'
  BY <1>2, <1>3, <1>7 DEF BodiesHeld
<1> QED
  BY <1>10, <1>11, <1>12, <1>14, <1>15, <1>16, <1>17

-----------------------------------------------------------------------------
(* The theorems                                                            *)

LEMMA CycleInit ==
    ASSUME Init
    PROVE  CycleInv
<1> USE DEF Init
<1>1. run \in Runs /\ run.pc = "idle" /\ run.done = {} /\ run.row = None
  BY NoRunType
<1>2. /\ file \in Sources /\ indexed \in Sources /\ edits \in Bodies /\ faults \in 0 .. MaxFaults
      /\ \A c \in Contexts : file[c].body = 0
  BY CycleAssumption DEF Sources, Revisions, Bodies
<1>3. compacts \in Seq(Compacts) /\ DOMAIN compacts = {}
  OBVIOUS
<1>4. TypeOK
  BY <1>1, <1>2, <1>3 DEF TypeOK
<1>5. BodiesBounded
  BY <1>2 DEF BodiesBounded
<1>6. RunShape /\ ChildrenCovered /\ SessionCoherent
  BY <1>1 DEF RunShape, ChildrenCovered, SessionCoherent
<1>7. DoneBacked
  BY <1>1 DEF DoneBacked, TakenForDone
<1>8. ResultsPlanned /\ CheckpointsComplete
  BY DEF ResultsPlanned, CheckpointsComplete
<1>10. MergesSettled /\ RowShape
  BY <1>1, <1>2, CycleAssumption DEF MergesSettled, RowShape, Outcomes
<1>9. BodiesHeld
  BY <1>1, <1>3 DEF BodiesHeld
<1> QED
  BY <1>4, <1>5, <1>6, <1>7, <1>8, <1>9, <1>10 DEF CycleInv

LEMMA CycleNext ==
    ASSUME CycleInv, [Next]_vars
    PROVE  CycleInv'
<1>1. CASE UNCHANGED vars
  BY <1>1, TokenStep DEF vars
<1>2. ASSUME NEW k \in Keys, DryRun(k) PROVE CycleInv'
  BY <1>2, TokenStep DEF DryRun
<1>3. ASSUME NEW k \in Keys, ApplyReplay(k) PROVE CycleInv'
  BY <1>3, TokenStep DEF ApplyReplay
<1>4. CASE RunStep
  BY <1>4, ChildApplyStep, ChildCommitStep, ChildCheckpointStep, RefreshSourcesStep,
     CreateCompactStep, PublishStep, PublishReadbackStep, FinishStep DEF RunStep
<1> QED
  BY <1>1, <1>2, <1>3, <1>4, ApplyAdmitStep, PhaseFailsStep, EditStep, EditOutsideStep,
     RepairRawStep, ReindexStep, ScanStep, OtherCompactStep, CrashStep DEF Next

\* The invariant all others follow from: what the session, the checkpoint
\* files and the apply in progress say of each other.
THEOREM CycleInvariant == Spec => []CycleInv
<1>1. Init => CycleInv
  BY CycleInit
<1>2. CycleInv /\ [Next]_vars => CycleInv'
  BY CycleNext
<1> QED
  BY <1>1, <1>2, PTL DEF Spec

\* The variables keep their types.
THEOREM CycleTypeOK == Spec => []TypeOK
<1>1. CycleInv => TypeOK
  BY DEF CycleInv
<1> QED
  BY <1>1, CycleInvariant, PTL

\* Wherever the process dies, what a checkpoint file names is committed: the
\* plan of every child, its result or its pending review, and the Compact; a
\* COMPLETED one names every child (commit_projection before _save_checkpoint).
THEOREM CycleCheckpointBacked == Spec => []CheckpointBacked
<1>1. CycleInv => CheckpointBacked
  <2>1. SUFFICES ASSUME CycleInv, NEW k \in Keys, cp[k] # None
                 PROVE  /\ \A d \in cp[k].done : Backed(d)
                        /\ cp[k].state \in {"REVIEW_REQUIRED", "COMPLETED"} =>
                             cp[k].compact \in DOMAIN compacts
                        /\ cp[k].state = "COMPLETED" =>
                             \A c \in DOMAIN cp[k].plan.children :
                               \E d \in cp[k].done : d.plan[1] = c
    BY DEF CheckpointBacked, Backed
  <2>2. \A d \in cp[k].done : d \in TakenForDone
    BY <2>1 DEF TakenForDone
  <2> QED
    BY <2>1, <2>2 DEF CycleInv, DoneBacked, CheckpointsComplete
<1> QED
  BY <1>1, CycleInvariant, PTL

\* The evidence of a plan is merged once over all cycles and keys, but for one
\* merge more per failure or death, and an APPLIED result has its merge (apply
\* returns a stored result, which commit_projection has stored with the child).
THEOREM CycleMergedOnce == Spec => []MergedOnce
<1>1. CycleInv => MergedOnce
  <2>1. SUFFICES ASSUME CycleInv, NEW p \in PlanKeys
                 PROVE  merges[p] <= 1 + faults /\ (results[p] = "APPLIED" => merges[p] >= 1)
    BY DEF MergedOnce
  <2>2. faults \in Nat /\ merges[p] \in Nat
    BY <2>1, CycleAssumption DEF CycleInv, TypeOK
  <2> QED
    BY <2>1, <2>2 DEF CycleInv, MergesSettled
<1> QED
  BY <1>1, CycleInvariant, PTL

\* A CURRENT Compact states the facts of the sources it cites by hash, as long
\* as no note is edited without a lease during an apply.
THEOREM CycleCompactFaithful == Spec => []CompactFaithful
<1>1. CycleInv => CompactFaithful
  BY DEF CycleInv, BodiesHeld, CompactFaithful, CurrentCompacts
<1> QED
  BY <1>1, CycleInvariant, PTL
=============================================================================
