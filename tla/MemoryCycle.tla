---------------------------- MODULE MemoryCycle ----------------------------
(***************************************************************************)
(* The memory cycle: a dry run shows a plan and its hash, an apply with    *)
(* that hash executes the child reconciliation plans and publishes a       *)
(* Compact of the facts.  An apply holds the maintenance lane exclusively, *)
(* so saves wait for it; raw repairs, the owner of the vault, the scan of  *)
(* existing Contexts and the Compact service do not.  Every phase          *)
(* is preceded by a commit and a checkpoint file, between which the        *)
(* process may die.  A plan hash is modelled by what is hashed.            *)
(***************************************************************************)
EXTENDS Integers, Sequences, FiniteSets

CONSTANTS Window,       \* Contexts of the requested window
          Compared,     \* Contexts outside of it that recall compares them with
          TargetOf,     \* TargetOf[c]: the Context c is compared with
          Keys,         \* idempotency keys of cycles
          Classify,     \* Classify[c, body of c, body of its target]: the relation found
          MaxEdits,     \* edits of Contexts
          MaxCompacts,  \* Compacts
          MaxFaults,    \* crashes and failing phases
          None

Contexts == Window \cup Compared
Verdicts == {"UNRELATED", "SUPPORTS", "CONTRADICTS"}
Outcomes == {"APPLIED", "FAILED"}
Bodies == 0 .. MaxEdits
PlanKeys == Window \X Bodies

\* What is shown, stored in a checkpoint and published.
Revisions == [body : Bodies, rev : Nat]
Sources == [Contexts -> Revisions]
CyclePlans == [sources : Sources, current : SUBSET Nat,
               children : UNION {[C -> Verdicts] : C \in SUBSET Window}, safe : BOOLEAN]
ChildResults == [plan : PlanKeys, result : Outcomes \cup {None}]
Checkpoints == [plan : CyclePlans,
                state : {"ADMITTED", "PARTIAL", "REVIEW_REQUIRED", "COMPLETED"},
                done : SUBSET ChildResults, sources : Sources, compact : Nat,
                published : BOOLEAN]
Facts == [Window -> Bodies] \cup {<<>>}
Compacts == [status : {"DRAFT", "CURRENT", "SUPERSEDED"}, facts : Facts, refs : Facts]

ASSUME CycleAssumption ==
    /\ IsFiniteSet(Window)
    /\ TargetOf \in [Window -> Contexts]
    /\ \A c \in Window : TargetOf[c] # c
    /\ Classify \in [Window \X (0 .. MaxEdits) \X (0 .. MaxEdits) -> Verdicts]
    /\ {MaxEdits, MaxCompacts, MaxFaults} \subseteq Nat
    /\ None \notin Keys \cup Verdicts \cup Outcomes \cup Checkpoints \cup Revisions

VARIABLES file,      \* file[c]: body and frontmatter revision of the note
          indexed,   \* indexed[c]: what the index has of them
          plans,     \* committed plans: <<Context, body>> -> relation
          results,   \* committed results of plans
          compacts,  \* Compacts in the order of their creation
          cp,        \* checkpoint files
          token,     \* the plan a client has been shown under each key
          run,       \* the apply that holds the lane
          merges,    \* merges[p]: how often plan p has been merged into its target's file
          outside,   \* a note has been edited, without a lease, during an apply
          edits, faults

vars == <<file, indexed, plans, results, compacts, cp, token, run, merges,
          outside, edits, faults>>

NoRun == [pc |-> "idle", key |-> None, plan |-> None, todo |-> <<>>, new |-> None,
          outcome |-> None, row |-> None, done |-> {}, post |-> None, compact |-> 0]

Init ==
    /\ file = [c \in Contexts |-> [body |-> 0, rev |-> 0]]
    /\ indexed = file
    /\ plans = [p \in PlanKeys |-> None]
    /\ results = [p \in PlanKeys |-> None]
    /\ compacts = <<>>
    /\ cp = [k \in Keys |-> None]
    /\ token = [k \in Keys |-> None]
    /\ run = NoRun
    /\ merges = [p \in PlanKeys |-> 0]
    /\ outside = FALSE
    /\ edits = 0
    /\ faults = 0

RequiresReview(rel) == rel = "CONTRADICTS"
PlanKey(c) == <<c, indexed[c].body>>
CurrentCompacts == {i \in DOMAIN compacts : compacts[i].status = "CURRENT"}
Fresh == file = indexed

\* What classification says of a Context now: it compares what is indexed.
Verdict(c) == Classify[c, indexed[c].body, indexed[TargetOf[c]].body]

-----------------------------------------------------------------------------
(* Preview                                                                 *)

\* A child plan for each Context with a meaningful decision.
Children == {c \in Window : Verdict(c) # "UNRELATED"}

\* _preview: what semantic_plan_hash covers.  A Compact is safe to publish
\* when no child requires review.
PlanNow ==
    [sources |-> indexed,
     current |-> CurrentCompacts,
     children |-> [c \in Children |-> Verdict(c)],
     safe |-> \A c \in Children : ~RequiresReview(Verdict(c))]

\* The source fence refuses a note whose file and index disagree.
DryRun(k) ==
    /\ Fresh
    /\ token' = [token EXCEPT ![k] = PlanNow]
    /\ UNCHANGED <<file, indexed, plans, results, compacts, cp, run, merges,
                   outside, edits, faults>>

-----------------------------------------------------------------------------
(* Apply                                                                   *)

\* A variant of LaneFree for operations that take no lease.
LaneIgnored == TRUE

\* execute: an apply holds the lane exclusively; others of the interface that
\* change notes wait for it.
LaneFree == run.pc = "idle"

Checkpoint(state) ==
    [plan |-> run.plan, state |-> state, done |-> run.done,
     sources |-> run.plan.sources, compact |-> run.compact,
     published |-> run.pc = "retrieval" /\ run.plan.safe]

SaveCheckpoint(c) == cp' = [cp EXCEPT ![run.key] = c]

HashesMatch(compact, sources) ==
    /\ Cardinality(DOMAIN compact.refs) = Cardinality(DOMAIN sources)
    /\ \A c \in DOMAIN compact.refs : compact.refs[c] = sources[c].body

\* _verify_checkpoint: the sources, child plans and results, and the Compact
\* are still what the checkpoint says.
Verified(k) ==
    /\ cp[k].state # "ADMITTED"
    /\ Fresh /\ indexed = cp[k].sources
    /\ \A d \in cp[k].done :
         /\ plans[d.plan] # None
         /\ IF d.result = None THEN RequiresReview(plans[d.plan])
                               ELSE results[d.plan] # None
    /\ cp[k].compact \in DOMAIN compacts
    /\ cp[k].published =>
         /\ HashesMatch(compacts[cp[k].compact], cp[k].sources)
         /\ CurrentCompacts = {cp[k].compact}

\* A key that has a checkpoint is replayed, or refused: nothing is repeated.
ApplyReplay(k) ==
    /\ LaneFree /\ token[k] # None /\ cp[k] # None
    /\ token[k] = cp[k].plan /\ Verified(k)
    /\ token' = [token EXCEPT ![k] = None]
    /\ UNCHANGED <<file, indexed, plans, results, compacts, cp, run, merges,
                   outside, edits, faults>>

\* Only a key without a checkpoint is merges, and a plan that is no longer
\* what a preview shows is stale.
Admissible(k) ==
    /\ LaneFree /\ token[k] # None /\ cp[k] = None
    /\ Fresh /\ PlanNow = token[k]

ApplyAdmit(k) ==
    /\ Admissible(k)
    /\ \E todo \in [1 .. Cardinality(Children) -> Children] :
         /\ Children = {todo[i] : i \in DOMAIN todo}
         /\ run' = [NoRun EXCEPT !.pc = "child", !.key = k, !.plan = PlanNow, !.todo = todo]
    /\ cp' = [cp EXCEPT ![k] = [plan |-> PlanNow, state |-> "ADMITTED", done |-> {},
                                sources |-> indexed, compact |-> 0, published |-> FALSE]]
    /\ UNCHANGED <<file, indexed, plans, results, compacts, token, merges, outside, edits,
                   faults>>

Child == <<Head(run.todo), run.plan.sources[Head(run.todo)].body>>

\* The relation of the child: that of the stored plan, if its key has one.
ChildRelation == IF plans[Child] # None THEN plans[Child]
                                        ELSE run.plan.children[Head(run.todo)]

\* A variant of StoredResult: each cycle remembers its own children.
StoredResultOfCycle ==
    IF \E d \in run.done : d.plan = Child THEN results[Child] ELSE None

\* apply: the result that is stored for the plan, by whichever cycle, is returned.
StoredResult == results[Child]

\* Get or save the plan and, unless it requires review, apply it: without a
\* stored result its evidence is merged into the target's file.  The rows,
\* those of the plan, of its result and of the target, are in the session.
ChildApply(outcome) ==
    /\ run.pc = "child" /\ run.todo # <<>>
    /\ outcome = "FAILED" => faults < MaxFaults
    /\ LET rel == ChildRelation
           stored == StoredResult
           target == TargetOf[Head(run.todo)]
           merge == ~RequiresReview(rel) /\ stored = None /\ outcome = "APPLIED"
           merged == [file[target] EXCEPT !.rev = @ + 1]
       IN /\ file' = IF merge THEN [file EXCEPT ![target] = merged] ELSE file
          /\ merges' = IF merge THEN [merges EXCEPT ![Child] = @ + 1] ELSE merges
          /\ run' = [run EXCEPT !.pc = "commit", !.new = rel,
                       !.row = IF merge THEN merged ELSE None,
                       !.outcome = CASE RequiresReview(rel) -> None
                                     [] ~RequiresReview(rel) /\ stored # None -> stored
                                     [] OTHER -> outcome]
    /\ faults' = IF outcome = "FAILED" THEN faults + 1 ELSE faults
    /\ UNCHANGED <<indexed, plans, results, compacts, cp, token, outside, edits>>

\* A variant of ChildCommit that leaves the session open.
ChildCommitForgotten ==
    /\ run.pc = "commit"
    /\ run' = [run EXCEPT !.pc = "record",
                          !.done = @ \cup {[plan |-> Child, result |-> run.outcome]}]
    /\ UNCHANGED <<file, indexed, plans, results, compacts, cp, token, merges, outside, edits,
                   faults>>

\* commit_projection: the rows of the session are committed together ...
ChildCommit ==
    /\ run.pc = "commit"
    /\ plans' = [plans EXCEPT ![Child] = run.new]
    /\ results' = [results EXCEPT ![Child] = run.outcome]
    /\ indexed' = IF run.row = None THEN indexed
                  ELSE [indexed EXCEPT ![TargetOf[Head(run.todo)]] = run.row]
    /\ run' = [run EXCEPT !.pc = "record",
                          !.done = @ \cup {[plan |-> Child, result |-> run.outcome]}]
    /\ UNCHANGED <<file, compacts, cp, token, merges, outside, edits, faults>>

\* ... and only then the checkpoint; a child that was not applied ends the
\* cycle.
ChildCheckpoint ==
    /\ run.pc = "record"
    /\ LET failed == run.outcome \notin {"APPLIED", None}
       IN /\ SaveCheckpoint(Checkpoint(IF failed THEN "PARTIAL" ELSE "ADMITTED"))
          /\ run' = IF failed THEN NoRun
                    ELSE [run EXCEPT !.pc = "child", !.todo = Tail(@), !.new = None,
                                     !.outcome = None, !.row = None]
    /\ UNCHANGED <<file, indexed, plans, results, compacts, token, merges,
                   outside, edits, faults>>

\* An exception of any phase: rollback and a PARTIAL checkpoint.
PhaseFails ==
    /\ run.pc \in {"child", "commit", "record", "compact", "publish", "readback"}
    /\ faults < MaxFaults
    /\ faults' = faults + 1
    /\ SaveCheckpoint(Checkpoint("PARTIAL"))
    /\ run' = NoRun
    /\ UNCHANGED <<file, indexed, plans, results, compacts, token, merges, outside, edits>>

\* refresh after the children: every source must be indexed as it is.
RefreshSources ==
    /\ run.pc = "child" /\ run.todo = <<>>
    /\ IF Fresh
       THEN run' = [run EXCEPT !.pc = "compact", !.post = indexed] /\ UNCHANGED cp
       ELSE run' = NoRun /\ SaveCheckpoint(Checkpoint("PARTIAL"))
    /\ UNCHANGED <<file, indexed, plans, results, compacts, token, merges,
                   outside, edits, faults>>

\* compact_payload_for_sources and create: the facts of the preview with the
\* hashes of the refreshed sources, unless there is such a Compact already.
CreateCompact ==
    /\ run.pc = "compact"
    /\ LET new == [status |-> "DRAFT",
                   facts |-> [c \in Window |-> run.plan.sources[c].body],
                   refs |-> [c \in Window |-> run.post[c].body]]
           same == {i \in DOMAIN compacts : /\ compacts[i].facts = new.facts
                                            /\ compacts[i].refs = new.refs}
       IN IF same # {}
          THEN \E i \in same : /\ run' = [run EXCEPT !.pc = "publish", !.compact = i]
                               /\ UNCHANGED compacts
          ELSE /\ Len(compacts) < MaxCompacts
               /\ compacts' = Append(compacts, new)
               /\ run' = [run EXCEPT !.pc = "publish", !.compact = Len(compacts) + 1]
    /\ UNCHANGED <<file, indexed, plans, results, cp, token, merges, outside, edits,
                   faults>>

Promote(i) ==
    [j \in DOMAIN compacts |->
       IF j = i THEN [compacts[j] EXCEPT !.status = "CURRENT"]
       ELSE IF compacts[j].status = "CURRENT"
            THEN [compacts[j] EXCEPT !.status = "SUPERSEDED"] ELSE compacts[j]]

\* A safe Compact whose references match the sources becomes CURRENT.
Publish ==
    /\ run.pc = "publish"
    /\ CASE ~run.plan.safe ->
              run' = [run EXCEPT !.pc = "retrieval"] /\ UNCHANGED <<compacts, cp>>
         [] run.plan.safe /\ HashesMatch(compacts[run.compact], run.post) ->
              /\ compacts' = Promote(run.compact)
              /\ run' = [run EXCEPT !.pc = "readback"]
              /\ UNCHANGED cp
         [] OTHER ->
              SaveCheckpoint(Checkpoint("PARTIAL")) /\ run' = NoRun /\ UNCHANGED compacts
    /\ UNCHANGED <<file, indexed, plans, results, token, merges, outside, edits, faults>>

\* It must be the only one.
PublishReadback ==
    /\ run.pc = "readback"
    /\ IF CurrentCompacts = {run.compact}
       THEN run' = [run EXCEPT !.pc = "retrieval"] /\ UNCHANGED cp
       ELSE SaveCheckpoint(Checkpoint("PARTIAL")) /\ run' = NoRun
    /\ UNCHANGED <<file, indexed, plans, results, compacts, token, merges,
                   outside, edits, faults>>

\* _verify_retrieval and the final checkpoint, with the refreshed sources.
Finish(found) ==
    /\ run.pc = "retrieval"
    /\ ~found => faults < MaxFaults
    /\ faults' = IF found THEN faults ELSE faults + 1
    /\ LET review == ~run.plan.safe \/ \E d \in run.done : d.result = None
           state == IF ~found THEN "PARTIAL"
                    ELSE IF review THEN "REVIEW_REQUIRED" ELSE "COMPLETED"
       IN SaveCheckpoint([Checkpoint(state) EXCEPT !.sources = run.post])
    /\ run' = NoRun
    /\ UNCHANGED <<file, indexed, plans, results, compacts, token, merges, outside, edits>>

-----------------------------------------------------------------------------
(* Environment                                                             *)

\* A save: file and index, in the lane.
Edit(c) ==
    /\ LaneFree /\ edits < MaxEdits
    /\ edits' = edits + 1
    /\ file' = [file EXCEPT ![c].body = @ + 1]
    /\ indexed' = [indexed EXCEPT ![c] = file'[c]]
    /\ UNCHANGED <<plans, results, compacts, cp, token, run, merges, outside, faults>>

\* The owner of the vault edits a file; a reindex, in the lane, follows later.
EditOutside(c) ==
    /\ edits < MaxEdits
    /\ edits' = edits + 1
    /\ file' = [file EXCEPT ![c].body = @ + 1]
    /\ outside' = (outside \/ run.pc # "idle")
    /\ UNCHANGED <<indexed, plans, results, compacts, cp, token, run, merges, faults>>

\* repair_note_raw takes no lease.  It waits for the row of a target that is
\* about to be committed.
RepairRaw(c) ==
    /\ edits < MaxEdits /\ file[c] = indexed[c]
    /\ edits' = edits + 1
    /\ file' = [file EXCEPT ![c].body = @ + 1]
    /\ indexed' = [indexed EXCEPT ![c] = file'[c]]
    /\ outside' = (outside \/ run.pc # "idle")
    /\ UNCHANGED <<plans, results, compacts, cp, token, run, merges, faults>>

Reindex ==
    /\ LaneFree /\ ~Fresh
    /\ indexed' = file
    /\ UNCHANGED <<file, plans, results, compacts, cp, token, run, merges, outside, edits, faults>>

\* The scan of existing Contexts stores the plan of a Context.
Scan(c) ==
    /\ c \in Children
    /\ plans[PlanKey(c)] = None
    /\ plans' = [plans EXCEPT ![PlanKey(c)] = Verdict(c)]
    /\ UNCHANGED <<file, indexed, results, compacts, cp, token, run, merges,
                   outside, edits, faults>>

\* The Compact service makes another Compact CURRENT.
OtherCompact ==
    /\ Len(compacts) < MaxCompacts
    /\ compacts' = LET i == Len(compacts) + 1
                       new == [status |-> "CURRENT", facts |-> <<>>, refs |-> <<>>]
                   IN Append(Promote(i), new)
    /\ UNCHANGED <<file, indexed, plans, results, cp, token, run, merges, outside, edits,
                   faults>>

Crash ==
    /\ run.pc # "idle" /\ faults < MaxFaults
    /\ faults' = faults + 1
    /\ run' = NoRun
    /\ UNCHANGED <<file, indexed, plans, results, compacts, cp, token, merges, outside, edits>>

RunStep ==
    \/ \E outcome \in {"APPLIED", "FAILED"} : ChildApply(outcome)
    \/ ChildCommit \/ ChildCheckpoint \/ RefreshSources \/ CreateCompact
    \/ Publish \/ PublishReadback
    \/ \E found \in BOOLEAN : Finish(found)

Next ==
    \/ \E k \in Keys : DryRun(k) \/ ApplyReplay(k) \/ ApplyAdmit(k)
    \/ RunStep
    \/ PhaseFails
    \/ \E c \in Contexts : Edit(c) \/ EditOutside(c) \/ RepairRaw(c)
    \/ Reindex
    \/ \E c \in Window : Scan(c)
    \/ OtherCompact
    \/ Crash

Spec == Init /\ [][Next]_vars

-----------------------------------------------------------------------------
(* Properties                                                              *)

Pcs == {"idle", "child", "commit", "record", "compact", "publish", "readback", "retrieval"}
Runs == [pc : Pcs, key : Keys \cup {None}, plan : CyclePlans \cup {None}, todo : Seq(Window),
         new : Verdicts \cup {None}, outcome : Outcomes \cup {None}, row : Revisions \cup {None},
         done : SUBSET ChildResults, post : Sources \cup {None}, compact : Nat]

\* The types of the variables.
TypeOK ==
    /\ file \in Sources /\ indexed \in Sources
    /\ plans \in [PlanKeys -> Verdicts \cup {None}]
    /\ results \in [PlanKeys -> Outcomes \cup {None}]
    /\ compacts \in Seq(Compacts)
    /\ cp \in [Keys -> Checkpoints \cup {None}]
    /\ run \in Runs
    /\ merges \in [PlanKeys -> Nat]
    /\ outside \in BOOLEAN
    /\ edits \in Bodies
    /\ faults \in 0 .. MaxFaults

\* What a checkpoint file names is committed, wherever the process dies: the
\* plan of every child, its result, or the review it waits for, and the
\* Compact (commit_projection before each _save_checkpoint).
CheckpointBacked ==
    \A k \in Keys : cp[k] # None =>
      /\ \A d \in cp[k].done :
           /\ plans[d.plan] # None
           /\ IF d.result = None THEN RequiresReview(plans[d.plan])
                                 ELSE results[d.plan] = d.result
      /\ cp[k].state \in {"REVIEW_REQUIRED", "COMPLETED"} => cp[k].compact \in DOMAIN compacts
      /\ cp[k].state = "COMPLETED" =>
           \A c \in DOMAIN cp[k].plan.children : \E d \in cp[k].done : d.plan[1] = c

\* The evidence of a plan is merged once, whichever keys execute it and however
\* often: once more only for a failure or a death that can have come between
\* the write of the file and the commit of the result; and a committed result
\* APPLIED is never without a merge (apply returns the stored result; _apply
\* commits it with the child, before the next phase can fail).
MergedOnce ==
    \A p \in PlanKeys : /\ merges[p] <= 1 + faults
                        /\ results[p] = "APPLIED" => merges[p] >= 1

\* The facts of a Compact that a cycle made CURRENT are those of the sources
\* it cites by hash, as long as no note is edited without a lease meanwhile
\* (compact_payload_for_sources combines the facts of the preview with hashes
\* that are read after the children).
CompactFaithful ==
    ~outside => \A i \in CurrentCompacts : compacts[i].facts = compacts[i].refs

\* The same whatever is edited during an apply.
CurrentFaithful == \A i \in CurrentCompacts : compacts[i].facts = compacts[i].refs

\* Every child is executed with the relation the client has approved.
ExecutesApproved ==
    run.pc \in {"commit", "record"} => run.new = run.plan.children[Head(run.todo)]

\* A cycle that was shown as safe and during which nothing fails or changes
\* completes.
SafeCompletes ==
    \A k \in Keys : /\ cp[k] # None /\ cp[k].plan.safe /\ faults = 0 /\ ~outside
                    /\ \A i \in DOMAIN compacts : compacts[i].facts # <<>>
                    => cp[k].state # "PARTIAL"

-----------------------------------------------------------------------------
(* The inductive invariant of the proofs, in parts.                        *)

\* An edit adds one to the body of a note, which the index follows.
BodiesBounded == \A c \in Contexts : file[c].body <= edits /\ indexed[c].body <= edits

\* What an apply in progress has at hand.
RunShape ==
    /\ run.pc # "idle" => run.key \in Keys /\ run.plan \in CyclePlans
    /\ run.pc \in {"commit", "record"} => run.todo # <<>>
    /\ run.pc \in {"compact", "publish", "readback", "retrieval"} => run.todo = <<>> /\ run.post \in Sources
    /\ run.pc \in {"publish", "readback", "retrieval"} => run.compact \in DOMAIN compacts

\* The children that are left to do are children of the plan; the others are done.
ChildrenCovered ==
    run.pc # "idle" =>
      /\ \A i \in DOMAIN run.todo : run.todo[i] \in DOMAIN run.plan.children
      /\ \A c \in DOMAIN run.plan.children :
           (\E i \in DOMAIN run.todo : run.todo[i] = c) \/ (\E d \in run.done : d.plan[1] = c)
      /\ run.pc = "record" => \E d \in run.done : d.plan[1] = Head(run.todo)

Backed(d) ==
    /\ plans[d.plan] # None
    /\ IF d.result = None THEN RequiresReview(plans[d.plan]) ELSE results[d.plan] = d.result

\* What a checkpoint or the apply in progress takes for done.
TakenForDone == run.done \cup UNION {cp[k].done : k \in {q \in Keys : cp[q] # None}}

DoneBacked == \A d \in TakenForDone : Backed(d)

\* A cycle that has come to its end names its Compact and all of its children.
CheckpointsComplete ==
    \A k \in Keys : cp[k] # None =>
      /\ cp[k].state \in {"REVIEW_REQUIRED", "COMPLETED"} => cp[k].compact \in DOMAIN compacts
      /\ cp[k].state = "COMPLETED" =>
           \A c \in DOMAIN cp[k].plan.children : \E d \in cp[k].done : d.plan[1] = c

\* Only a plan that needs no review has a result.
ResultsPlanned ==
    \A p \in PlanKeys : results[p] # None => plans[p] # None /\ ~RequiresReview(plans[p])

\* What the session is about to commit is what is stored already, if anything
\* that is relied upon is.
SessionCoherent ==
    run.pc = "commit" =>
      /\ run.new # None /\ (run.outcome = None <=> RequiresReview(run.new))
      /\ results[Child] # None => run.outcome = results[Child] /\ plans[Child] = run.new
      /\ \A d \in TakenForDone : d.plan = Child => plans[Child] = run.new

\* A merge is settled by a committed result, or about to be; every other one
\* was lost to a failure.
MergesSettled ==
    \A p \in PlanKeys :
      IF results[p] = "APPLIED" \/ (run.pc = "commit" /\ run.outcome = "APPLIED" /\ p = Child)
      THEN merges[p] \in 1 .. faults + 1
      ELSE merges[p] \in 0 .. faults

\* The row of the session is that of a file as it was in this apply.
RowShape ==
    run.row # None =>
      /\ run.pc \in {"commit", "record"} /\ run.row.body <= edits
      /\ ~outside => run.row.body = run.plan.sources[TargetOf[Head(run.todo)]].body

\* Unless a note is edited without a lease, an apply works on the bodies of its plan.
BodiesHeld ==
    ~outside =>
      /\ run.pc # "idle" => \A c \in Contexts : /\ file[c].body = run.plan.sources[c].body
                                                /\ indexed[c].body = run.plan.sources[c].body
      /\ run.pc \in {"compact", "publish", "readback", "retrieval"} =>
           \A c \in Contexts : run.post[c].body = run.plan.sources[c].body
      /\ \A i \in DOMAIN compacts : compacts[i].facts = compacts[i].refs

CycleInv ==
    /\ TypeOK /\ BodiesBounded /\ RunShape /\ ChildrenCovered
    /\ DoneBacked /\ ResultsPlanned /\ SessionCoherent /\ CheckpointsComplete
    /\ MergesSettled /\ RowShape /\ BodiesHeld
=============================================================================
