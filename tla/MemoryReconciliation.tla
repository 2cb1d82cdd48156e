------------------------ MODULE MemoryReconciliation ------------------------
(***************************************************************************)
(* Reconciliation of a memory candidate with the Contexts of the vault.  A *)
(* plan is stored once per idempotency key and applied by HTTP requests    *)
(* that take no lease: each writes Markdown files, durable at once, and    *)
(* rows of its own session, which become visible together when the request *)
(* commits.  A step ends where the code awaits.  Stewards review and       *)
(* resolve conflicts; a scan of existing Contexts adds plans and temporal  *)
(* rows.                                                                   *)
(***************************************************************************)
EXTENDS Integers, Sequences

CONSTANTS Plans,          \* idempotency keys; a plan is named by its key
          Contexts,       \* ids of Context notes
          Existing,       \* Contexts there from the start
          Candidates,     \* assignments of a candidate, and its note, to each plan
          DecisionLists,  \* what recall and classification may come up with
          Requests,       \* HTTP requests
          Late,           \* requests there are only when none overlap
          Kinds,          \* kinds of request: subset of RequestKinds
          MaxErrors,      \* failures of the vault or the database, crashes
          NoRow, NoNote, NoPlan  \* absent row, note and plan

RequestKinds == {"apply", "review", "resolve", "scan"}
Relations == {"DUPLICATE", "CONTRADICTS", "SUPERSEDES", "SUPPORTS", "EXTENDS",
              "UNKNOWN", "UNRELATED"}


\* A confidence is a share of one, in percent.
MaxConfidence == 100
Decisions == [relation : Relations, context : Contexts, confidence : 0 .. MaxConfidence]

\* What matters of a note's frontmatter, and of the rows of the tables.
Notes == [refs : SUBSET Plans, supersedes : Contexts \cup {NoNote},
          supersededBy : Contexts \cup {NoNote}, conflicts : SUBSET Plans]
ResultRows == [status : {"APPLIED", "PARTIAL", "FAILED"}]
RelationRows == [candidate : Contexts]
ConflictRows == [id : Plans, set : Plans, status : {"OPEN", "REVIEWING", "RESOLVED"}]
TemporalRows == [current : BOOLEAN, supersededBy : SUBSET Contexts, conflicts : SUBSET Plans]
IndexRows == [by : Contexts \cup {NoNote}]

ASSUME ReconciliationAssumption ==
    /\ Existing \subseteq Contexts
    /\ Candidates \subseteq [Plans -> Contexts]
    /\ Late \subseteq Requests
    /\ Kinds \subseteq RequestKinds
    /\ MaxErrors \in Nat
    /\ DecisionLists \subseteq Seq(Decisions)
    /\ NoRow \notin ResultRows \cup RelationRows \cup ConflictRows
    /\ NoRow \notin TemporalRows \cup IndexRows \cup Seq(Decisions)
    /\ NoNote \notin Contexts \cup Notes
    /\ NoPlan \notin Plans

VARIABLES note,      \* the Markdown file of each Context
          db,        \* committed rows of the tables, by key; a row of plans
                     \* holds the decisions, in the order of recall
          sess,      \* rows a request has written and not yet committed
          req,       \* the requests
          overlap,   \* requests may run at the same time
          candidate, \* candidate[p]: the candidate of plan p, which names its note
          approved,  \* plans a Memory Steward has approved
          errors     \* failures so far

vars == <<note, db, sess, req, overlap, candidate, approved, errors>>

-----------------------------------------------------------------------------
(* Policy                                                                  *)

\* _RELATION_PRIORITY and select_primary_decision: the first of the decisions
\* with the highest priority and, among those, the highest confidence.
Priority(rel) ==
    CASE rel = "DUPLICATE"   -> 70
      [] rel = "CONTRADICTS" -> 60
      [] rel = "SUPERSEDES"  -> 50
      [] rel = "SUPPORTS"    -> 40
      [] rel = "EXTENDS"     -> 30
      [] rel = "UNKNOWN"     -> 20
      [] rel = "UNRELATED"   -> 10

Weaker(d, e) ==
    \/ Priority(d.relation) < Priority(e.relation)
    \/ Priority(d.relation) = Priority(e.relation) /\ d.confidence < e.confidence

SelectPrimary(ds) ==
    ds[CHOOSE i \in DOMAIN ds :
         /\ \A j \in DOMAIN ds : ~Weaker(ds[i], ds[j])
         /\ \A j \in 1 .. i - 1 : Weaker(ds[j], ds[i])]

PrimaryRelation(ds) ==
    IF ds = <<>> THEN "UNRELATED" ELSE SelectPrimary(ds).relation

ActionsFor(rel) ==
    CASE rel = "DUPLICATE"   -> {"MERGE_EVIDENCE", "NOOP"}
      [] rel = "SUPPORTS"    -> {"MERGE_EVIDENCE", "CREATE_RELATION"}
      [] rel = "EXTENDS"     -> {"CREATE_CONTEXT", "CREATE_RELATION"}
      [] rel = "CONTRADICTS" -> {"CREATE_CONTEXT", "CREATE_RELATION",
                                 "CREATE_CONFLICT_SET", "QUEUE_REVIEW"}
      [] rel = "SUPERSEDES"  -> {"CREATE_CONTEXT", "CREATE_RELATION",
                                 "MARK_SUPERSEDED", "QUEUE_REVIEW"}
      [] rel = "UNKNOWN"     -> {"CREATE_CONTEXT", "PRESERVE_CANDIDATE", "QUEUE_REVIEW"}
      [] rel = "UNRELATED"   -> {"CREATE_CONTEXT"}

RequiresReview(rel) == rel \in {"CONTRADICTS", "SUPERSEDES", "UNKNOWN"}

PlanOf(p) == db[<<"plan", p>>]
RelationOf(p) == PrimaryRelation(PlanOf(p))
Has(p, action) == action \in ActionsFor(RelationOf(p))

\* primary_decision: apply takes the first decision of the primary relation.
Target(p) ==
    LET ds == PlanOf(p)
        i == CHOOSE i \in DOMAIN ds :
               /\ ds[i].relation = RelationOf(p)
               /\ \A j \in 1 .. i - 1 : ds[j].relation # RelationOf(p)
    IN ds[i].context

\* The Context the actions of the plan name, which a reviewer is shown.
ReviewedTarget(p) == SelectPrimary(PlanOf(p)).context

\* conflict_ids: the conflict set of a plan is named by the plan.
ConflictIds(p) == IF RelationOf(p) = "CONTRADICTS" THEN {p} ELSE {}

-----------------------------------------------------------------------------
(* Sessions                                                                *)

ResultRow(p) == <<"result", p>>
RelationRow(s, t, rel) == <<"relation", s, t, rel>>
ConflictRow(c) == <<"conflict", c>>
PlanRow(p) == <<"plan", p>>
TemporalRow(c) == <<"temporal", c>>
IndexRow(c) == <<"index", c>>

RowKeys == {ResultRow(p) : p \in Plans} \cup {PlanRow(p) : p \in Plans}
           \cup {RelationRow(s, t, rel) : s, t \in Contexts, rel \in Relations}
           \cup {ConflictRow(c) : c \in Contexts}
           \cup {TemporalRow(c) : c \in Contexts}
           \cup {IndexRow(c) : c \in Contexts}

\* The values of the row with key k.
RowsOf(k) ==
    CASE k[1] = "result"   -> ResultRows
      [] k[1] = "plan"     -> Seq(Decisions)
      [] k[1] = "relation" -> RelationRows
      [] k[1] = "conflict" -> ConflictRows
      [] k[1] = "temporal" -> TemporalRows
      [] k[1] = "index"    -> IndexRows

View(a, k) == IF k \in DOMAIN sess[a] THEN sess[a][k] ELSE db[k]

\* A row another session has written is locked until that session ends.
Free(a, k) == \A b \in Requests \ {a} : k \notin DOMAIN sess[b]

\* The rows of f, and those of g that f does not replace.
Over(f, g) == [k \in DOMAIN f \cup DOMAIN g |-> IF k \in DOMAIN f THEN f[k] ELSE g[k]]

Put(a, k, v) ==
    /\ Free(a, k)
    /\ sess' = [sess EXCEPT ![a] = Over([x \in {k} |-> v], @)]

Empty == [k \in {} |-> NoRow]

NoteOf(refs, of, conflicts) ==
    [refs |-> refs, supersedes |-> of, supersededBy |-> NoNote, conflicts |-> conflicts]
Fresh == NoteOf({}, NoNote, {})
Overlay(current, by, conflicts) ==
    [current |-> current, supersededBy |-> by, conflicts |-> conflicts]

Idle == [pc |-> "idle", plan |-> NoPlan, changed |-> FALSE, outcome |-> "APPLIED",
         after |-> "", snap |-> NoNote, base |-> NoRow, ctx |-> NoNote]

Init ==
    /\ note = [c \in Contexts |-> IF c \in Existing THEN Fresh ELSE NoNote]
    /\ db = [k \in RowKeys |->
               IF \E c \in Existing : k = IndexRow(c) THEN [by |-> NoNote] ELSE NoRow]
    /\ sess = [a \in Requests |-> Empty]
    /\ overlap \in BOOLEAN
    /\ candidate \in Candidates
    /\ req = [a \in Requests |->
                IF overlap /\ a \in Late THEN [Idle EXCEPT !.pc = "done"] ELSE Idle]
    /\ approved = {}
    /\ errors = 0

Active(a) == req[a].pc \notin {"idle", "done"}
MayStart(a) == req[a].pc = "idle" /\ (overlap \/ \A b \in Requests : ~Active(b))
Goto(a, pc) == req' = [req EXCEPT ![a].pc = pc]
Done(a) == req' = [req EXCEPT ![a] = [Idle EXCEPT !.pc = "done"]]

\* Recall finds Contexts that are indexed.
Recalled(ds) == \A i \in DOMAIN ds : db[IndexRow(ds[i].context)] # NoRow

\* preview: an idempotency key that has a plan keeps it.
Preview(p, ds) ==
    /\ Recalled(ds)
    /\ db[PlanRow(p)] = NoRow
    /\ \A a \in Requests : PlanRow(p) \notin DOMAIN sess[a]
    /\ db' = [db EXCEPT ![PlanRow(p)] = ds]
    /\ UNCHANGED <<note, sess, req, overlap, candidate, approved, errors>>

-----------------------------------------------------------------------------
(* Apply                                                                   *)

\* A variant of Unapproved that asks for a reviewer of conflicts only.
UnapprovedConflict(p, approve) == RelationOf(p) = "CONTRADICTS" /\ ~approve

\* _validated_reviewer: a reviewer is required by the plan.
Unapproved(p, approve) == RequiresReview(RelationOf(p)) /\ ~approve

\* The stored result decides first, then the approval of a reviewer.
Begin(a, p, retry, approve) ==
    /\ "apply" \in Kinds
    /\ MayStart(a)
    /\ PlanOf(p) # NoRow
    /\ LET old == db[ResultRow(p)]
           replay == old # NoRow /\ (old.status = "APPLIED" \/ ~retry)
       IN /\ IF replay \/ Unapproved(p, approve)
             THEN Done(a)
             ELSE req' = [req EXCEPT ![a] = [Idle EXCEPT !.pc = "create", !.plan = p]]
          /\ approved' = IF approve /\ ~replay THEN approved \cup {p} ELSE approved
    /\ UNCHANGED <<note, db, sess, overlap, candidate, errors>>

\* An exception: what has been changed so far decides between PARTIAL_APPLY
\* and FAILED, and the result is saved with the rows written so far.
Fail(a) == req' = [req EXCEPT ![a].pc = "save",
                              ![a].outcome = IF req[a].changed THEN "PARTIAL" ELSE "FAILED"]

SupersedesOf(p) == IF RelationOf(p) = "SUPERSEDES" THEN Target(p) ELSE NoNote

\* create_context: a candidate with the content of an existing Context is that
\* Context (it has been saved under another id, so any replacement the target
\* has is a different one); a second replacement of a Context is refused.
CreateFile(a) ==
    /\ req[a].pc = "create"
    /\ LET p == req[a].plan
           c == candidate[p]
           of == SupersedesOf(p)
       IN \/ /\ ~Has(p, "CREATE_CONTEXT")
             /\ Goto(a, "merge") /\ UNCHANGED note
          \/ /\ Has(p, "CREATE_CONTEXT") /\ c \in Existing
             /\ IF of # NoNote /\ View(a, IndexRow(of)).by # NoNote
                THEN Fail(a)
                ELSE req' = [req EXCEPT ![a].pc = "merge", ![a].changed = TRUE]
             /\ UNCHANGED note
          \/ /\ Has(p, "CREATE_CONTEXT") /\ c \notin Existing
             /\ IF of # NoNote /\ View(a, IndexRow(of)).by \notin {NoNote, c}
                THEN Fail(a) /\ UNCHANGED note
                ELSE /\ note' = [note EXCEPT ![c] = NoteOf({p}, of, ConflictIds(p))]
                     /\ Goto(a, "createIndex")
    /\ UNCHANGED <<db, sess, overlap, candidate, approved, errors>>

CreateIndex(a) ==
    /\ req[a].pc = "createIndex"
    /\ Put(a, IndexRow(candidate[req[a].plan]), [by |-> NoNote])
    /\ req' = IF SupersedesOf(req[a].plan) # NoNote
              THEN [req EXCEPT ![a].pc = "mark", ![a].after = "merge"]
              ELSE [req EXCEPT ![a].pc = "merge", ![a].changed = TRUE]
    /\ UNCHANGED <<note, db, overlap, candidate, approved, errors>>

\* mark_superseded: the row tells whether there is another replacement, the
\* file is rewritten.
Mark(a) ==
    /\ req[a].pc = "mark"
    /\ LET c == candidate[req[a].plan]
           t == Target(req[a].plan)
           by == View(a, IndexRow(t)).by
       IN CASE by \notin {NoNote, c} -> Fail(a) /\ UNCHANGED note
            [] by = c -> /\ req' = [req EXCEPT ![a].pc = req[a].after, ![a].changed = TRUE]
                         /\ UNCHANGED note
            [] by = NoNote -> /\ note' = [note EXCEPT ![t].supersededBy = c]
                              /\ Goto(a, "markIndex")
    /\ UNCHANGED <<db, sess, overlap, candidate, approved, errors>>

MarkIndex(a) ==
    /\ req[a].pc = "markIndex"
    /\ Put(a, IndexRow(Target(req[a].plan)), [by |-> candidate[req[a].plan]])
    /\ req' = [req EXCEPT ![a].pc = req[a].after, ![a].changed = TRUE]
    /\ UNCHANGED <<note, db, overlap, candidate, approved, errors>>

\* A variant of MergeWrite that replaces the references of the note.
MergeWriteReplacing(a) ==
    /\ req[a].pc = "mergeWrite"
    /\ note' = [note EXCEPT ![Target(req[a].plan)] =
                              [req[a].snap EXCEPT !.refs = {req[a].plan}]]
    /\ Goto(a, "mergeIndex")
    /\ UNCHANGED <<db, sess, overlap, candidate, approved, errors>>

\* merge_evidence reads the whole note and saves it with more references.
MergeRead(a) ==
    /\ req[a].pc = "merge"
    /\ IF Has(req[a].plan, "MERGE_EVIDENCE")
       THEN req' = [req EXCEPT ![a].pc = "mergeWrite", ![a].snap = note[Target(req[a].plan)]]
       ELSE Goto(a, "relation")
    /\ UNCHANGED <<note, db, sess, overlap, candidate, approved, errors>>

MergeWrite(a) ==
    /\ req[a].pc = "mergeWrite"
    /\ note' = [note EXCEPT ![Target(req[a].plan)] =
                              [req[a].snap EXCEPT !.refs = @ \cup {req[a].plan}]]
    /\ Goto(a, "mergeIndex")
    /\ UNCHANGED <<db, sess, overlap, candidate, approved, errors>>

MergeIndex(a) ==
    /\ req[a].pc = "mergeIndex"
    /\ Put(a, IndexRow(Target(req[a].plan)), [by |-> req[a].snap.supersededBy])
    /\ req' = [req EXCEPT ![a].pc = "relation", ![a].changed = TRUE]
    /\ UNCHANGED <<note, db, overlap, candidate, approved, errors>>

\* persist_primary_relation inserts the row unless it is there.
PersistRelation(a) ==
    /\ req[a].pc = "relation"
    /\ LET p == req[a].plan
           k == RelationRow(candidate[p], Target(p), RelationOf(p))
       IN IF Has(p, "CREATE_RELATION")
          THEN /\ Put(a, k, IF View(a, k) = NoRow THEN [candidate |-> candidate[p]]
                                                 ELSE View(a, k))
               /\ req' = [req EXCEPT ![a].pc = "conflict", ![a].changed = TRUE]
          ELSE Goto(a, "conflict") /\ UNCHANGED sess
    /\ UNCHANGED <<note, db, overlap, candidate, approved, errors>>

\* persist_conflict: the row is found by candidate and claim and keeps its id;
\* what it says, its status included, is that of this plan.
PersistConflict(a) ==
    /\ req[a].pc = "conflict"
    /\ LET p == req[a].plan
           k == ConflictRow(candidate[p])
       IN IF Has(p, "CREATE_CONFLICT_SET")
          THEN /\ Put(a, k, [id |-> IF View(a, k) = NoRow THEN p ELSE View(a, k).id,
                             set |-> p, status |-> "OPEN"])
               /\ req' = [req EXCEPT ![a].pc = "supersede", ![a].changed = TRUE]
          ELSE Goto(a, "supersede") /\ UNCHANGED sess
    /\ UNCHANGED <<note, db, overlap, candidate, approved, errors>>

\* supersede_context, on the files: nothing to do when both ends agree.
Supersede(a) ==
    /\ req[a].pc = "supersede"
    /\ LET p == req[a].plan
           c == candidate[p]
           t == Target(p)
       IN \/ ~Has(p, "MARK_SUPERSEDED") /\ Goto(a, "temporal") /\ UNCHANGED note
          \/ /\ Has(p, "MARK_SUPERSEDED")
             /\ CASE \/ note[t].supersededBy \notin {NoNote, c}
                     \/ note[c].supersedes \notin {NoNote, t} \/ c = t
                       -> Fail(a) /\ UNCHANGED note
                  [] note[t].supersededBy = c /\ note[c].supersedes = t
                       -> Goto(a, "temporal") /\ UNCHANGED note
                  [] OTHER ->
                       /\ note' = [note EXCEPT ![c].supersedes = t]
                       /\ req' = [req EXCEPT ![a].pc = "replacement",
                                             ![a].after = "temporal"]
    /\ UNCHANGED <<db, sess, overlap, candidate, approved, errors>>

ReplacementIndex(a) ==
    /\ req[a].pc = "replacement"
    /\ LET c == candidate[req[a].plan]
       IN Put(a, IndexRow(c), [by |-> note[c].supersededBy])
    /\ Goto(a, "mark")
    /\ UNCHANGED <<note, db, overlap, candidate, approved, errors>>

\* persist_temporal_states: the row of the created Context is replaced; the
\* row of the target is read here ...
PersistTemporal(a) ==
    /\ req[a].pc = "temporal"
    /\ LET p == req[a].plan
           old == View(a, TemporalRow(Target(p)))
       IN /\ IF Has(p, "CREATE_CONTEXT")
             THEN Put(a, TemporalRow(candidate[p]), Overlay(TRUE, {}, ConflictIds(p)))
             ELSE UNCHANGED sess
          /\ IF PlanOf(p) = <<>>
             THEN Goto(a, "save")
             ELSE req' = [req EXCEPT
                    ![a].pc = "temporalTarget",
                    ![a].base = IF old = NoRow THEN Overlay(TRUE, {}, {}) ELSE old]
    /\ UNCHANGED <<note, db, overlap, candidate, approved, errors>>

\* ... and replaced here.
PersistTemporalTarget(a) ==
    /\ req[a].pc = "temporalTarget"
    /\ LET p == req[a].plan
           base == req[a].base
           new == CASE RelationOf(p) = "SUPERSEDES" ->
                         [base EXCEPT !.current = FALSE,
                                      !.supersededBy = @ \cup {candidate[p]}]
                    [] RelationOf(p) = "CONTRADICTS" ->
                         [base EXCEPT !.conflicts = @ \cup ConflictIds(p)]
                    [] OTHER -> base
       IN Put(a, TemporalRow(Target(p)), new)
    /\ Goto(a, "save")
    /\ UNCHANGED <<note, db, overlap, candidate, approved, errors>>

\* A variant of SaveResult in a session of its own.
SaveResultAlone(a) ==
    /\ req[a].pc = "save"
    /\ Free(a, ResultRow(req[a].plan))
    /\ sess' = [sess EXCEPT ![a] = [k \in {ResultRow(req[a].plan)} |-> [status |-> req[a].outcome]]]
    /\ Goto(a, "commit")
    /\ UNCHANGED <<note, db, overlap, candidate, approved, errors>>

\* save_result inserts the result, or replaces the one the plan has; a row
\* that another request has inserted meanwhile violates the unique key.
SaveResult(a) ==
    /\ req[a].pc = "save"
    /\ Put(a, ResultRow(req[a].plan), [status |-> req[a].outcome])
    /\ Goto(a, "commit")
    /\ UNCHANGED <<note, db, overlap, candidate, approved, errors>>

-----------------------------------------------------------------------------
(* Conflicts and existing Contexts                                         *)

\* mark_reviewing and resolve read the conflict by its id ...
ConflictRead(a, kind, c) ==
    /\ kind \in Kinds \cap {"review", "resolve"}
    /\ MayStart(a)
    /\ LET row == db[ConflictRow(c)]
       IN /\ row # NoRow
          /\ kind = "review" => row.status \in {"OPEN", "REVIEWING"}
          /\ req' = [req EXCEPT ![a] = [Idle EXCEPT !.pc = kind, !.ctx = c, !.base = row]]
    /\ UNCHANGED <<note, db, sess, overlap, candidate, approved, errors>>

\* ... and replace it with what they read and a new status.
ConflictWrite(a) ==
    /\ req[a].pc \in {"review", "resolve"}
    /\ Put(a, ConflictRow(req[a].ctx),
           [req[a].base EXCEPT !.status =
              IF req[a].pc = "review" THEN "REVIEWING" ELSE "RESOLVED"])
    /\ Goto(a, "commit")
    /\ UNCHANGED <<note, db, overlap, candidate, approved, errors>>

\* _prepare_context looks for the temporal row; if there is none, the note's
\* frontmatter, as listed, tells what it would be.
Backfill(c) == LET by == db[IndexRow(c)].by
               IN Overlay(by = NoNote, {by} \ {NoNote}, note[c].conflicts)

ScanRead(a, c) ==
    /\ "scan" \in Kinds
    /\ MayStart(a)
    /\ db[IndexRow(c)] # NoRow
    /\ req' = [req EXCEPT ![a] = [Idle EXCEPT !.pc = "scan", !.ctx = c,
                   !.base = IF db[TemporalRow(c)] = NoRow THEN Backfill(c) ELSE NoRow]]
    /\ UNCHANGED <<note, db, sess, overlap, candidate, approved, errors>>

\* After recall and classification _assess_context adds the missing row and
\* the plan, if any decision is meaningful and the key has no plan yet; ds are
\* the meaningful ones.
ScanBackfill(a) ==
    /\ req[a].pc = "scan"
    /\ IF req[a].base # NoRow
       THEN Put(a, TemporalRow(req[a].ctx), req[a].base)
       ELSE UNCHANGED sess
    /\ Goto(a, "scanPlan")
    /\ UNCHANGED <<note, db, overlap, candidate, approved, errors>>

ScanPlan(a) ==
    /\ req[a].pc = "scanPlan"
    /\ \/ UNCHANGED sess
       \/ \E p \in Plans, ds \in DecisionLists :
            /\ candidate[p] = req[a].ctx
            /\ View(a, PlanRow(p)) = NoRow
            /\ ds # <<>> /\ Recalled(ds)
            /\ \A i \in DOMAIN ds : ds[i].relation # "UNRELATED" /\ ds[i].context # req[a].ctx
            /\ Put(a, PlanRow(p), ds)
    /\ Goto(a, "commit")
    /\ UNCHANGED <<note, db, overlap, candidate, approved, errors>>

-----------------------------------------------------------------------------
(* End of a request, and what may go wrong                                 *)

Commit(a) ==
    /\ req[a].pc = "commit"
    /\ db' = Over(sess[a], db)
    /\ sess' = [sess EXCEPT ![a] = Empty]
    /\ Done(a)
    /\ UNCHANGED <<note, overlap, candidate, approved, errors>>

\* A gateway call fails before its file is written, after it (the index write
\* fails, the session survives), or at its read-back.
GatewayError(a) ==
    /\ \/ req[a].pc \in {"create", "createIndex", "mark", "markIndex", "merge", "mergeWrite",
                         "mergeIndex", "supersede", "replacement"}
       \/ req[a].pc = "relation" /\ Has(req[a].plan, "MERGE_EVIDENCE")
    /\ errors < MaxErrors
    /\ errors' = errors + 1
    /\ Fail(a)
    /\ UNCHANGED <<note, db, sess, overlap, candidate, approved>>

\* A statement fails (lock timeout, unique key, lost connection), and with it
\* the session: no result can be saved.  The death of the process is the same.
DatabaseError(a) ==
    /\ Active(a)
    /\ errors < MaxErrors
    /\ errors' = errors + 1
    /\ sess' = [sess EXCEPT ![a] = Empty]
    /\ Done(a)
    /\ UNCHANGED <<note, db, overlap, candidate, approved>>

Step(a) ==
    \/ CreateFile(a) \/ CreateIndex(a) \/ Mark(a) \/ MarkIndex(a)
    \/ MergeRead(a) \/ MergeWrite(a) \/ MergeIndex(a)
    \/ PersistRelation(a) \/ PersistConflict(a) \/ Supersede(a) \/ ReplacementIndex(a)
    \/ PersistTemporal(a) \/ PersistTemporalTarget(a) \/ SaveResult(a)
    \/ ConflictWrite(a) \/ ScanBackfill(a) \/ ScanPlan(a) \/ Commit(a)

Next ==
    \/ \E p \in Plans, ds \in DecisionLists : Preview(p, ds)
    \/ \E a \in Requests :
         \/ \E p \in Plans, retry, approve \in BOOLEAN : Begin(a, p, retry, approve)
         \/ \E kind \in {"review", "resolve"}, c \in Contexts : ConflictRead(a, kind, c)
         \/ \E c \in Contexts : ScanRead(a, c)
         \/ Step(a)
         \/ GatewayError(a)
         \/ DatabaseError(a)

Spec == Init /\ [][Next]_vars

-----------------------------------------------------------------------------
(* Properties                                                              *)

Row(k) == db[k]
Applied(p) == Row(ResultRow(p)) # NoRow /\ Row(ResultRow(p)).status = "APPLIED"

Pcs == {"idle", "done", "create", "createIndex", "mark", "markIndex", "merge", "mergeWrite",
        "mergeIndex", "relation", "conflict", "supersede", "replacement", "temporal",
        "temporalTarget", "save", "commit", "review", "resolve", "scan", "scanPlan"}
Reqs == [pc : Pcs, plan : Plans \cup {NoPlan}, changed : BOOLEAN,
         outcome : {"APPLIED", "PARTIAL", "FAILED"}, after : {"", "merge", "temporal"},
         snap : Notes \cup {NoNote}, base : TemporalRows \cup ConflictRows \cup {NoRow},
         ctx : Contexts \cup {NoNote}]

\* The types of the variables.
TypeOK ==
    /\ note \in [Contexts -> Notes \cup {NoNote}]
    /\ DOMAIN db = RowKeys /\ \A k \in RowKeys : db[k] \in RowsOf(k) \cup {NoRow}
    /\ DOMAIN sess = Requests
    /\ \A a \in Requests : DOMAIN sess[a] \subseteq RowKeys
    /\ \A a \in Requests : \A k \in DOMAIN sess[a] : sess[a][k] \in RowsOf(k)
    /\ req \in [Requests -> Reqs]
    /\ candidate \in [Plans -> Contexts]
    /\ approved \subseteq Plans
    /\ errors \in 0 .. MaxErrors

\* What is there of a plan that has been applied.
ResultBacked(p) ==
    /\ Has(p, "CREATE_CONTEXT") => /\ note[candidate[p]] # NoNote
                                   /\ Row(TemporalRow(candidate[p])) # NoRow
    /\ Has(p, "CREATE_RELATION") =>
         Row(RelationRow(candidate[p], Target(p), RelationOf(p))) # NoRow
    /\ Has(p, "CREATE_CONFLICT_SET") => Row(ConflictRow(candidate[p])) # NoRow
    /\ PlanOf(p) # <<>> => Row(TemporalRow(Target(p))) # NoRow

\* An APPLIED result is never alone: with it are committed the relation, the
\* conflict set and the temporal rows of the plan, and the candidate's note
\* is in the vault, whatever requests overlapped, failed or died on the way
\* (_apply_plan, save_result and the commit of the session).
AppliedBacked == \A p \in Plans : Applied(p) => ResultBacked(p)

\* No other plan is about the candidate of the plan.
Own(p) == \A q \in Plans \ {p} : candidate[q] # candidate[p]

\* Before a Memory Steward has approved it, a plan that requires review has no
\* committed result, opens no conflict in a temporal row, creates no note and
\* replaces none, however requests interleave (_validated_reviewer).  A trace that names the candidate only may be that of
\* another plan with the same candidate.
ReviewGate ==
    \A p \in Plans \ approved : PlanOf(p) # NoRow /\ RequiresReview(RelationOf(p)) =>
      /\ Row(ResultRow(p)) = NoRow
      /\ \A c \in Contexts : Row(TemporalRow(c)) # NoRow =>
           p \notin Row(TemporalRow(c)).conflicts
      /\ Own(p) /\ candidate[p] \notin Existing => note[candidate[p]] = NoNote
      /\ Own(p) /\ PlanOf(p) # <<>> => note[Target(p)].supersededBy # candidate[p]

\* What an APPLIED result says has happened.
Happened(p) ==
    /\ Has(p, "MERGE_EVIDENCE") => p \in note[Target(p)].refs
    /\ Has(p, "MARK_SUPERSEDED") =>
         /\ note[Target(p)].supersededBy = candidate[p]
         /\ note[candidate[p]].supersedes = Target(p)
         /\ ~Row(TemporalRow(Target(p))).current
    /\ Has(p, "CREATE_CONFLICT_SET") =>
         /\ Row(ConflictRow(candidate[p])).id = p
         /\ p \in Row(TemporalRow(Target(p))).conflicts

\* Every plan has a candidate of its own, one that was there from the start only
\* if nothing fails.  A plan may name the candidate of another only if that was
\* created here and nothing fails: a retry of the creation writes the note anew
\* (create_context), and a plan about an existing Context starts its temporal
\* row anew (persist_temporal_states).
Separate ==
    /\ \A p \in Plans : Own(p)
    /\ errors = 0 \/ \A p \in Plans : candidate[p] \notin Existing
    /\ \A p, q \in Plans :
         PlanOf(p) \notin {NoRow, <<>>} /\ Target(p) = candidate[q] =>
           errors = 0 /\ candidate[q] \notin Existing

\* Requests that do not overlap, each of which may fail or die anywhere and be
\* retried, keep every promise of every APPLIED result: the vault and the rows
\* agree on supersession, evidence and conflicts, as long as the plans do not
\* work on each other's candidates (_successful_result).
AppliedMeansDone ==
    ~overlap /\ Separate => \A p \in Plans : Applied(p) => Happened(p)

\* The same when requests overlap.
AppliedHappened == \A p \in Plans : Applied(p) => Happened(p)

\* The Context that an apply supersedes is the target of the plan's action,
\* the one its reviewer was shown.
SupersedesReviewed ==
    \A p \in Plans : PlanOf(p) # NoRow /\ Applied(p) /\ Has(p, "MARK_SUPERSEDED") =>
      \A c \in Contexts : note[c] # NoNote /\ note[c].supersededBy = candidate[p] =>
        c = ReviewedTarget(p)

\* A conflict that has been resolved is not opened or put under review again.
ResolvedStays ==
    [][\A c \in Contexts :
         LET k == ConflictRow(c)
         IN db[k] # NoRow /\ db[k].status = "RESOLVED" => db'[k].status = "RESOLVED"]_vars

\* An APPLIED result is final.
AppliedFinal == [][\A p \in Plans : Applied(p) => Applied(p)']_vars

-----------------------------------------------------------------------------
(* The inductive invariant of the proofs, in parts.                        *)

\* The plan may be applied: a Steward has approved it if it requires review.
MayAct(p) == PlanOf(p) # NoRow /\ (RequiresReview(RelationOf(p)) => p \in approved)

\* What a note may say: conflicts and replacements of approved plans only.
NoteOK(n) ==
    /\ n \in Notes /\ n.conflicts \subseteq approved
    /\ n.supersededBy # NoNote => \E q \in approved : candidate[q] = n.supersededBy

\* A note outside of the initial vault is that of a plan that may be applied.
NotesOK ==
    \A c \in Contexts :
      /\ c \in Existing => note[c] # NoNote
      /\ note[c] # NoNote => NoteOK(note[c])
      /\ c \notin Existing /\ note[c] # NoNote => \E q \in Plans : candidate[q] = c /\ MayAct(q)

\* What a row, committed or not, may say.
RowOK(k, v) ==
    /\ k[1] = "result" => MayAct(k[2])
    /\ k[1] = "plan" => \A i \in DOMAIN v : note[v[i].context] # NoNote
    /\ k[1] = "temporal" => v.conflicts \subseteq approved
    /\ k[1] = "index" => note[k[2]] # NoNote

RowsOK ==
    /\ \A k \in RowKeys : db[k] # NoRow => RowOK(k, db[k])
    /\ \A a \in Requests : \A k \in DOMAIN sess[a] : RowOK(k, sess[a][k])

\* No row is in two sessions, and a plan in a session is not in the table.
LocksHeld ==
    /\ \A a, b \in Requests : a # b => DOMAIN sess[a] \cap DOMAIN sess[b] = {}
    /\ \A a \in Requests, p \in Plans :
         PlanRow(p) \in DOMAIN sess[a] => db[PlanRow(p)] = NoRow

\* The phases of an apply in which its rows are in the session.
Recorded == {"supersede", "replacement", "temporal", "temporalTarget", "save", "commit"}
After(a, pcs) ==
    req[a].pc \in pcs \/ (req[a].pc \in {"mark", "markIndex"} /\ req[a].after = "temporal")
Applying == {"create", "createIndex", "mark", "markIndex", "merge", "mergeWrite", "mergeIndex",
             "relation", "conflict", "supersede", "replacement", "temporal",
             "temporalTarget", "save"}

\* What a request knows at each of its steps.
RequestShape(a) ==
    LET r == req[a]
    IN /\ ~Active(a) => DOMAIN sess[a] = {}
       /\ r.pc \in Applying => r.plan # NoPlan
       /\ r.plan # NoPlan => r.pc \in Applying \cup {"commit"} /\ MayAct(r.plan)
       /\ r.pc \notin {"save", "commit"} => r.outcome = "APPLIED"
       /\ r.pc \in {"mark", "markIndex"} => /\ RelationOf(r.plan) = "SUPERSEDES"
                                            /\ r.after \in {"merge", "temporal"}
       /\ r.pc \in {"mergeWrite", "mergeIndex"} => /\ Has(r.plan, "MERGE_EVIDENCE")
                                                   /\ NoteOK(r.snap)
       /\ r.pc = "replacement" => RelationOf(r.plan) = "SUPERSEDES" /\ r.after = "temporal"
       /\ r.pc = "temporalTarget" => /\ PlanOf(r.plan) # <<>> /\ r.base \in TemporalRows
                                     /\ r.base.conflicts \subseteq approved
       /\ r.pc = "createIndex" => Has(r.plan, "CREATE_CONTEXT")
       /\ r.pc \in {"review", "resolve"} => r.base \in ConflictRows /\ r.ctx \in Contexts
       /\ r.pc \in {"scan", "scanPlan"} => r.ctx \in Contexts
       /\ r.pc = "scan" /\ r.base # NoRow => /\ r.base \in TemporalRows
                                             /\ r.base.conflicts \subseteq approved
       /\ \A p \in Plans : ResultRow(p) \in DOMAIN sess[a] =>
            r.pc = "commit" /\ r.plan = p /\ sess[a][ResultRow(p)].status = r.outcome

\* What an apply that has not failed has done so far.
Progress(a) ==
    LET p == req[a].plan
        c == candidate[p]
    IN p # NoPlan /\ req[a].outcome = "APPLIED" =>
         /\ req[a].pc # "create" /\ Has(p, "CREATE_CONTEXT") => note[c] # NoNote
         /\ After(a, Recorded \cup {"conflict"}) /\ Has(p, "CREATE_RELATION") =>
              RelationRow(c, Target(p), RelationOf(p)) \in DOMAIN sess[a]
         /\ After(a, Recorded) /\ Has(p, "CREATE_CONFLICT_SET") => ConflictRow(c) \in DOMAIN sess[a]
         /\ req[a].pc \in {"temporalTarget", "save", "commit"} /\ Has(p, "CREATE_CONTEXT") =>
              TemporalRow(c) \in DOMAIN sess[a]
         /\ req[a].pc \in {"save", "commit"} /\ PlanOf(p) # <<>> =>
              TemporalRow(Target(p)) \in DOMAIN sess[a]

RequestsOK == \A a \in Requests : RequestShape(a) /\ Progress(a)

ReconInv ==
    /\ TypeOK /\ NotesOK /\ RowsOK /\ LocksHeld /\ RequestsOK /\ AppliedBacked

-----------------------------------------------------------------------------
(* The inductive invariant of requests that do not overlap.                *)

OneAtATime == \A a, b \in Requests : Active(a) /\ Active(b) => a = b

\* The rows as request a sees them, and as the tables are when it commits.
Rows(a) == Over(sess[a], db)

Stored(p) == PlanOf(p) \notin {NoRow, <<>>}

\* Plans name Contexts that are indexed, and never their own candidate.
PlansApart ==
    /\ \A p \in Plans : db[PlanRow(p)] # NoRow => Recalled(db[PlanRow(p)])
    /\ \A a \in Requests, p \in Plans : PlanRow(p) \in DOMAIN sess[a] =>
         LET ds == sess[a][PlanRow(p)]
         IN Recalled(ds) /\ \A i \in DOMAIN ds : ds[i].context # candidate[p]
    /\ \A p \in Plans : Stored(p) => Target(p) # candidate[p]

\* A replacement in an index row is that of the file, and a conflict set keeps
\* the id of a plan of its candidate.
Agree(rows) ==
    \A c \in Contexts :
      /\ rows[IndexRow(c)] # NoRow /\ rows[IndexRow(c)].by # NoNote =>
           note[c].supersededBy = rows[IndexRow(c)].by
      /\ rows[ConflictRow(c)] # NoRow => candidate[rows[ConflictRow(c)].id] = c

RowsAgree ==
    /\ Agree(db)
    /\ \A a \in Requests :
         /\ Agree(Rows(a))
         /\ \A c \in Contexts : db[IndexRow(c)] # NoRow /\ db[IndexRow(c)].by # NoNote =>
              Rows(a)[IndexRow(c)] = db[IndexRow(c)]

\* Only the target of a plan is superseded.
Marked ==
    \A c \in Contexts : note[c] # NoNote /\ note[c].supersededBy # NoNote =>
      \E q \in Plans : Stored(q) /\ Target(q) = c

\* As long as nothing fails, what has been created and committed is applied.
IndexedApplied ==
    errors = 0 => \A q \in Plans : candidate[q] \notin Existing =>
      /\ db[IndexRow(candidate[q])] # NoRow => Applied(q)
      /\ \A a \in Requests : IndexRow(candidate[q]) \in DOMAIN sess[a] =>
           Applied(q) \/ (req[a].plan = q /\ req[a].outcome = "APPLIED")

\* As long as nothing fails, a replacement in a file is that of the index row.
Synced ==
    errors = 0 => \A c \in Contexts : note[c] # NoNote /\ note[c].supersededBy # NoNote =>
      /\ (\A a \in Requests : ~Active(a)) => db[IndexRow(c)] = [by |-> note[c].supersededBy]
      /\ \A a \in Requests : Active(a) =>
           \/ req[a].pc = "markIndex" /\ Target(req[a].plan) = c
           \/ Rows(a)[IndexRow(c)] = [by |-> note[c].supersededBy]

\* What is there, in the vault and in the rows, of what a plan promises.
NotesKept(p) ==
    /\ Has(p, "MERGE_EVIDENCE") => p \in note[Target(p)].refs
    /\ RelationOf(p) = "SUPERSEDES" => /\ note[Target(p)].supersededBy = candidate[p]
                                       /\ note[candidate[p]].supersedes = Target(p)
RowsKept(p, rows) ==
    /\ RelationOf(p) = "SUPERSEDES" => /\ ~rows[TemporalRow(Target(p))].current
                                       /\ rows[IndexRow(Target(p))].by = candidate[p]
    /\ RelationOf(p) = "CONTRADICTS" => p \in rows[TemporalRow(Target(p))].conflicts

PromisesKept ==
    \A p \in Plans : Applied(p) =>
      NotesKept(p) /\ RowsKept(p, db) /\ \A a \in Requests : RowsKept(p, Rows(a))

\* The replacement is known to the vault and to the session.
Replaced(a, p) ==
    /\ note[Target(p)].supersededBy = candidate[p] /\ note[candidate[p]].supersedes = Target(p)
    /\ Rows(a)[IndexRow(Target(p))].by = candidate[p]

Between == {"merge", "mergeWrite", "mergeIndex", "relation", "conflict", "supersede"}
Closing == {"temporal", "temporalTarget", "save", "commit"}

\* What an apply that has not failed has done of what it will promise.
Doing(a) ==
    LET p == req[a].plan
        c == candidate[p]
        t == Target(p)
        pc == req[a].pc
    IN /\ pc = "create" => DOMAIN sess[a] = {}
       /\ p # NoPlan => ~Applied(p)
       /\ pc = "commit" /\ p # NoPlan =>
            ResultRow(p) \in DOMAIN sess[a] /\ sess[a][ResultRow(p)].status = req[a].outcome
       /\ pc \in {"review", "resolve"} => candidate[req[a].base.id] = req[a].ctx
       /\ pc = "scan" /\ req[a].base # NoRow => db[TemporalRow(req[a].ctx)] = NoRow
       /\ pc = "createIndex" => /\ c \notin Existing
                                /\ note[c] = NoteOf({p}, SupersedesOf(p), ConflictIds(p))
       /\ pc \in {"mark", "markIndex"} => /\ req[a].after = "temporal" <=> c \in Existing
                                          /\ note[c].supersedes = t
       /\ \/ pc = "createIndex" /\ RelationOf(p) = "SUPERSEDES"
          \/ pc = "mark" /\ req[a].after = "merge"
          => Rows(a)[IndexRow(t)].by \in {NoNote, c}
       /\ pc = "markIndex" => Rows(a)[IndexRow(t)].by = NoNote /\ note[t].supersededBy = c
       /\ pc = "replacement" => c \in Existing /\ note[c].supersedes = t
       /\ pc = "mergeWrite" => req[a].snap = note[t]
       /\ pc = "mergeIndex" => note[t] = [req[a].snap EXCEPT !.refs = @ \cup {p}]
       /\ pc = "temporalTarget" =>
            req[a].base = IF Rows(a)[TemporalRow(t)] = NoRow THEN Overlay(TRUE, {}, {})
                                                            ELSE Rows(a)[TemporalRow(t)]
       /\ p # NoPlan /\ req[a].outcome = "APPLIED" =>
            /\ pc \in Closing \/ (pc \in Between /\ c \notin Existing) =>
                 (RelationOf(p) = "SUPERSEDES" => Replaced(a, p))
            /\ pc \in (Between \ {"merge", "mergeWrite"}) \cup Closing /\ Has(p, "MERGE_EVIDENCE") =>
                 p \in note[t].refs
            /\ pc \in {"save", "commit"} => RowsKept(p, Rows(a))

SoloFacts ==
    /\ OneAtATime /\ PlansApart /\ RowsAgree /\ Marked /\ IndexedApplied /\ Synced
    /\ PromisesKept /\ \A a \in Requests : Doing(a)

\* Requests that do not overlap, about plans that are kept apart.
SoloInv == ~overlap /\ Separate => SoloFacts
=============================================================================
