----------------------------- MODULE NoteWrite -----------------------------
(***************************************************************************)
(* HTTP requests that write notes.  A note lives twice: as a Markdown file *)
(* of the vault, which is canonical, and as a row of the index             *)
(* (IndexStore).  A request writes the file first and the row second, and  *)
(* the row becomes visible when its session commits, after the request has *)
(* left the maintenance lane (ReaderWriterLease, which IndexMaintenance    *)
(* implements).  A step ends where the code awaits, hands a file to a      *)
(* worker thread or releases a lock; every note is a Context.              *)
(***************************************************************************)
EXTENDS IndexStore, ManifestRules, Sequences

\* The workloads to consider, records of: what clients ask for (commands), how
\* many requests are made (requests), the paths that hold a note, indexed, at the
\* start (initial), the paths whose file the owner of the vault may delete
\* (removable), whether requests and deletions may happen while a request runs
\* (overlap), and whether the server may die (crashes).
CONSTANT Workloads

NoToken == 0

\* The command records of the requests: see the constructors below.
Command(kind, p, i, b, t, o) ==
    [kind |-> kind, path |-> p, id |-> i, body |-> b, token |-> t, of |-> o]

\* save_note without and with expected_content_hash; o is the Context that the
\* payload supersedes.
Save(p, b, o) == Command("save", p, NoId, b, NoToken, o)
SaveIf(p, b, t, o) == Command("save", p, NoId, b, t, o)
Archive(i) == Command("archive", 0, i, 0, NoToken, NoId)
Supersede(i, by) == Command("supersede", 0, i, 0, NoToken, by)
Repair(p, b) == Command("repair", p, NoId, b, NoToken, NoId)
Reindex == Command("reindex", 0, NoId, 0, NoToken, NoId)

Commands ==
    [kind : {"save"}, path : Paths, id : RowIds \cup {NoId}, body : Bodies,
     token : Bodies \cup {NoToken}, of : RowIds \cup {NoId}]
    \cup {Archive(i) : i \in RowIds} \cup {Supersede(i, by) : i, by \in RowIds}
    \cup {Repair(p, b) : p \in Paths, b \in Bodies} \cup {Reindex}

ASSUME WorkloadsAssumption ==
    \A w \in Workloads :
        /\ w.commands \subseteq Commands
        /\ w.requests \in Nat
        /\ w.initial \subseteq Paths \cap Bodies /\ w.removable \subseteq Paths
        /\ w.overlap \in BOOLEAN /\ w.crashes \in BOOLEAN

NoMark == [old |-> NoId]
NoEdit == [status |-> ""]

VARIABLES load,   \* the workload
          file,   \* file[p]: the document at path p, or NoDoc
          lane,   \* lane[r]: the mode in which request r is in the lane
          req     \* req[r]: where request r stands, and its local variables

vars == <<load, file, rows, tx, lane, req>>

Lane == INSTANCE ReaderWriterLease WITH Tasks <- Requests, holds <- lane

\* pc, the command, and: the id of the note, the path in hand, the document read
\* or to write, the row loaded, the key found at the path, the pending edit of
\* frontmatter fields, the document the client or the fence has read, the files
\* a reindex has scanned, the error rows to record, the paths to upsert, the
\* supersede relations to complete, the one in hand, the paths to drop, success.
Idle == [pc |-> "idle", cmd |-> Reindex, id |-> NoId, at |-> 0, doc |-> NoDoc,
         row |-> NoRow, foundAt |-> NoId, edit |-> NoEdit, token |-> NoDoc,
         seen |-> <<>>, errs |-> {}, todo |-> {}, marks |-> <<>>, claim |-> NoMark,
         gone |-> {}, ok |-> TRUE]

Running(r) == req[r].pc \notin {"idle", "done"}

Go(r, s) == req' = [req EXCEPT ![r] = s]

\* The request answers with an error: whatever its session wrote will be undone.
Fail(r) == Go(r, [req[r] EXCEPT !.pc = "leave", !.ok = FALSE, !.errs = {}])

FirstNote(p) == [id |-> p, body |-> p, status |-> "current", supersedes |-> NoId,
                 supersededBy |-> NoId, by |-> 0]

Init ==
    /\ load \in Workloads
    /\ file = [p \in Paths |-> IF p \in load.initial THEN FirstNote(p) ELSE NoDoc]
    /\ rows = [i \in RowIds |-> IF i \in load.initial THEN NoteRow(i, FirstNote(i))
                               ELSE NoRow]
    /\ tx = [r \in Requests |-> Untouched]
    /\ lane = [r \in Requests |-> "none"]
    /\ req = [r \in Requests |-> Idle]

\* Something new may happen now.
MayHappen == load.overlap \/ \A r \in Requests : ~Running(r)

Start(r) ==
    /\ req[r].pc = "idle" /\ r <= load.requests
    /\ \A q \in Requests : q < r => req[q].pc # "idle"
    /\ MayHappen
    /\ \E c \in load.commands :
         /\ c.kind = "repair" => file[c.path] # NoDoc
         /\ Go(r, [Idle EXCEPT
                !.cmd = c, !.at = c.path,
                !.token = IF c.kind = "repair" THEN file[c.path] ELSE NoDoc,
                !.pc = CASE c.kind \in {"save", "reindex"} -> "enter"
                         [] c.kind \in {"archive", "supersede"} -> "locate"
                         [] c.kind = "repair" -> "source"])
    /\ UNCHANGED <<load, file, rows, tx, lane>>

-----------------------------------------------------------------------------
(* save_note and _save_note_serialized, up to the file                     *)

\* A variant of Enter in which a compare-and-swap is an ordinary writer.
EnterShared(r) ==
    /\ req[r].pc = "enter" /\ req[r].cmd.kind = "save"
    /\ Lane!GrantShared(r)
    /\ Go(r, [req[r] EXCEPT !.pc = "lookup"])
    /\ UNCHANGED <<load, file, rows, tx>>

Enter(r) ==
    /\ req[r].pc = "enter" /\ req[r].cmd.kind = "save"
    /\ IF req[r].cmd.token = NoToken THEN Lane!GrantShared(r) ELSE Lane!GrantExclusive(r)
    /\ Go(r, [req[r] EXCEPT !.pc = "lookup"])
    /\ UNCHANGED <<load, file, rows, tx>>

\* The row carries the content hash the client expects.
TokenFits(c, row) ==
    c.token # NoToken => /\ row # NoRow /\ row.doc # NoDoc
                         /\ row.doc.body = c.token

Lookup(r) ==
    LET c == req[r].cmd
        i == IdAt(View(r), c.path)
        row == RowOf(View(r), i)
    IN /\ req[r].pc = "lookup"
       /\ IF TokenFits(c, row)
          THEN Go(r, [req[r] EXCEPT !.pc = "fence", !.id = i, !.row = row])
          ELSE Fail(r)
       /\ UNCHANGED <<load, file, rows, tx, lane>>

\* A variant of SourceFits without the comparison.
SourceFitsAnyhow(r) == TRUE

\* _validate_expected_source_state: the file is the one the row was made from.
SourceFits(r) == req[r].cmd.token # NoToken => file[req[r].at] = req[r].row.source

\* The id of the note: the client's, the row's, the file's or a new one.
NoteId(r) ==
    IF req[r].cmd.id # NoId THEN req[r].cmd.id
    ELSE IF req[r].id # NoId THEN req[r].id
    ELSE IF file[req[r].at] # NoDoc THEN file[req[r].at].id
    ELSE NewId(r)

Fence(r) ==
    /\ req[r].pc = "fence"
    /\ IF /\ SourceFits(r)
          /\ req[r].cmd.id = NoId \/ req[r].id \in {NoId, req[r].cmd.id}
       THEN Go(r, [req[r] EXCEPT !.pc = "check", !.id = NoteId(r),
                                 !.token = file[req[r].at]])
       ELSE Fail(r)
    /\ UNCHANGED <<load, file, rows, tx, lane>>

\* _validate_supersede_relations
SupersedeFits(view, of, id) ==
    of # NoId => /\ of # id
                 /\ view[of] # NoRow
                 /\ view[of].source.supersededBy \in {NoId, id}

\* find_context_duplicate: another note of the index with the same content
HasDuplicate(view, id, body) ==
    \E i \in RowIds \ {id} : view[i] # NoRow /\ view[i].doc # NoDoc
                             /\ view[i].source.body = body

\* apply_context_save_policy; the document is what frontmatter_for_save renders:
\* lifecycle fields come from the payload alone.
Check(r) ==
    LET c == req[r].cmd
        id == req[r].id
        view == View(r)
    IN /\ req[r].pc = "check"
       /\ IF view[id].path \notin {0, c.path} \/ ~SupersedeFits(view, c.of, id)
          THEN Fail(r)
          ELSE IF HasDuplicate(view, id, c.body)
          THEN Go(r, [req[r] EXCEPT !.pc = "leave"])
          ELSE Go(r, [req[r] EXCEPT
                  !.pc = "persist",
                  !.doc = [id |-> id, body |-> c.body, status |-> "current",
                           supersedes |-> c.of, supersededBy |-> NoId, by |-> r],
                  !.marks = IF c.of = NoId THEN <<>>
                            ELSE <<[old |-> c.of, new |-> id, path |-> c.path]>>])
       /\ UNCHANGED <<load, file, rows, tx, lane>>

-----------------------------------------------------------------------------
(* The write of one note: the file, its parse and the row                  *)

\* atomic_write_markdown
Persist(r) ==
    /\ req[r].pc = "persist"
    /\ file' = [file EXCEPT ![req[r].at] = req[r].doc]
    /\ Go(r, [req[r] EXCEPT !.pc = "parse"])
    /\ UNCHANGED <<load, rows, tx, lane>>

\* note_index_from_path reads the file back: what is there by now is indexed.
Parse(r) ==
    /\ req[r].pc = "parse"
    /\ IF file[req[r].at] = NoDoc
       THEN Fail(r)
       ELSE Go(r, [req[r] EXCEPT !.pc = "load", !.doc = file[req[r].at]])
    /\ UNCHANGED <<load, file, rows, tx, lane>>

\* _upsert_note, its reads
Load(r) ==
    /\ req[r].pc = "load"
    /\ Go(r, [req[r] EXCEPT !.pc = "flush", !.row = View(r)[req[r].doc.id],
                            !.foundAt = IdAt(View(r), req[r].at)])
    /\ UNCHANGED <<load, file, rows, tx, lane>>

\* The statements wait for a row lock or cannot succeed.
UpsertStuck(r) ==
    LET s == req[r] IN
        \/ Blocked(r, UpsertKeys(s.doc, s.foundAt), s.at)
        \/ UpsertClashes(r, s.doc, s.at, s.row, s.foundAt)

\* A variant of Flush that forgets the supersede relations.
FlushUnmarked(r) ==
    LET s == req[r] IN
        /\ s.pc = "flush" /\ ~UpsertStuck(r)
        /\ Upsert(r, s.doc, s.at, s.row, s.foundAt)
        /\ Go(r, [s EXCEPT !.pc = "plan", !.claim = NoMark])
        /\ UNCHANGED <<load, file, rows, lane>>

\* _upsert_note, its writes.  A reindex completes the supersede relations of the
\* notes it has upserted.
Flush(r) ==
    LET s == req[r]
        mark == [old |-> s.doc.supersedes, new |-> s.doc.id, path |-> s.at]
    IN /\ s.pc = "flush" /\ ~UpsertStuck(r)
       /\ Upsert(r, s.doc, s.at, s.row, s.foundAt)
       /\ Go(r, [s EXCEPT !.pc = "plan", !.claim = NoMark,
                          !.marks = IF /\ s.cmd.kind = "reindex" /\ s.claim = NoMark
                                       /\ s.doc.supersedes # NoId
                                    THEN Append(@, mark) ELSE @])
       /\ UNCHANGED <<load, file, rows, lane>>

\* The paths of the errors to record when relation m could not be completed; a
\* supersede request has no error of its own.
ErrorPaths(m) == IF m = NoMark THEN {} ELSE {m.path} \ {0}

\* A variant of FlushFails for statements that wait for a lock without limit.
FlushFailsOnClash(r) ==
    /\ req[r].pc = "flush"
    /\ UpsertClashes(r, req[r].doc, req[r].at, req[r].row, req[r].foundAt)
    /\ Go(r, [req[r] EXCEPT !.pc = "plan", !.claim = NoMark,
                            !.errs = {req[r].at} \cup ErrorPaths(req[r].claim),
                            !.ok = req[r].cmd.kind = "reindex"])
    /\ UNCHANGED <<load, file, rows, tx, lane>>

\* A lock timeout or a constraint fails the upsert: the savepoint is rolled back
\* and the error recorded.  Only a reindex goes on.
FlushFails(r) ==
    /\ req[r].pc = "flush" /\ UpsertStuck(r)
    /\ Go(r, [req[r] EXCEPT !.pc = "plan", !.claim = NoMark,
                            !.errs = {req[r].at} \cup ErrorPaths(req[r].claim),
                            !.ok = req[r].cmd.kind = "reindex"])
    /\ UNCHANGED <<load, file, rows, tx, lane>>

-----------------------------------------------------------------------------
(* What is left to do once a note is written                               *)

First(S) == CHOOSE p \in S : \A q \in S : p <= q
NextError(r) == First(req[r].errs)

RecordIndexError(r) ==
    LET p == NextError(r) IN
        /\ req[r].pc = "plan" /\ req[r].errs # {}
        /\ ~Blocked(r, ErrorKeys(r, p), p)
        /\ RecordError(r, p)
        /\ Go(r, [req[r] EXCEPT !.errs = @ \ {p}])
        /\ UNCHANGED <<load, file, rows, lane>>

RecordFails(r) ==
    /\ req[r].pc = "plan" /\ req[r].errs # {}
    /\ Blocked(r, ErrorKeys(r, NextError(r)), NextError(r))
    /\ Fail(r)
    /\ UNCHANGED <<load, file, rows, tx, lane>>

PickUpsert(r) ==
    LET s == req[r]
        p == First(s.todo)
    IN  /\ s.pc = "plan" /\ s.ok /\ s.errs = {} /\ s.todo # {}
        /\ Go(r, [s EXCEPT !.pc = "load", !.at = p, !.doc = s.seen[p], !.todo = @ \ {p}])
        /\ UNCHANGED <<load, file, rows, tx, lane>>

\* Relation m cannot be completed: a reindex records it and goes on.
GiveUp(s, m) == [s EXCEPT !.pc = "plan", !.claim = NoMark, !.errs = ErrorPaths(m),
                          !.ok = s.cmd.kind = "reindex"]

\* mark_superseded
MarkSuperseded(r) ==
    LET s == req[r]
        m == Head(s.marks)
        row == View(r)[m.old]
        rest == [s EXCEPT !.marks = Tail(s.marks)]
    IN /\ s.pc = "plan" /\ s.ok /\ s.errs = {} /\ s.todo = {} /\ s.marks # <<>>
       /\ IF row = NoRow \/ row.source.supersededBy \notin {NoId, m.new}
          THEN Go(r, GiveUp(rest, m))
          ELSE IF row.source.supersededBy = m.new /\ row.doc.status = "superseded"
          THEN Go(r, rest)
          ELSE Go(r, [rest EXCEPT !.pc = "edit", !.claim = m, !.at = row.path,
                                  !.edit = [status |-> "superseded", supersedes |-> NoId,
                                            supersededBy |-> m.new]])
       /\ UNCHANGED <<load, file, rows, tx, lane>>

\* update_scalars: the fields of the edit replace those of the file, if there is
\* one, and the result is written and indexed like any note.
EditOf(d, e, r) ==
    [d EXCEPT !.status = IF e.status = "" THEN @ ELSE e.status,
              !.supersedes = IF e.supersedes = NoId THEN @ ELSE e.supersedes,
              !.supersededBy = IF e.supersededBy = NoId THEN @ ELSE e.supersededBy,
              !.by = r]

UpdateScalars(r) ==
    LET s == req[r] IN
        /\ s.pc = "edit"
        /\ IF file[s.at] # NoDoc
           THEN Go(r, [s EXCEPT !.pc = "persist", !.doc = EditOf(file[s.at], s.edit, r)])
           ELSE Go(r, GiveUp(s, s.claim))
        /\ UNCHANGED <<load, file, rows, tx, lane>>

\* mark_documents_stale: the rows of files that are gone are dropped.
MarkStale(r) ==
    LET s == req[r]
        dropped == {i \in RowIds : View(r)[i].path \in s.gone}
    IN /\ s.pc = "plan" /\ s.errs = {} /\ s.todo = {} /\ s.marks = <<>> /\ s.ok
       /\ IF \E q \in Requests \ {r} : \E i \in dropped : tx[q][i] # Same
          THEN Fail(r) /\ UNCHANGED tx
          ELSE /\ tx' = [tx EXCEPT ![r] = [i \in RowIds |-> IF i \in dropped THEN NoRow
                                                            ELSE @[i]]]
               /\ Go(r, [s EXCEPT !.pc = "leave"])
       /\ UNCHANGED <<load, file, rows, lane>>

Abort(r) ==
    /\ req[r].pc = "plan" /\ req[r].errs = {} /\ ~req[r].ok
    /\ Fail(r)
    /\ UNCHANGED <<load, file, rows, tx, lane>>

-----------------------------------------------------------------------------
(* Archive, supersede and repair: no lane                                  *)

\* read_note: the path of the row if its file is the note, else the only file of
\* the vault with that id; 0 if there is no such path.
NotePath(r, i) ==
    LET row == View(r)[i]
        holders == {p \in Paths : file[p].id = i}
    IN IF row # NoRow /\ file[row.path] # NoDoc
       THEN IF file[row.path].id = i THEN row.path ELSE 0
       ELSE IF Cardinality(holders) = 1 THEN CHOOSE p \in holders : TRUE
       ELSE 0

ArchiveContext(r) ==
    LET p == NotePath(r, req[r].cmd.id) IN
        /\ req[r].pc = "locate" /\ req[r].cmd.kind = "archive"
        /\ IF p = 0
           THEN Fail(r)
           ELSE Go(r, [req[r] EXCEPT !.pc = "edit", !.at = p,
                         !.edit = [status |-> "archived", supersedes |-> NoId,
                                   supersededBy |-> NoId]])
        /\ UNCHANGED <<load, file, rows, tx, lane>>

\* supersede: the replacement is written first unless it already names the
\* target, which mark_superseded then completes from its row.
SupersedeContext(r) ==
    LET c == req[r].cmd
        p == NotePath(r, c.id)
        q == NotePath(r, c.of)
        old == file[p]
        new == file[q]
        mark == [old |-> c.id, new |-> c.of, path |-> 0]
    IN /\ req[r].pc = "locate" /\ c.kind = "supersede"
       /\ IF \/ p = 0 \/ q = 0 \/ c.id = c.of
             \/ old.supersededBy \notin {NoId, c.of}
             \/ new.supersedes \notin {NoId, c.id}
          THEN Fail(r)
          ELSE IF /\ old.supersededBy = c.of /\ old.status = "superseded"
                  /\ new.supersedes = c.id
          THEN Go(r, [req[r] EXCEPT !.pc = "leave"])
          ELSE Go(r, [req[r] EXCEPT
                  !.marks = <<mark>>, !.at = q,
                  !.pc = IF new.supersedes = NoId THEN "edit" ELSE "plan",
                  !.edit = [status |-> IF new.supersededBy = NoId THEN "current" ELSE "",
                            supersedes |-> c.id, supersededBy |-> NoId]])
       /\ UNCHANGED <<load, file, rows, tx, lane>>

\* repair_note_raw: the whole text is replaced if it is still the one the client
\* has read.
RepairNoteRaw(r) ==
    LET s == req[r] IN
        /\ s.pc = "source"
        /\ IF file[s.at] = s.token
           THEN Go(r, [s EXCEPT !.pc = "persist",
                                !.doc = [s.token EXCEPT !.body = s.cmd.body, !.by = r]])
           ELSE Fail(r)
        /\ UNCHANGED <<load, file, rows, tx, lane>>

-----------------------------------------------------------------------------
(* reindex: fail-fast, alone in the lane                                   *)

EnterReindex(r) ==
    /\ req[r].pc = "enter" /\ req[r].cmd.kind = "reindex"
    /\ IF \A q \in Requests : lane[q] = "none"
       THEN Lane!GrantExclusive(r) /\ Go(r, [req[r] EXCEPT !.pc = "scan"])
       ELSE Fail(r) /\ UNCHANGED lane
    /\ UNCHANGED <<load, file, rows, tx>>

\* One file after the other is read and parsed.
Scan(r) ==
    LET seen == Append(req[r].seen, file[Len(req[r].seen) + 1]) IN
        /\ req[r].pc = "scan"
        /\ Go(r, [req[r] EXCEPT !.seen = seen,
                                !.pc = IF Len(seen) = NPaths THEN "compile" ELSE "scan"])
        /\ UNCHANGED <<load, file, rows, tx, lane>>

\* The candidates of a list of files, as ManifestRules wants them.
Notes(files) ==
    [p \in {p \in Paths : files[p] # NoDoc} |->
        [id |-> files[p].id, path |-> p, context |-> TRUE, identity |-> files[p].body,
         supersedes |-> files[p].supersedes, supersededBy |-> files[p].supersededBy]]

\* list_compiled_document_states: the rows of indexed notes, by path
IndexedAt(view, p) == {i \in RowIds : view[i].path = p /\ view[i].doc # NoDoc}

\* A variant of Unchanged that does not compare the hash.
UnchangedAnyhow(view, p, d) == IndexedAt(view, p) # {}

\* document_action: an indexed row with the hash of the file needs nothing.
Unchanged(view, p, d) == \E i \in IndexedAt(view, p) : view[i].source = d

\* build_upserts, which are carried out in the order of the paths, and
\* build_removals
Upserts(view, files, accepted) == {p \in accepted : ~Unchanged(view, p, files[p])}

Removals(view, notes) == {p \in Paths \ DOMAIN notes : IndexedAt(view, p) # {}}

Compile(r) ==
    LET s == req[r]
        notes == Notes(s.seen)
        accepted == AcceptedNotes(notes, NoId)
    IN /\ s.pc = "compile"
       /\ Go(r, [s EXCEPT !.pc = "plan", !.errs = DOMAIN notes \ accepted,
                          !.todo = Upserts(View(r), s.seen, accepted),
                          !.gone = Removals(View(r), notes)])
       /\ UNCHANGED <<load, file, rows, tx, lane>>

-----------------------------------------------------------------------------
(* The end of a request, and of the server                                 *)

LeaveLane(r) ==
    /\ req[r].pc = "leave"
    /\ Lane!Leave({r})
    /\ Go(r, [req[r] EXCEPT !.pc = "respond"])
    /\ UNCHANGED <<load, file, rows, tx>>

\* database_session_middleware
Respond(r) ==
    /\ req[r].pc = "respond"
    /\ IF req[r].ok THEN Commit(r) ELSE Rollback(r)
    /\ Go(r, [Idle EXCEPT !.pc = "done", !.ok = req[r].ok])
    /\ UNCHANGED <<load, file, lane>>

Crash ==
    /\ load.crashes
    /\ \E r \in Requests : Running(r)
    /\ req' = [r \in Requests |-> IF Running(r) THEN [Idle EXCEPT !.pc = "done", !.ok = FALSE]
                                  ELSE req[r]]
    /\ tx' = [r \in Requests |-> Untouched]
    /\ lane' = [r \in Requests |-> "none"]
    /\ UNCHANGED <<load, file, rows>>

\* The owner of the vault deletes a file.
Remove(p) ==
    /\ MayHappen
    /\ file[p] # NoDoc
    /\ file' = [file EXCEPT ![p] = NoDoc]
    /\ UNCHANGED <<load, rows, tx, lane, req>>

Step(r) ==
    \/ Enter(r) \/ Lookup(r) \/ Fence(r) \/ Check(r)
    \/ Persist(r) \/ Parse(r) \/ Load(r) \/ Flush(r) \/ FlushFails(r)
    \/ RecordIndexError(r) \/ RecordFails(r) \/ PickUpsert(r) \/ MarkSuperseded(r)
    \/ UpdateScalars(r) \/ MarkStale(r) \/ Abort(r)
    \/ ArchiveContext(r) \/ SupersedeContext(r) \/ RepairNoteRaw(r)
    \/ EnterReindex(r) \/ Scan(r) \/ Compile(r)
    \/ LeaveLane(r) \/ Respond(r)

Next ==
    \/ \E r \in Requests : Start(r) \/ Step(r)
    \/ Crash
    \/ \E p \in load.removable : Remove(p)

Served == (\A r \in 1..load.requests : req[r].pc = "done") /\ UNCHANGED vars

Spec == Init /\ [][Next \/ Served]_vars

\* The event loop, the worker threads and PostgreSQL run every request on; a
\* statement that waits for a lock fails after lock_timeout.
FairSpec == Spec /\ \A r \in Requests : WF_vars(Step(r))

-----------------------------------------------------------------------------
(* Properties                                                              *)

Pcs == {"idle", "enter", "lookup", "fence", "check", "persist", "parse", "load", "flush",
        "plan", "edit", "locate", "source", "scan", "compile", "leave", "respond", "done"}

Edits == [status : {"", "current", "archived", "superseded"},
          supersedes : RowIds \cup {NoId}, supersededBy : RowIds \cup {NoId}]

Marks == [old : RowIds, new : RowIds, path : Paths \cup {0}]

Frames == [pc : Pcs, cmd : Commands, id : RowIds \cup {NoId}, at : Paths \cup {0},
           doc : Documents \cup {NoDoc}, row : Rows \cup {NoRow},
           foundAt : RowIds \cup {NoId}, edit : Edits \cup {NoEdit},
           token : Documents \cup {NoDoc}, seen : Seq(Documents \cup {NoDoc}),
           errs : SUBSET Paths, todo : SUBSET Paths, marks : Seq(Marks),
           claim : Marks \cup {NoMark}, gone : SUBSET Paths, ok : BOOLEAN]

\* The types of the variables, those of the store and the lane included.
TypeOK ==
    /\ load \in Workloads
    /\ file \in [Paths -> Documents \cup {NoDoc}]
    /\ StoreTypeOK
    /\ Lane!TypeOK
    /\ req \in [Requests -> Frames]

\* Every request of the workload takes the lane for itself (compare-and-swap saves
\* and reindexes) and nobody else touches the vault.
Serialized ==
    /\ load.removable = {}
    /\ \A c \in load.commands : c.kind = "reindex" \/ (c.kind = "save" /\ c.token # NoToken)

\* The requests serialize in the lane, or are made one after the other.
Isolated == Serialized \/ ~load.overlap

ReplacesToken(r) ==
    (/\ req[r].pc = "persist" /\ req'[r].pc = "parse"
     /\ req[r].cmd.token # NoToken /\ req[r].claim = NoMark)
    => /\ file[req[r].at] = req[r].token
       /\ file[req[r].at].body = req[r].cmd.token

\* Whatever else is going on, a compare-and-swap replaces the content its client
\* has read and nothing else (_validate_expected_source_state).
CasExactAlways == [][\A r \in Requests : ReplacesToken(r)]_vars

\* Among requests that serialize in the lane, or that are made one after the other,
\* a compare-and-swap replaces the content its client has read and nothing else:
\* when the file is written it is still the document that the fence verified, and
\* its body is the one the token names, although the row that was compared may be
\* older than the file and its writer not yet committed (_save_note_serialized with
\* _validate_expected_source_state).
CasExact == [][Isolated => \A r \in Requests : ReplacesToken(r)]_vars

\* A row that carries the hash of a text has the columns of that text: reindex
\* skips a note whose hash is unchanged, and the fence of a compare-and-swap
\* trusts the hash, so a row that fails this is never repaired
\* (document_action, source_matches_hash).
RowHonestAlways == \A i \in RowIds : rows[i] # NoRow => rows[i].doc = rows[i].source

\* The same among requests that serialize in the lane, although their sessions
\* commit after they have left it, and among requests made one after the other
\* (_upsert_note, database_session_middleware).
RowHonest == Isolated => RowHonestAlways

\* The id of a note is stable: whoever rewrites its file keeps the id
\* (the choice of note_id in _save_note_serialized).
IdStable ==
    [][\A p \in Paths : file[p] # NoDoc /\ file'[p] # NoDoc => file'[p].id = file[p].id]_vars

\* A replacement is final: a Context that has been replaced is not given another
\* replacement (_validate_supersede_relations, mark_superseded).
SupersededOnce ==
    [][\A p \in Paths :
        (/\ file[p] # NoDoc /\ file'[p] # NoDoc
         /\ file[p].supersededBy # NoId /\ file'[p].supersededBy # NoId)
        => file'[p].supersededBy = file[p].supersededBy]_vars

Ending(r) == req[r].pc = "respond" /\ req[r].ok /\ req[r].cmd.kind = "reindex"

\* A reindex that succeeds leaves nothing stale behind: for every file that is as
\* the scan found it, or that the reindex itself has edited, the row is made from
\* that file or reports an error, and there is no note row without a file
\* (_reindex_serialized).
NothingStaleAlways ==
    \A r \in Requests : Ending(r) =>
        \A p \in Paths :
            (file[p] = req[r].seen[p] \/ (file[p] # NoDoc /\ file[p].by = r))
            => \A i \in IndexedAt(View(r), p) : View(r)[i] = NoteRow(p, file[p])

\* The same among requests that serialize in the lane, although a session may
\* commit while a later reindex runs, and among requests made one after the other,
\* whichever of them fail or die half way.
NothingStale == Isolated => NothingStaleAlways

\* What accepted note p supersedes is marked as superseded by it.
Completed(p, accepted) ==
    \A q \in accepted : file[p].supersedes = file[q].id =>
        file[q].status = "superseded" /\ file[q].supersededBy = file[p].id

\* When no other request interferes, a reindex brings the index up to date: exactly
\* the notes that pass the manifest are indexed, and a supersede relation that an
\* earlier request left half done is completed if the reindex has to index the note
\* that replaces, because the committed row does not stand for its file
\* (_reindex_serialized and its mark_superseded loop).
Rebuilt ==
    \A r \in Requests : Ending(r) /\ ~load.overlap =>
        LET accepted == AcceptedNotes(Notes(file), NoId) IN
            /\ \A p \in accepted : View(r)[file[p].id] = NoteRow(p, file[p])
            /\ \A p \in Paths \ accepted : IndexedAt(View(r), p) = {}
            /\ \A p \in accepted :
                  rows[file[p].id] # NoteRow(p, req[r].seen[p]) => Completed(p, accepted)

\* The same for every accepted note, whoever has indexed it.
RelationsRebuilt ==
    \A r \in Requests : Ending(r) /\ ~load.overlap =>
        LET accepted == AcceptedNotes(Notes(file), NoId) IN
            \A p \in accepted : Completed(p, accepted)

\* Every request is answered: requests that wait for each other's row locks, or
\* for the lane, do not wait for ever.
RequestsFinish == \A r \in Requests : Running(r) ~> ~Running(r)


-----------------------------------------------------------------------------
(* The inductive invariants                                                *)

Body == {"lookup", "fence", "check", "persist", "parse", "load", "flush", "plan", "edit",
         "scan", "compile"}

\* What a request has in hand at each of its steps.
FrameShape(s) ==
    /\ s.pc \in {"lookup", "fence", "check"} => s.cmd.kind = "save"
    /\ s.pc = "enter" => s.cmd.kind \in {"save", "reindex"} /\ s.seen = <<>>
    /\ s.pc \in {"enter", "lookup", "fence", "check"} => s.claim = NoMark
    /\ s.pc \in {"enter", "lookup", "fence", "check"} => s.at = s.cmd.path
    /\ s.pc = "check" => s.id \in RowIds
    /\ s.pc \in {"persist", "parse", "load", "flush", "edit", "source"} => s.at \in Paths
    /\ s.pc \in {"persist", "load", "flush"} => s.doc \in Documents
    /\ s.pc = "edit" => s.edit \in Edits
    /\ s.pc = "source" => s.token \in Documents /\ s.cmd.kind = "repair"
    /\ s.pc = "locate" => s.cmd.kind \in {"archive", "supersede"}
    /\ s.pc \in {"scan", "compile"} => s.cmd.kind = "reindex"
    /\ s.pc = "scan" => Len(s.seen) < NPaths
    /\ s.pc = "compile" => Len(s.seen) = NPaths
    /\ (s.cmd.kind = "reindex" /\ s.ok
           /\ s.pc \notin {"idle", "enter", "scan", "compile", "done"})
       => Len(s.seen) = NPaths
    /\ s.todo # {} => /\ s.cmd.kind = "reindex"
                      /\ s.pc \in {"plan", "load", "flush"} \/ (s.pc \in {"leave", "respond"} /\ ~s.ok)
    /\ \A p \in s.todo : Len(s.seen) = NPaths /\ s.seen[p] \in Documents
    /\ s.pc \in {"idle", "done"} => s.cmd = Reindex
    /\ s.pc \notin {"plan", "leave", "respond", "done"} => s.ok

LaneExclusive ==
    \A q, r \in Requests : lane[q] = "exclusive" /\ q # r => lane[r] = "none"

FramesInv == TypeOK /\ LaneExclusive /\ \A r \in Requests : FrameShape(req[r])

\* Among requests that serialize in the lane every note keeps its first id and path.
GoodDoc(p, d) ==
    /\ d \in Documents
    /\ d.id = p
    /\ d.status # "archived"
    /\ d.status = "superseded" => d.supersededBy # NoId

GoodRow(i, x) ==
    \/ x = NoRow
    \/ i \in Paths /\ x # NoRow /\ GoodDoc(i, x.doc) /\ x = NoteRow(i, x.doc)
    \/ \E p \in Paths : i = ErrorId(p) /\ x = ErrorRow(p)

\* The session of q has written one of the two keys that stand for path p.
Held(q, p) == tx[q][p] # Same \/ tx[q][ErrorId(p)] # Same

\* It has written a note there.
Note(x) == x \notin {Same, NoRow}

OneRow(view, p) == view[p] = NoRow <=> view[ErrorId(p)] # NoRow

Stored ==
    /\ \A p \in Paths : file[p] = NoDoc \/ GoodDoc(p, file[p])
    /\ \A i \in RowIds : GoodRow(i, rows[i])
    /\ \A q \in Requests : \A i \in RowIds : tx[q][i] = Same \/ GoodRow(i, tx[q][i])

\* Every file has one row, a note or an error, in every view, no note is without
\* its file, and who writes a row locks it.
Paired ==
    \A p \in Paths :
        /\ file[p] # NoDoc => OneRow(rows, p) /\ \A q \in Requests : OneRow(View(q), p)
        /\ file[p] = NoDoc => rows[p] = NoRow /\ \A q \in Requests : ~Note(tx[q][p])
        /\ \A q \in Requests : /\ tx[q][p] = NoRow => tx[q][ErrorId(p)] # Same
                               /\ tx[q][ErrorId(p)] = NoRow => tx[q][p] # Same
        /\ \A q, r \in Requests : q # r /\ Held(q, p) => ~Held(r, p)

Serial(r) ==
    LET s == req[r] IN
        /\ s.pc \notin {"locate", "source"}
        /\ s.pc \in Body => lane[r] = "exclusive"
        /\ s.cmd.kind = "reindex" \/ (s.cmd.kind = "save" /\ s.cmd.token # NoToken)
        /\ s.gone = {}

\* No document of request r exists before it has written one, and nobody else has
\* indexed it before it has left the lane.
Unwritten(r) ==
    /\ req[r].pc \in {"idle", "enter"} =>
          \A p \in Paths : file[p] # NoDoc => file[p].by # r
    /\ req[r].pc \in {"idle", "enter"} \cup Body =>
          /\ \A p \in Paths : rows[p] # NoRow => rows[p].doc.by # r
          /\ \A q \in Requests \ {r} : \A p \in Paths :
                Note(tx[q][p]) => tx[q][p].doc.by # r
          /\ \A q \in Requests \ {r} : \A p \in DOMAIN req[q].seen :
                req[q].seen[p] # NoDoc => req[q].seen[p].by # r

\* Writing the columns in which document f differs from the row l that was loaded
\* over the row n that is there by now gives the columns of f.
MergeSafe(l, n, f) ==
    /\ f.body = l.body => n.body = f.body
    /\ f.status = l.status => n.status = f.status

\* Request r has written the file of p and not yet the row.
OnTheWay(r, p) ==
    \/ req[r].pc \in {"parse", "load", "flush"} /\ req[r].at = p
    \/ req[r].pc = "plan" /\ p \in req[r].errs

\* What a session has yet to commit, against the row that it replaces and the file
\* as it is by now.
Pending(r) ==
    \A p \in Paths :
        (req[r].ok /\ ~OnTheWay(r, p) /\ Note(tx[r][p]) /\ rows[p] # NoRow) =>
            /\ MergeSafe(rows[p].doc, tx[r][p].doc, file[p])
            /\ rows[p].doc = file[p] => tx[r][p] = rows[p]

\* A compare-and-swap between its lookup and its write.
Swapping(r) ==
    LET s == req[r] IN
        /\ s.pc \in {"fence", "check"} \/ (s.pc = "persist" /\ s.claim = NoMark) =>
              /\ s.at \in Paths /\ s.id = s.at /\ s.row # NoRow /\ GoodRow(s.at, s.row)
              /\ s.row.doc.body = s.cmd.token
              /\ file[s.at] # NoDoc
              /\ \A q \in Requests \ {r} : Held(q, s.at) => rows[s.at] = s.row
        /\ s.pc = "check" \/ (s.pc = "persist" /\ s.claim = NoMark) =>
              s.token = file[s.at] /\ s.token = s.row.doc

\* The document to write, and the edit of the Context that it supersedes.
Writing(r) ==
    LET s == req[r] IN
        /\ s.pc = "persist" => GoodDoc(s.at, s.doc) /\ s.doc.by = r
        /\ s.pc = "edit" => /\ s.edit.status = "superseded" /\ s.edit.supersededBy # NoId
                            /\ s.claim # NoMark
        /\ s.pc \in {"persist", "parse"} => file[s.at] # NoDoc
        /\ s.pc = "persist" /\ s.claim # NoMark =>
              s.doc.body = file[s.at].body /\ s.doc.status = "superseded"
        /\ s.pc \in {"edit", "persist"} /\ s.claim # NoMark =>
              \A q \in Requests \ {r} :
                  Held(q, s.at) /\ rows[s.at] # NoRow => rows[s.at].doc.status # "superseded"

\* The document that is being indexed is the file, and can be merged.
Indexing(r) ==
    LET s == req[r] IN
        /\ s.pc \in {"load", "flush"} => s.doc = file[s.at]
        /\ s.pc = "flush" =>
              /\ s.foundAt = IF s.row = NoRow THEN ErrorId(s.at) ELSE s.at
              /\ GoodRow(s.at, s.row)
              /\ s.row # NoRow =>
                    /\ View(r)[s.at] # NoRow =>
                          MergeSafe(s.row.doc, View(r)[s.at].doc, s.doc)
                    /\ \A q \in Requests \ {r} :
                          req[q].ok /\ tx[r][s.at] = Same /\ Note(tx[q][s.at]) =>
                              MergeSafe(s.row.doc, tx[q][s.at].doc, s.doc)

\* What a reindex has seen is what is there until it has written its first file.
Seen(r) ==
    LET s == req[r] IN
        (s.cmd.kind = "reindex" /\ s.pc \in Body /\ (s.pc \in {"scan", "compile"} \/ s.todo # {}))
        => \A p \in DOMAIN s.seen : s.seen[p] = file[p]

Past == {"plan", "load", "flush", "edit", "persist", "parse", "leave", "respond"}

\* A path that a reindex has dealt with is up to date, whoever commits first.
Dealt(r) ==
    LET s == req[r] IN
        (s.cmd.kind = "reindex" /\ s.ok /\ s.pc \in Past) =>
            \A p \in Paths :
                (/\ ~OnTheWay(r, p) /\ p \notin s.todo
                 /\ file[p] = s.seen[p] \/ (file[p] # NoDoc /\ file[p].by = r)) =>
                    /\ View(r)[p] # NoRow => View(r)[p] = NoteRow(p, file[p])
                    /\ \A q \in Requests \ {r} :
                          req[q].ok /\ tx[r][p] = Same /\ Note(tx[q][p]) =>
                              tx[q][p] = NoteRow(p, file[p])

SerialRequest(r) ==
    /\ Serial(r) /\ Unwritten(r) /\ Swapping(r) /\ Writing(r)
    /\ Indexing(r) /\ Seen(r) /\ Dealt(r) /\ Pending(r)

SerialFacts == Stored /\ Paired /\ \A r \in Requests : SerialRequest(r)

SerialInv == Serialized => SerialFacts

\* Two rows of a view are not at the same path.
PathsUnique(view) ==
    \A i, j \in RowIds : view[i].path = view[j].path /\ view[i] # NoRow => i = j

Honest(view) == \A i \in RowIds : view[i] # NoRow => view[i].doc = view[i].source

\* When requests are made one after the other only one of them has a session, ...
Alone(r) ==
    /\ Running(r) => \A q \in Requests \ {r} : ~Running(q)
    /\ ~Running(r) => tx[r] = Untouched
    /\ Honest(View(r)) /\ PathsUnique(View(r))

\* ... what it has read is still so, ...
Undisturbed(r) ==
    LET s == req[r] IN
        /\ s.pc = "fence" /\ s.cmd.token # NoToken =>
              /\ s.row # NoRow /\ s.row.doc = s.row.source
              /\ s.row.doc # NoDoc /\ s.row.doc.body = s.cmd.token
        /\ s.pc = "check" \/ (s.pc = "persist" /\ s.claim = NoMark /\ s.cmd.token # NoToken) =>
              /\ s.token = file[s.at]
              /\ s.cmd.token # NoToken => s.token.body = s.cmd.token
        /\ s.pc = "edit" /\ s.claim = NoMark => s.cmd.token = NoToken
        /\ s.pc \in {"load", "flush"} => s.doc = file[s.at]
        /\ s.pc = "flush" => /\ s.row = View(r)[s.doc.id]
                             /\ s.foundAt = IdAt(View(r), s.at)

\* ... and a reindex leaves no path behind.
UpToDate(r, p) == \A i \in IndexedAt(View(r), p) : View(r)[i].source = file[p]

Progress(r) ==
    LET s == req[r] IN
        (s.cmd.kind = "reindex" /\ s.ok /\ s.pc \in Past) =>
            \A p \in Paths :
                \/ UpToDate(r, p)
                \/ OnTheWay(r, p) \/ p \in s.todo
                \/ p \in s.gone /\ s.pc \notin {"leave", "respond"}

SoloFacts ==
    /\ Honest(rows) /\ PathsUnique(rows)
    /\ \A r \in Requests : Alone(r) /\ Undisturbed(r) /\ Seen(r) /\ Progress(r)

SoloInv == ~load.overlap => SoloFacts
=============================================================================
