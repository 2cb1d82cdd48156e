----------------------------- MODULE IndexStore -----------------------------
(***************************************************************************)
(* The table obsidian_files as concurrent request sessions see it.  Every  *)
(* HTTP request has one PostgreSQL session (READ COMMITTED); its writes    *)
(* become visible to others when the session middleware commits, after the *)
(* route has returned.  A session that has written a row holds the row's   *)
(* lock until then.                                                        *)
(*                                                                         *)
(* Ids are numbers: the note first found at path p has id p, a note        *)
(* created by request r the fresh id NewId(r), and ErrorId(p) is the key   *)
(* under which an indexing error of path p is stored.                      *)
(***************************************************************************)
EXTENDS Naturals, FiniteSets

CONSTANTS NPaths,     \* Markdown paths of the vault
          NRequests,  \* requests served
          Bodies      \* note contents

ASSUME StoreAssumption == NPaths \in Nat \ {0} /\ NRequests \in Nat

Paths == 1..NPaths
Requests == 1..NRequests
NoId == 0

NewId(r) == NPaths + r
ErrorId(p) == NPaths + NRequests + p
RowIds == 1..(2 * NPaths + NRequests)

\* What a Markdown file holds, and what the row of a note is built from.
\* "by" is the request that wrote the text last: it stands for updated_at, which
\* makes the text of every write, and so its hash, a new one.
Documents == [id : RowIds, body : Bodies, status : {"current", "archived", "superseded"},
              supersedes : RowIds \cup {NoId}, supersededBy : RowIds \cup {NoId},
              by : 0..NRequests]

\* No document; the frontmatter of an indexing error names no replacement.
NoDoc == [id |-> NoId, supersededBy |-> NoId]
NoRow == [path |-> 0]
Same == [path |-> NPaths + 1]     \* the session has not touched the row

\* A row: its columns, and the document whose text hash it carries.  The row of
\* an indexing error has no document.
NoteRow(p, d) == [path |-> p, doc |-> d, source |-> d]
ErrorRow(p) == [path |-> p, doc |-> NoDoc, source |-> NoDoc]

Rows == [path : Paths, doc : Documents \cup {NoDoc}, source : Documents \cup {NoDoc}]

VARIABLES rows,   \* committed rows, by note_id
          tx      \* tx[r]: the rows the session of r has written or deleted

StoreTypeOK ==
    /\ rows \in [RowIds -> Rows \cup {NoRow}]
    /\ tx \in [Requests -> [RowIds -> Rows \cup {NoRow, Same}]]

Untouched == [i \in RowIds |-> Same]

View(r) == [i \in RowIds |-> IF tx[r][i] = Same THEN rows[i] ELSE tx[r][i]]

\* get_obsidian_file_by_path: the key of the row at path p, an error row
\* included
IdAt(view, p) ==
    IF \E i \in RowIds : view[i].path = p
    THEN CHOOSE i \in RowIds : view[i].path = p
    ELSE NoId

RowOf(view, i) == IF i = NoId THEN NoRow ELSE view[i]

\* Another session holds the lock of one of the rows, or of a row it has put at
\* path p, whose unique index entry it owns.
Blocked(r, keys, p) ==
    \E q \in Requests \ {r} : \E i \in RowIds :
        tx[q][i] # Same /\ (i \in keys \/ tx[q][i].path = p)

\* The keys that upsert_note writes: its own, and that of a row of another note
\* it found at the path and discards.
UpsertKeys(d, foundAt) == {d.id} \cup ({foundAt} \ {NoId})

\* The statement cannot succeed: an INSERT meets a key or a path that is taken by
\* now, an UPDATE a row that is gone.
UpsertClashes(r, d, p, loaded, foundAt) ==
    LET now == View(r) IN
        \/ (loaded = NoRow) # (now[d.id] = NoRow)
        \/ \E i \in RowIds \ UpsertKeys(d, foundAt) : now[i].path = p

\* The ORM writes the columns whose value differs from the one it loaded, so a
\* column that another session has changed in between keeps that value unless
\* this document changes it too.  The frontmatter and the source hash carry the
\* time of the write and always differ.
Merge(d, p, loaded, now) ==
    IF loaded = NoRow \/ loaded.doc = NoDoc \/ now.doc = NoDoc
    THEN NoteRow(p, d)
    ELSE [path |-> p, source |-> d,
          doc |-> [d EXCEPT !.body = IF @ = loaded.doc.body THEN now.doc.body ELSE @,
                            !.status = IF @ = loaded.doc.status THEN now.doc.status ELSE @]]

\* upsert_note, from the flush on: the savepoint holds the whole of it
Upsert(r, d, p, loaded, foundAt) ==
    tx' = [tx EXCEPT ![r] =
             [i \in RowIds |->
                CASE i = d.id -> Merge(d, p, loaded, View(r)[i])
                  [] i = foundAt /\ i # d.id -> NoRow
                  [] OTHER -> @[i]]]

\* record_index_error: the row at the path gives way to an error row.
RecordError(r, p) ==
    tx' = [tx EXCEPT ![r] =
             [i \in RowIds |->
                CASE i = ErrorId(p) -> ErrorRow(p)
                  [] i = IdAt(View(r), p) /\ i # ErrorId(p) -> NoRow
                  [] OTHER -> @[i]]]

ErrorKeys(r, p) == {ErrorId(p)} \cup ({IdAt(View(r), p)} \ {NoId})

\* The session middleware ends the transaction of a request.
Commit(r) == rows' = View(r) /\ tx' = [tx EXCEPT ![r] = Untouched]

Rollback(r) == tx' = [tx EXCEPT ![r] = Untouched] /\ UNCHANGED rows

=============================================================================
