--------------------------- MODULE VerifiedWrites ---------------------------
(***************************************************************************)
(* Verified upsert of the note of one logical identity, and relate, which  *)
(* adds a link to it.  Both hold the maintenance lane from the load of the *)
(* key's checkpoint file to their answer; the owner of the vault and a     *)
(* request to archive the note do not.                                     *)
(* The note file and the checkpoint files are replaced atomically, the row *)
(* of the index is visible after a commit, and the process may die between *)
(* any two of these.                                                       *)
(***************************************************************************)
EXTENDS Integers, FiniteSets

CONSTANTS Paths,      \* where the note may be
          Canonical,  \* the path generated for the identity
          Keys,       \* idempotency keys of upserts
          RelateKeys, \* idempotency keys of relates
          Bodies,
          Metas,      \* title, tags and provenance of a note
          Plain,      \* those of a note that no upsert has written
          Targets,    \* notes a relate may link to
          MaxOwner,   \* changes by the owner of the vault
          MaxFaults,  \* failing calls and crashes
          None

ASSUME VerifiedWritesAssumption ==
    /\ IsFiniteSet(Paths) /\ Canonical \in Paths
    /\ Keys \cap RelateKeys = {}
    /\ Plain \in Metas
    /\ {MaxOwner, MaxFaults} \subseteq Nat
    /\ None \notin Paths \cup Keys \cup RelateKeys \cup Bodies \cup Targets

VARIABLES file,     \* the note at each path
          index,    \* committed rows
          graph,    \* targets of the active graph projection
          cp,       \* checkpoint of each upsert key
          rcp,      \* checkpoint of each relate key
          run,      \* the operation that holds the lane
          writes,   \* writes[k]: how often key k has replaced the note
          related,  \* links that relates have written
          owner,    \* number of changes by the owner
          during,   \* the vault has been changed by others during an operation
          faults

vars == <<file, index, graph, cp, rcp, run, writes, related, owner, during, faults>>

Notes == [id : Keys \cup {"seed"}, body : Bodies, meta : Metas, links : SUBSET Targets,
          active : BOOLEAN]

\* content_hash covers the body with its managed section of links, no metadata.
Hash(note) == <<note.body, note.links>>
Hashes == Bodies \X SUBSET Targets

Requests == [body : Bodies, meta : Metas, expected : Hashes \cup {None}]
Relations == [target : Targets, expected : Hashes \cup {None}]

Ids == Keys \cup {"seed"}
States == {"INTENT", "STARTED", "UNKNOWN", "LOST", "COMPLETED"}
Checkpoints == [state : States, req : Requests, path : Paths, target : Ids \cup {None},
                note : Ids \cup {None}, hash : Hashes \cup {None}]
RelateCheckpoints == [state : {"COMPLETED", "WARNINGS"}, req : Relations, hash : Hashes]

ASSUME NoneAssumption ==
    /\ None \notin Notes /\ None \notin Hashes /\ None \notin Requests
    /\ None \notin Checkpoints /\ None \notin Ids

NoRun == [pc |-> "idle", key |-> None, req |-> None, path |-> None, target |-> None,
          rows |-> None, new |-> None]
LaneFree == run.pc = "idle"

Init ==
    /\ \/ file = [p \in Paths |-> None]
       \/ \E b \in Bodies :
            file = [p \in Paths |-> IF p # Canonical THEN None ELSE
                      [id |-> "seed", body |-> b, meta |-> Plain, links |-> {}, active |-> TRUE]]
    /\ index = file
    /\ graph = {}
    /\ cp = [k \in Keys |-> None]
    /\ rcp = [k \in RelateKeys |-> None]
    /\ run = NoRun
    /\ writes = [k \in Keys |-> 0]
    /\ related = {}
    /\ owner = 0
    /\ during = FALSE
    /\ faults = 0

Present(p) == file[p] # None
Fault == faults < MaxFaults /\ faults' = faults + 1
End == run' = NoRun

-----------------------------------------------------------------------------
(* Upsert                                                                  *)

\* verified_request_matches_note: the managed links are not compared.
Matches(req, note) == note.active /\ note.body = req.body /\ note.meta = req.meta

Checkpoint(state, req, path, target) ==
    [state |-> state, req |-> req, path |-> path, target |-> target,
     note |-> None, hash |-> None]

Completed(req, path) ==
    [Checkpoint("COMPLETED", req, path, file[path].id) EXCEPT
       !.note = file[path].id, !.hash = Hash(file[path])]

\* A variant of Resumable that starts again after a write may have happened.
ResumableAfterStart(k) == cp[k].state # "COMPLETED" /\ ~Present(cp[k].path)

\* _recover_checkpoint goes on with a fresh write only from an intent, and
\* only if there is no note ...
Resumable(k) == cp[k].state = "INTENT" /\ ~Present(cp[k].path)

\* ... completes when exact readback finds what was asked for, and otherwise
\* refuses; "LOST" is an unknown outcome of the source write itself.
Recoverable(k) ==
    /\ cp[k].state \in {"INTENT", "STARTED", "UNKNOWN"}
    /\ Present(cp[k].path)
    /\ cp[k].target \in {None, file[cp[k].path].id}
    /\ Matches(cp[k].req, file[cp[k].path])

UpsertBegin(k, req) ==
    /\ LaneFree
    /\ cp[k] # None => cp[k].req = req /\ Resumable(k)
    /\ run' = [NoRun EXCEPT !.pc = "resolve", !.key = k, !.req = req]
    /\ UNCHANGED <<file, index, graph, cp, rcp, writes, related, owner, during, faults>>

UpsertRecover(k) ==
    /\ LaneFree /\ cp[k] # None /\ Recoverable(k)
    /\ cp' = [cp EXCEPT ![k] = Completed(cp[k].req, cp[k].path)]
    /\ UNCHANGED <<file, index, graph, rcp, run, writes, related, owner, during, faults>>

\* A variant of IdentityMatches that looks at the canonical path only.
CanonicalMatches == {p \in {Canonical} : Present(p) /\ file[p].active}

\* resolve_logical_identity: the active notes of the identity in the vault.
IdentityMatches == {p \in Paths : Present(p) /\ file[p].active}

\* A variant of Replaceable for which the hash is optional.
ReplaceableUnfenced(p) == run.req.expected \in {None, Hash(file[p])}

\* Different active content is replaced only under its current hash.
Replaceable(p) == run.req.expected = Hash(file[p])

SaveCheckpoint(c) == cp' = [cp EXCEPT ![run.key] = c]

\* The matching note is replayed, or must be the expected one; without one
\* the canonical path must be free.  Then the intent is recorded.
UpsertResolve ==
    /\ run.pc = "resolve"
    /\ LET found == IdentityMatches
           intent(p, target) ==
             /\ SaveCheckpoint(Checkpoint("INTENT", run.req, p, target))
             /\ run' = [run EXCEPT !.pc = "start", !.path = p, !.target = target]
       IN \/ Cardinality(found) > 1 /\ End /\ UNCHANGED cp
          \/ /\ Cardinality(found) = 1
             /\ \E p \in found :
                  \/ /\ Matches(run.req, file[p])
                     /\ SaveCheckpoint(Completed(run.req, p)) /\ End
                  \/ /\ ~Matches(run.req, file[p]) /\ ~Replaceable(p)
                     /\ End /\ UNCHANGED cp
                  \/ /\ ~Matches(run.req, file[p]) /\ Replaceable(p)
                     /\ intent(p, file[p].id)
          \/ /\ found = {} /\ Present(Canonical)
             /\ End /\ UNCHANGED cp
          \/ /\ found = {} /\ ~Present(Canonical)
             /\ intent(Canonical, None)
    /\ UNCHANGED <<file, index, graph, rcp, writes, related, owner, during, faults>>

UpsertStart ==
    /\ run.pc = "start"
    /\ SaveCheckpoint(Checkpoint("STARTED", run.req, run.path, run.target))
    /\ run' = [run EXCEPT !.pc = "check"]
    /\ UNCHANGED <<file, index, graph, rcp, writes, related, owner, during, faults>>

\* ObsidianWriteTargetResolver: an unknown path or id has the vault indexed.
Refreshed(p, id) ==
    IF \/ Present(p) /\ index[p] = None
       \/ id # None /\ \A q \in Paths : index[q] # None => index[q].id # id
    THEN file ELSE index

\* A variant of Conflict that does not compare the row with the file.
ConflictIgnoringSource(rows, p, id, expected) ==
    \/ \E q \in Paths \ {p} : rows[q] # None /\ rows[q].id = id
    \/ rows[p] # None /\ id # None /\ rows[p].id # id
    \/ rows[p] = None /\ Present(p)
    \/ expected # None /\ rows[p] = None

\* Selectors must agree, and the expected hash is that of the row, which must
\* be the row of the file as it is.
Conflict(rows, p, id, expected) ==
    \/ \E q \in Paths \ {p} : rows[q] # None /\ rows[q].id = id
    \/ rows[p] # None /\ id # None /\ rows[p].id # id
    \/ rows[p] = None /\ Present(p)
    \/ expected # None /\ (rows[p] = None \/ Hash(rows[p]) # expected \/ file[p] # rows[p])

\* The frontmatter, links included, is merged into that of the row.
Merged(row, id, body, meta, links) ==
    [id |-> IF row # None THEN row.id ELSE id, body |-> body, meta |-> meta, active |-> TRUE,
     links |-> (IF row # None THEN row.links ELSE {}) \cup links]

\* write_note up to the write: a conflict restores the intent; what the row
\* has already is not written.
UpsertCheck ==
    /\ run.pc = "check"
    /\ LET rows == Refreshed(run.path, run.target)
           row == rows[run.path]
           new == Merged(row, run.key, run.req.body, run.req.meta, {})
       IN IF Conflict(rows, run.path, run.target, run.req.expected)
          THEN /\ SaveCheckpoint(Checkpoint("INTENT", run.req, run.path, run.target))
               /\ End
          ELSE /\ run' = [run EXCEPT !.pc = IF new = row THEN "commit" ELSE "write",
                                     !.rows = rows, !.new = new]
               /\ UNCHANGED cp
    /\ UNCHANGED <<file, index, graph, rcp, writes, related, owner, during, faults>>

UpsertWrite ==
    /\ run.pc = "write"
    /\ file' = [file EXCEPT ![run.path] = run.new]
    /\ writes' = [writes EXCEPT ![run.key] = @ + 1]
    /\ run' = [run EXCEPT !.pc = "commit"]
    /\ UNCHANGED <<index, graph, cp, rcp, related, owner, during, faults>>

Unknown(state) ==
    SaveCheckpoint(Checkpoint(state, run.req, run.path, run.target)) /\ End

\* What a failed call looks for in the vault, if that can be read.
FoundWritten(readable) ==
    readable /\ Present(run.path) /\ Matches(run.req, file[run.path])

\* _resolve_write_error, before the file is replaced or after it: an OSError
\* whose readback matches leaves the source write itself unknown.
UpsertWriteError(os, readable) ==
    /\ run.pc \in {"check", "write", "commit"}
    /\ Fault
    /\ Unknown(IF os /\ FoundWritten(readable) THEN "LOST" ELSE "UNKNOWN")
    /\ UNCHANGED <<file, index, graph, rcp, writes, related, owner, during>>

UpsertCommit ==
    /\ run.pc = "commit"
    /\ index' = [run.rows EXCEPT ![run.path] = run.new]
    /\ run' = [run EXCEPT !.pc = "readback"]
    /\ UNCHANGED <<file, graph, cp, rcp, writes, related, owner, during, faults>>

UpsertCommitFails ==
    /\ run.pc = "commit"
    /\ Fault
    /\ Unknown("UNKNOWN")
    /\ UNCHANGED <<file, index, graph, rcp, writes, related, owner, during>>

\* _verified_post_commit_readback and what follows it.
UpsertReadback ==
    /\ run.pc = "readback"
    /\ IF /\ Present(run.path) /\ file[run.path].id = run.new.id
          /\ Matches(run.req, file[run.path])
       THEN SaveCheckpoint(Completed(run.req, run.path)) /\ End
       ELSE Unknown("UNKNOWN")
    /\ UNCHANGED <<file, index, graph, rcp, writes, related, owner, during, faults>>

-----------------------------------------------------------------------------
(* Relate                                                                  *)

\* A key without a checkpoint validates the expected hash; one with it must
\* find the source as recorded, with the link.
RelateBegin(k, req, p) ==
    /\ LaneFree /\ Present(p)
    /\ IF rcp[k] = None
       THEN req.expected \in {None, Hash(file[p])}
       ELSE /\ rcp[k].req = req /\ rcp[k].hash = Hash(file[p])
            /\ req.target \in file[p].links
            /\ rcp[k].state # "COMPLETED" \/ req.target \notin graph
    /\ run' = [NoRun EXCEPT !.key = k, !.req = req, !.path = p, !.new = file[p],
                            !.pc = IF req.target \in file[p].links THEN "relateCommit"
                                                                   ELSE "relateCheck"]
    /\ UNCHANGED <<file, index, graph, cp, rcp, writes, related, owner, during, faults>>

\* ObsidianRelationMutationService: an update with the hash that was read.
RelateCheck ==
    /\ run.pc = "relateCheck"
    /\ LET rows == Refreshed(run.path, run.new.id)
       IN IF Conflict(rows, run.path, run.new.id, Hash(run.new))
          THEN End
          ELSE run' = [run EXCEPT !.pc = "relateWrite", !.rows = rows,
                 !.new = [Merged(rows[run.path], None, @.body, @.meta, {run.req.target}) EXCEPT
                            !.active = run.new.active]]
    /\ UNCHANGED <<file, index, graph, cp, rcp, writes, related, owner, during, faults>>

RelateWrite ==
    /\ run.pc = "relateWrite"
    /\ file' = [file EXCEPT ![run.path] = run.new]
    /\ related' = related \cup {run.req.target}
    /\ run' = [run EXCEPT !.pc = "relateRead"]
    /\ UNCHANGED <<index, graph, cp, rcp, writes, owner, during, faults>>

\* After the write, or an error of it that may have come too late, the source
\* is read again; after an error its hash must still be the expected one.
RelateRead(error) ==
    /\ run.pc \in {"relateWrite", "relateRead"}
    /\ IF error THEN Fault ELSE run.pc = "relateRead" /\ UNCHANGED faults
    /\ run' = IF /\ Present(run.path) /\ run.req.target \in file[run.path].links
                 /\ error => run.req.expected \in {None, Hash(file[run.path])}
              THEN [run EXCEPT !.pc = "relateCommit", !.new = file[run.path],
                               !.rows = IF error THEN None ELSE @]
              ELSE NoRun
    /\ UNCHANGED <<file, index, graph, cp, rcp, writes, related, owner, during>>

SaveRelate(state, p) ==
    rcp' = [rcp EXCEPT ![run.key] = [state |-> state, req |-> run.req, hash |-> Hash(p)]]

RelateCommit ==
    /\ run.pc = "relateCommit"
    /\ index' = IF run.rows = None THEN index ELSE [run.rows EXCEPT ![run.path] = run.new]
    /\ run' = [run EXCEPT !.pc = "relateGraph"]
    /\ UNCHANGED <<file, graph, cp, rcp, writes, related, owner, during, faults>>

RelateCommitFails ==
    /\ run.pc = "relateCommit"
    /\ Fault
    /\ IF Present(run.path) /\ run.req.target \in file[run.path].links
       THEN SaveRelate("WARNINGS", file[run.path]) ELSE UNCHANGED rcp
    /\ End
    /\ UNCHANGED <<file, index, graph, cp, writes, related, owner, during>>

Edges == UNION {index[p].links : p \in {q \in Paths : index[q] # None}}

\* rebuild_note_graph and the final commit, the read of both directions, and
\* the checkpoint.
RelateFinish(rebuilt) ==
    /\ run.pc = "relateGraph"
    /\ IF rebuilt THEN UNCHANGED faults ELSE Fault
    /\ graph' = IF rebuilt THEN Edges ELSE graph
    /\ SaveRelate(IF rebuilt /\ run.req.target \in graph' THEN "COMPLETED" ELSE "WARNINGS",
                  IF ~rebuilt /\ Present(run.path) THEN file[run.path] ELSE run.new)
    /\ End
    /\ UNCHANGED <<file, index, cp, writes, related, owner, during>>

-----------------------------------------------------------------------------
(* Environment                                                             *)

\* Other operations in the lane: a write with the hash of the note, a reindex.
ApiWrite(p, b) ==
    /\ LaneFree /\ Present(p) /\ index[p] = file[p] /\ file[p].body # b
    /\ file' = [file EXCEPT ![p].body = b]
    /\ index' = [index EXCEPT ![p] = file'[p]]
    /\ UNCHANGED <<graph, cp, rcp, run, writes, related, owner, during, faults>>

Reindex ==
    /\ LaneFree /\ index # file
    /\ index' = file
    /\ UNCHANGED <<file, graph, cp, rcp, run, writes, related, owner, during, faults>>

\* An archive takes no lease.
ApiArchive(p) ==
    /\ Present(p) /\ index[p] = file[p] /\ file[p].active
    /\ file' = [file EXCEPT ![p].active = FALSE]
    /\ index' = [index EXCEPT ![p] = file'[p]]
    /\ during' = (during \/ ~LaneFree)
    /\ UNCHANGED <<graph, cp, rcp, run, writes, related, owner, faults>>

Owner(new) ==
    /\ owner < MaxOwner
    /\ owner' = owner + 1
    /\ during' = (during \/ ~LaneFree)
    /\ file' = new
    /\ UNCHANGED <<index, graph, cp, rcp, run, writes, related, faults>>

OwnerEdit(p, b) == Present(p) /\ file[p].body # b /\ Owner([file EXCEPT ![p].body = b])
OwnerDelete(p) == Present(p) /\ Owner([file EXCEPT ![p] = None])
OwnerMove(p, q) ==
    Present(p) /\ ~Present(q) /\ Owner([file EXCEPT ![q] = file[p], ![p] = None])

Crash ==
    /\ ~LaneFree /\ Fault /\ End
    /\ UNCHANGED <<file, index, graph, cp, rcp, writes, related, owner, during>>

UpsertWorks ==
    \/ UpsertResolve \/ UpsertStart \/ UpsertCheck \/ UpsertWrite
    \/ UpsertCommit \/ UpsertReadback

UpsertFails(readable) ==
    UpsertCommitFails \/ \E os \in BOOLEAN : UpsertWriteError(os, readable)

UpsertStep == UpsertWorks \/ \E readable \in BOOLEAN : UpsertFails(readable)

RelateStep ==
    \/ RelateCheck \/ RelateWrite \/ RelateCommit \/ RelateCommitFails
    \/ \E b \in BOOLEAN : RelateRead(b) \/ RelateFinish(b)

Next ==
    \/ \E k \in Keys : UpsertRecover(k) \/ \E req \in Requests : UpsertBegin(k, req)
    \/ \E k \in RelateKeys, req \in Relations, p \in Paths : RelateBegin(k, req, p)
    \/ UpsertStep
    \/ RelateStep
    \/ \E p \in Paths, b \in Bodies : ApiWrite(p, b) \/ OwnerEdit(p, b)
    \/ \E p \in Paths : ApiArchive(p) \/ OwnerDelete(p) \/ \E q \in Paths : OwnerMove(p, q)
    \/ Reindex
    \/ Crash

Spec == Init /\ [][Next]_vars

-----------------------------------------------------------------------------
(* Properties                                                              *)

UpsertPcs == {"resolve", "start", "check", "write", "commit", "readback"}
RelatePcs == {"relateCheck", "relateWrite", "relateRead", "relateCommit", "relateGraph"}
Runs == [pc : {"idle"} \cup UpsertPcs \cup RelatePcs, key : Keys \cup RelateKeys \cup {None},
         req : Requests \cup Relations \cup {None}, path : Paths \cup {None},
         target : Ids \cup {None}, rows : [Paths -> Notes \cup {None}] \cup {None},
         new : Notes \cup {None}]

\* The types of the variables; exactly a completed checkpoint has a hash, which
\* a replay compares (_save_completed).
TypeOK ==
    /\ file \in [Paths -> Notes \cup {None}]
    /\ index \in [Paths -> Notes \cup {None}]
    /\ graph \subseteq Targets /\ related \subseteq Targets
    /\ cp \in [Keys -> Checkpoints \cup {None}]
    /\ \A k \in Keys : cp[k] # None => (cp[k].state = "COMPLETED" <=> cp[k].hash # None)
    /\ rcp \in [RelateKeys -> RelateCheckpoints \cup {None}]
    /\ run \in Runs
    /\ writes \in [Keys -> Nat]
    /\ owner \in Nat /\ during \in BOOLEAN /\ faults \in Nat

\* Whatever fails, dies or is retried, and whatever the owner does, a key
\* writes its note at most once, and never after it has completed: state that
\* is missing is not converted into a fresh mutation (_recover_checkpoint).
WriteOnce == \A k \in Keys : writes[k] <= 1

\* Upserts, retries and relates never make a second active note of the
\* identity, wherever the owner has moved the first, as long as the vault
\* does not change under the operation that writes (resolve_logical_identity).
OneActive == ~during => Cardinality({p \in Paths : Present(p) /\ file[p].active}) <= 1

\* An upsert replaces nothing, or a note whose hash its caller has named, as long as the vault does not change under it (upsert, with
\* _validate_expected_content_hash).
ReplacesExpected ==
    [][run.pc = "write" /\ ~during' /\ file' # file
       => file[run.path] = None \/ Hash(file[run.path]) = run.req.expected]_vars

\* A link that a relate has written is not lost, whichever writes, crashes and
\* reindexes follow, if the owner leaves the vault alone and nothing changes it
\* under an operation (the frontmatter merge of write_note).
LinksKept ==
    owner = 0 /\ ~during =>
       \A t \in related : \E p \in Paths : Present(p) /\ t \in file[p].links

\* The inductive invariant of the proofs, in parts.  What an operation carries
\* from one of its steps to the next:
RunShape ==
    /\ run.pc \in UpsertPcs => run.key \in Keys /\ run.req \in Requests
    /\ run.pc \in UpsertPcs \ {"resolve"} => run.path \in Paths
    /\ run.pc \in {"write", "commit", "readback"} =>
         run.new \in Notes /\ run.rows \in [Paths -> Notes \cup {None}]
    /\ run.pc \in RelatePcs =>
         /\ run.key \in RelateKeys /\ run.req \in Relations
         /\ run.path \in Paths /\ run.new \in Notes
    /\ run.pc \in {"relateWrite", "relateRead"} => run.rows \in [Paths -> Notes \cup {None}]

\* The durable checkpoint is ahead of the write: before a key replaces the note
\* its checkpoint has left "INTENT", and it does not come back.
CheckpointAhead ==
    /\ \A k \in Keys : writes[k] \in {0, 1}
    /\ \A k \in Keys : writes[k] = 1 => cp[k] # None /\ cp[k].state # "INTENT"
    /\ run.pc \in {"resolve", "start", "check", "write"} => writes[run.key] = 0
    /\ run.pc \in {"check", "write", "commit", "readback"} =>
         cp[run.key] # None /\ cp[run.key].state = "STARTED"

\* What an operation has found in the vault is still so while nobody else
\* changes the vault: the note to be replaced is the expected one and the only
\* active one, and what replaces it has its links.
StillAsFound ==
    ~during =>
      /\ run.pc \in {"start", "check", "write"} =>
           /\ file[run.path] = None \/ Hash(file[run.path]) = run.req.expected
           /\ IdentityMatches \subseteq {run.path}
      /\ run.pc \in {"relateCheck", "relateWrite"} =>
           Present(run.path) /\ run.new.active = file[run.path].active
      /\ run.pc \in {"write", "relateWrite"} =>
           (Present(run.path) => file[run.path].links \subseteq run.new.links)
      /\ run.pc = "relateWrite" => run.req.target \in run.new.links

\* No two active notes of the identity, while nobody interferes.
NoTwoActive == ~during => \A p, q \in IdentityMatches : p = q

VerifiedInv ==
    TypeOK /\ RunShape /\ CheckpointAhead /\ StillAsFound /\ NoTwoActive /\ LinksKept

\* The same as ReplacesExpected, whatever the owner does meanwhile.
ReplacesExpectedAlways ==
    [][UpsertWrite
       => file[run.path] = None \/ Hash(file[run.path]) = run.req.expected]_vars

\* A relate that dies, or is told of an error, after it has written its link can
\* be retried with its key and its request while the note is as it left it.
RelateResumes ==
    run.pc = "relateRead" /\ rcp[run.key] = None /\ file[run.path] = run.new
    => run.req.expected \in {None, Hash(file[run.path])}

\* Retried with its key and its request, an upsert of which only the intent is
\* recorded can go on while the note is still the expected one.
IntentResumes ==
    \A k \in Keys : LaneFree /\ cp[k] # None /\ cp[k].state = "INTENT"
                    /\ Present(cp[k].path) /\ Hash(file[cp[k].path]) = cp[k].req.expected
                    => Recoverable(k) \/ Resumable(k)

=============================================================================
