------------------------- MODULE ManagedSpecsProofs -------------------------
(***************************************************************************)
(* Verified writes and the managed specifications that are made of them.   *)
(* VerifiedInv is inductive, for any number of paths, keys, bodies and     *)
(* targets, with any number of faults and of changes by the owner;         *)
(* ManagedInv for any number of callers and of revisions of the sources on *)
(* top of that.                                                            *)
(***************************************************************************)
EXTENDS ManagedSpecs, FiniteSetTheorems, TLAPS

-----------------------------------------------------------------------------
(* Verified writes: upserts and relations                                  *)

\* An operation that has answered carries nothing.
LEMMA RunEnded ==
    ASSUME End
    PROVE  run' \in Runs /\ RunShape' /\ StillAsFound' /\ run'.pc = "idle"
<1>1. run' = NoRun /\ run'.pc = "idle"
  BY DEF End, NoRun
<1>2. run' \in Runs
  BY <1>1 DEF NoRun, Runs
<1>3. RunShape'
  BY <1>1 DEF RunShape, UpsertPcs, RelatePcs
<1>4. StillAsFound'
  BY <1>1 DEF StillAsFound
<1> QED
  BY <1>1, <1>2, <1>3, <1>4

\* A step that leaves the vault alone keeps what is said of the vault only.
LEMMA VaultKept ==
    ASSUME VerifiedInv, UNCHANGED <<file, related, owner, during>>
    PROVE  NoTwoActive' /\ LinksKept'
<1>1. NoTwoActive'
  BY DEF VerifiedInv, NoTwoActive, IdentityMatches, Present
<1>2. LinksKept'
  BY DEF VerifiedInv, LinksKept, Present
<1> QED
  BY <1>1, <1>2

\* The records that a step saves in the checkpoint of a key.
LEMMA CheckpointTypes ==
    ASSUME NEW req \in Requests, NEW p \in Paths
    PROVE  /\ \A s \in States \ {"COMPLETED"}, t \in Ids \cup {None} :
                /\ Checkpoint(s, req, p, t) \in Checkpoints
                /\ Checkpoint(s, req, p, t) # None
                /\ Checkpoint(s, req, p, t).state = s
                /\ Checkpoint(s, req, p, t).hash = None
           /\ file[p] \in Notes =>
                /\ Completed(req, p) \in Checkpoints
                /\ Completed(req, p) # None
                /\ Completed(req, p).state = "COMPLETED"
                /\ Completed(req, p).hash # None
<1>1. ASSUME NEW s \in States \ {"COMPLETED"}, NEW t \in Ids \cup {None}
      PROVE  Checkpoint(s, req, p, t) \in Checkpoints
  BY DEF Checkpoint, Checkpoints
<1>2. ASSUME file[p] \in Notes
      PROVE  Completed(req, p) \in Checkpoints /\ Hash(file[p]) \in Hashes
  BY <1>2 DEF Checkpoint, Checkpoints, Completed, Notes, Ids, Hash, Hashes, States
<1>3. ASSUME file[p] \in Notes
      PROVE  Completed(req, p).state = "COMPLETED" /\ Completed(req, p).hash = Hash(file[p])
  BY DEF Checkpoint, Completed
<1>4. ASSUME NEW s, NEW t
      PROVE  Checkpoint(s, req, p, t).state = s /\ Checkpoint(s, req, p, t).hash = None
  BY DEF Checkpoint
<1> QED
  BY <1>1, <1>2, <1>3, <1>4, NoneAssumption

\* Saving a well-formed record keeps the type of the checkpoints.
LEMMA SaveKeepsType ==
    ASSUME TypeOK, NEW k \in Keys, NEW c \in Checkpoints, c.state = "COMPLETED" <=> c.hash # None,
           cp' = [cp EXCEPT ![k] = c]
    PROVE  /\ cp' \in [Keys -> Checkpoints \cup {None}]
           /\ \A j \in Keys : cp'[j] # None => (cp'[j].state = "COMPLETED" <=> cp'[j].hash # None)
           /\ cp'[k] = c
           /\ \A j \in Keys \ {k} : cp'[j] = cp[j]
<1>1. cp \in [Keys -> Checkpoints \cup {None}]
  BY DEF TypeOK
<1>2. cp' \in [Keys -> Checkpoints \cup {None}] /\ cp'[k] = c
      /\ \A j \in Keys \ {k} : cp'[j] = cp[j]
  BY <1>1
<1>3. \A j \in Keys \ {k} : cp'[j] # None => (cp'[j].state = "COMPLETED" <=> cp'[j].hash # None)
  BY <1>2 DEF TypeOK
<1> QED
  BY <1>2, <1>3

LEMMA UpsertBeginStep ==
    ASSUME VerifiedInv, NEW k \in Keys, NEW req \in Requests, UpsertBegin(k, req)
    PROVE  VerifiedInv'
<1> USE DEF VerifiedInv
<1>1. run' = [NoRun EXCEPT !.pc = "resolve", !.key = k, !.req = req]
      /\ UNCHANGED <<file, index, graph, cp, rcp, writes, related, owner, during, faults>>
  BY DEF UpsertBegin
<1>2. run'.pc = "resolve" /\ run'.key = k /\ run'.req = req /\ run' \in Runs
  BY <1>1 DEF NoRun, Runs, UpsertPcs
<1>3. TypeOK'
  BY <1>1, <1>2 DEF TypeOK
<1>4. RunShape'
  BY <1>2 DEF RunShape, UpsertPcs, RelatePcs
<1>5. writes[k] = 0
  BY DEF UpsertBegin, Resumable, CheckpointAhead
<1>6. CheckpointAhead'
  BY <1>1, <1>2, <1>5 DEF CheckpointAhead
<1>7. StillAsFound'
  BY <1>2 DEF StillAsFound
<1> QED
  BY <1>1, <1>3, <1>4, <1>6, <1>7, VaultKept

LEMMA UpsertRecoverStep ==
    ASSUME VerifiedInv, NEW k \in Keys, UpsertRecover(k)
    PROVE  VerifiedInv'
<1> USE DEF VerifiedInv
<1> DEFINE c == Completed(cp[k].req, cp[k].path)
<1>1. /\ run.pc = "idle" /\ cp' = [cp EXCEPT ![k] = c]
      /\ UNCHANGED <<file, index, graph, rcp, run, writes, related, owner, during, faults>>
  BY DEF UpsertRecover, LaneFree
<1>2. cp[k] \in Checkpoints /\ cp[k].req \in Requests /\ cp[k].path \in Paths
      /\ file[cp[k].path] \in Notes
  BY DEF UpsertRecover, Recoverable, Present, TypeOK, Checkpoints
<1>3. c \in Checkpoints /\ c # None /\ c.state = "COMPLETED" /\ c.hash # None
  BY <1>2, CheckpointTypes
<1> HIDE DEF c
<1>4. /\ cp' \in [Keys -> Checkpoints \cup {None}]
      /\ \A j \in Keys : cp'[j] # None => (cp'[j].state = "COMPLETED" <=> cp'[j].hash # None)
      /\ cp'[k] = c /\ \A j \in Keys \ {k} : cp'[j] = cp[j]
  BY <1>1, <1>3, SaveKeepsType
<1>5. TypeOK'
  BY <1>1, <1>4 DEF TypeOK
<1>6. RunShape' /\ StillAsFound'
  BY <1>1 DEF RunShape, StillAsFound, UpsertPcs, RelatePcs
<1>7. CheckpointAhead'
  BY <1>1, <1>3, <1>4 DEF CheckpointAhead
<1> QED
  BY <1>1, <1>5, <1>6, <1>7, VaultKept

\* A step of an upsert that saves a checkpoint and answers.  Back to "INTENT" it
\* may go only while the key has not written.
LEMMA AnswerStep ==
    ASSUME VerifiedInv, run.key \in Keys, NEW c \in Checkpoints,
           c.state = "COMPLETED" <=> c.hash # None,
           c.state = "INTENT" => writes[run.key] = 0,
           SaveCheckpoint(c), End, faults' \in Nat,
           UNCHANGED <<file, index, graph, rcp, writes, related, owner, during>>
    PROVE  VerifiedInv'
<1> USE DEF VerifiedInv
<1>1. c # None
  BY NoneAssumption
<1>2. /\ cp' \in [Keys -> Checkpoints \cup {None}]
      /\ \A j \in Keys : cp'[j] # None => (cp'[j].state = "COMPLETED" <=> cp'[j].hash # None)
      /\ cp'[run.key] = c /\ \A j \in Keys \ {run.key} : cp'[j] = cp[j]
  BY SaveKeepsType DEF SaveCheckpoint
<1>3. TypeOK'
  BY <1>2, RunEnded DEF TypeOK
<1>4. CheckpointAhead'
  BY <1>1, <1>2, RunEnded DEF CheckpointAhead
<1> QED
  BY <1>3, <1>4, RunEnded, VaultKept

\* A step of an operation that only answers, or dies.
LEMMA EndStep ==
    ASSUME VerifiedInv, End, faults' \in Nat, graph' \subseteq Targets,
           UNCHANGED <<file, index, cp, writes, related, owner, during>>,
           rcp' \in [RelateKeys -> RelateCheckpoints \cup {None}]
    PROVE  VerifiedInv'
<1> USE DEF VerifiedInv
<1>1. TypeOK'
  BY RunEnded DEF TypeOK
<1>2. CheckpointAhead'
  BY RunEnded DEF CheckpointAhead
<1> QED
  BY <1>1, <1>2, RunEnded, VaultKept

LEMMA UpsertResolveStep ==
    ASSUME VerifiedInv, UpsertResolve
    PROVE  VerifiedInv'
<1> USE DEF VerifiedInv
<1> DEFINE found == IdentityMatches
           intent(p, target) ==
             /\ SaveCheckpoint(Checkpoint("INTENT", run.req, p, target))
             /\ run' = [run EXCEPT !.pc = "start", !.path = p, !.target = target]
<1>1. /\ run.pc = "resolve" /\ run.key \in Keys /\ run.req \in Requests
      /\ UNCHANGED <<file, index, graph, rcp, writes, related, owner, during, faults>>
      /\ faults' \in Nat /\ rcp' \in [RelateKeys -> RelateCheckpoints \cup {None}]
      /\ graph' \subseteq Targets /\ writes[run.key] = 0
  BY DEF UpsertResolve, RunShape, UpsertPcs, CheckpointAhead, TypeOK
<1>2. CASE End /\ UNCHANGED cp
  BY <1>1, <1>2, EndStep
<1>3. ASSUME NEW p \in found, SaveCheckpoint(Completed(run.req, p)), End
      PROVE  VerifiedInv'
  <2>1. p \in Paths /\ file[p] \in Notes
    BY <1>3 DEF IdentityMatches, Present, TypeOK
  <2> DEFINE c == Completed(run.req, p)
  <2>2. c \in Checkpoints /\ c.state = "COMPLETED" /\ c.hash # None
    BY <1>1, <2>1, CheckpointTypes
  <2>3. SaveCheckpoint(c)
    BY <1>3
  <2> HIDE DEF c
  <2> QED
    BY <1>1, <1>3, <2>2, <2>3, AnswerStep
<1>4. ASSUME NEW p \in Paths, NEW t \in Ids \cup {None}, intent(p, t), found \subseteq {p},
             file[p] = None \/ Hash(file[p]) = run.req.expected
      PROVE  VerifiedInv'
  <2> DEFINE c == Checkpoint("INTENT", run.req, p, t)
  <2>1. c \in Checkpoints /\ c # None /\ c.state = "INTENT" /\ c.hash = None
    BY <1>1, CheckpointTypes DEF States
  <2>2. cp' = [cp EXCEPT ![run.key] = c]
    BY <1>4 DEF SaveCheckpoint
  <2> HIDE DEF c
  <2>3. /\ cp' \in [Keys -> Checkpoints \cup {None}]
        /\ \A j \in Keys : cp'[j] # None => (cp'[j].state = "COMPLETED" <=> cp'[j].hash # None)
        /\ cp'[run.key] = c /\ \A j \in Keys \ {run.key} : cp'[j] = cp[j]
    BY <1>1, <2>1, <2>2, SaveKeepsType
  <2>4. /\ run' = [run EXCEPT !.pc = "start", !.path = p, !.target = t]
        /\ run \in Runs
    BY <1>4 DEF TypeOK
  <2>5. /\ run' \in Runs /\ run'.pc = "start" /\ run'.path = p
        /\ run'.key = run.key /\ run'.req = run.req
    BY <2>4 DEF Runs, UpsertPcs
  <2>6. TypeOK'
    BY <1>1, <2>3, <2>5 DEF TypeOK
  <2>7. RunShape'
    BY <1>1, <2>5 DEF RunShape, UpsertPcs, RelatePcs
  <2>8. CheckpointAhead'
    BY <1>1, <2>3, <2>5 DEF CheckpointAhead
  <2>9. StillAsFound'
    BY <1>1, <1>4, <2>5 DEF StillAsFound, IdentityMatches, Present
  <2> QED
    BY <1>1, <2>6, <2>7, <2>8, <2>9, VaultKept
<1>5. ASSUME Cardinality(found) = 1, NEW p \in found, Replaceable(p), intent(p, file[p].id)
      PROVE  VerifiedInv'
  <2>1. p \in Paths /\ file[p] \in Notes /\ file[p].id \in Ids
    BY <1>5 DEF IdentityMatches, Present, TypeOK, Notes, Ids
  <2>2. found \subseteq {p}
    <3>1. IsFiniteSet(found)
      BY VerifiedWritesAssumption, FS_Subset DEF IdentityMatches
    <3>2. PICK e : found = {e}
      BY <1>5, <3>1, FS_Singleton
    <3> QED
      BY <1>5, <3>2
  <2>3. Hash(file[p]) = run.req.expected
    BY <1>5 DEF Replaceable
  <2> QED
    BY <1>4, <1>5, <2>1, <2>2, <2>3
<1>6. ASSUME found = {}, ~Present(Canonical), intent(Canonical, None)
      PROVE  VerifiedInv'
  BY <1>4, <1>6, VerifiedWritesAssumption DEF Present
<1> QED
  BY <1>2, <1>3, <1>5, <1>6 DEF UpsertResolve

LEMMA UpsertStartStep ==
    ASSUME VerifiedInv, UpsertStart
    PROVE  VerifiedInv'
<1> USE DEF VerifiedInv
<1> DEFINE c == Checkpoint("STARTED", run.req, run.path, run.target)
<1>1. /\ run.pc = "start" /\ run.key \in Keys /\ run.req \in Requests /\ run.path \in Paths
      /\ UNCHANGED <<file, index, graph, rcp, writes, related, owner, during, faults>>
      /\ run \in Runs /\ run.target \in Ids \cup {None}
      /\ writes[run.key] = 0
  BY DEF UpsertStart, RunShape, UpsertPcs, CheckpointAhead, TypeOK, Runs
<1>2. c \in Checkpoints /\ c # None /\ c.state = "STARTED" /\ c.hash = None
  BY <1>1, CheckpointTypes DEF States
<1>3. cp' = [cp EXCEPT ![run.key] = c]
  BY DEF UpsertStart, SaveCheckpoint
<1> HIDE DEF c
<1>4. /\ cp' \in [Keys -> Checkpoints \cup {None}]
      /\ \A j \in Keys : cp'[j] # None => (cp'[j].state = "COMPLETED" <=> cp'[j].hash # None)
      /\ cp'[run.key] = c /\ \A j \in Keys \ {run.key} : cp'[j] = cp[j]
  BY <1>1, <1>2, <1>3, SaveKeepsType
<1>5. /\ run' \in Runs /\ run'.pc = "check" /\ run'.path = run.path
      /\ run'.key = run.key /\ run'.req = run.req
  BY <1>1 DEF UpsertStart, Runs, UpsertPcs
<1>6. TypeOK'
  BY <1>1, <1>4, <1>5 DEF TypeOK
<1>7. RunShape'
  BY <1>1, <1>5 DEF RunShape, UpsertPcs, RelatePcs
<1>8. CheckpointAhead'
  BY <1>1, <1>2, <1>4, <1>5 DEF CheckpointAhead
<1>9. StillAsFound'
  BY <1>1, <1>5 DEF StillAsFound, IdentityMatches, Present
<1> QED
  BY <1>1, <1>6, <1>7, <1>8, <1>9, VaultKept

\* What the write target resolver and the frontmatter merge return.
LEMMA MergedTypes ==
    ASSUME TypeOK
    PROVE  /\ \A p, i : Refreshed(p, i) \in [Paths -> Notes \cup {None}]
           /\ \A i : \A row \in Notes \cup {None}, b \in Bodies, m \in Metas, l \in SUBSET Targets :
                (i \in Ids \/ row # None) =>
                  /\ Merged(row, i, b, m, l) \in Notes
                  /\ l \subseteq Merged(row, i, b, m, l).links
                  /\ row # None => row.links \subseteq Merged(row, i, b, m, l).links
<1>1. \A p, i : Refreshed(p, i) \in [Paths -> Notes \cup {None}]
  BY DEF Refreshed, TypeOK
<1>2. ASSUME NEW row \in Notes \cup {None}, NEW i, NEW b \in Bodies, NEW m \in Metas,
             NEW l \in SUBSET Targets, i \in Ids \/ row # None
      PROVE  /\ Merged(row, i, b, m, l) \in Notes
             /\ l \subseteq Merged(row, i, b, m, l).links
             /\ row # None => row.links \subseteq Merged(row, i, b, m, l).links
  <2>1. CASE row = None
    BY <1>2, <2>1 DEF Merged, Notes, Ids
  <2>2. CASE row \in Notes /\ row # None
    BY <1>2, <2>2 DEF Merged, Notes
  <2> QED
    BY <2>1, <2>2
<1> QED
  BY <1>1, <1>2

LEMMA UpsertCheckStep ==
    ASSUME VerifiedInv, UpsertCheck
    PROVE  VerifiedInv'
<1> USE DEF VerifiedInv
<1> DEFINE rows == Refreshed(run.path, run.target)
           row == rows[run.path]
           new == Merged(row, run.key, run.req.body, run.req.meta, {})
<1>1. /\ run.pc = "check" /\ run.key \in Keys /\ run.req \in Requests /\ run.path \in Paths
      /\ UNCHANGED <<file, index, graph, rcp, writes, related, owner, during, faults>>
      /\ run \in Runs /\ run.target \in Ids \cup {None} /\ faults \in Nat
      /\ writes[run.key] = 0 /\ cp[run.key] # None /\ cp[run.key].state = "STARTED"
  BY DEF UpsertCheck, RunShape, UpsertPcs, CheckpointAhead, TypeOK, Runs
<1>2. CASE Conflict(rows, run.path, run.target, run.req.expected)
  <2> DEFINE c == Checkpoint("INTENT", run.req, run.path, run.target)
  <2>1. c \in Checkpoints /\ c.state = "INTENT" /\ c.hash = None
    BY <1>1, CheckpointTypes DEF States
  <2>2. SaveCheckpoint(c) /\ End
    BY <1>2 DEF UpsertCheck
  <2> HIDE DEF c
  <2> QED
    BY <1>1, <2>1, <2>2, AnswerStep
<1>3. CASE ~Conflict(rows, run.path, run.target, run.req.expected)
  <2>1. /\ run' = [run EXCEPT !.pc = IF new = row THEN "commit" ELSE "write",
                              !.rows = rows, !.new = new]
        /\ cp' = cp
    BY <1>3 DEF UpsertCheck
  <2>2. rows \in [Paths -> Notes \cup {None}] /\ row \in Notes \cup {None}
    BY <1>1, MergedTypes
  <2>3. new \in Notes /\ (row # None => row.links \subseteq new.links)
    <3>1. run.req.body \in Bodies /\ run.req.meta \in Metas
      BY <1>1 DEF Requests
    <3>2. run.key \in Ids /\ {} \in SUBSET Targets
      BY <1>1 DEF Ids
    <3>3. row \in Notes \cup {None}
      BY <2>2
    <3> HIDE DEF row
    <3> QED
      BY <3>1, <3>2, <3>3, MergedTypes
  <2>4. ~during /\ Present(run.path) => file[run.path].links \subseteq new.links
    <3> SUFFICES ASSUME ~during, Present(run.path)
                 PROVE  file[run.path].links \subseteq new.links
      OBVIOUS
    <3>1. Hash(file[run.path]) = run.req.expected /\ file[run.path] \in Notes
      BY <1>1 DEF StillAsFound, Present, TypeOK
    <3>2. run.req.expected # None
      BY <3>1, NoneAssumption, SMTT(30) DEF Hash, Hashes, Notes
    <3>3. row # None /\ file[run.path] = row
      BY <1>3, <3>2 DEF Conflict
    <3> QED
      BY <2>3, <3>3
  <2> HIDE DEF new, row, rows
  <2>5. /\ run' \in Runs /\ run'.pc \in {"commit", "write"} /\ run'.path = run.path
        /\ run'.key = run.key /\ run'.req = run.req /\ run'.rows = rows /\ run'.new = new
    BY <1>1, <2>1, <2>2, <2>3 DEF Runs, UpsertPcs
  <2>6. TypeOK'
    BY <1>1, <2>1, <2>5 DEF TypeOK
  <2>7. RunShape'
    BY <1>1, <2>2, <2>3, <2>5 DEF RunShape, UpsertPcs, RelatePcs
  <2>8. CheckpointAhead'
    BY <1>1, <2>1, <2>5 DEF CheckpointAhead
  <2>9. StillAsFound'
    BY <1>1, <2>4, <2>5 DEF StillAsFound, IdentityMatches, Present
  <2> QED
    BY <1>1, <2>6, <2>7, <2>8, <2>9, VaultKept
<1> QED
  BY <1>2, <1>3

LEMMA UpsertWriteStep ==
    ASSUME VerifiedInv, UpsertWrite
    PROVE  VerifiedInv'
<1> USE DEF VerifiedInv
<1>1. /\ run.pc = "write" /\ run.key \in Keys /\ run.req \in Requests /\ run.path \in Paths
      /\ run.new \in Notes /\ run.rows \in [Paths -> Notes \cup {None}]
      /\ file' = [file EXCEPT ![run.path] = run.new]
      /\ writes' = [writes EXCEPT ![run.key] = @ + 1]
      /\ UNCHANGED <<index, graph, cp, rcp, related, owner, during, faults>>
      /\ run \in Runs
      /\ writes[run.key] = 0 /\ cp[run.key] # None /\ cp[run.key].state = "STARTED"
  BY DEF UpsertWrite, RunShape, UpsertPcs, CheckpointAhead, TypeOK, Runs
<1>2. /\ run' \in Runs /\ run'.pc = "commit" /\ run'.path = run.path
      /\ run'.key = run.key /\ run'.req = run.req /\ run'.rows = run.rows /\ run'.new = run.new
  BY <1>1 DEF UpsertWrite, Runs, UpsertPcs
<1>3. /\ writes' \in [Keys -> Nat] /\ writes'[run.key] = 1
      /\ \A j \in Keys \ {run.key} : writes'[j] = writes[j]
  BY <1>1 DEF TypeOK
<1>4. /\ file' \in [Paths -> Notes \cup {None}] /\ file'[run.path] = run.new
      /\ \A p \in Paths \ {run.path} : file'[p] = file[p]
  BY <1>1 DEF TypeOK
<1>5. TypeOK'
  BY <1>1, <1>2, <1>3, <1>4 DEF TypeOK
<1>6. RunShape'
  BY <1>1, <1>2 DEF RunShape, UpsertPcs, RelatePcs
<1>7. CheckpointAhead'
  BY <1>1, <1>2, <1>3 DEF CheckpointAhead
<1>8. StillAsFound'
  BY <1>2 DEF StillAsFound
<1>9. NoTwoActive'
  BY <1>1, <1>4 DEF NoTwoActive, StillAsFound, IdentityMatches, Present
<1>10. LinksKept'
  <2> SUFFICES ASSUME owner' = 0, ~during', NEW t \in related'
               PROVE  \E p \in Paths : Present(p)' /\ t \in file'[p].links
    BY DEF LinksKept, Present
  <2>1. PICK p \in Paths : Present(p) /\ t \in file[p].links
    BY <1>1 DEF LinksKept
  <2>2. CASE p = run.path
    BY <1>1, <1>4, <2>1, <2>2, NoneAssumption DEF StillAsFound, Present
  <2>3. CASE p # run.path
    BY <1>4, <2>1, <2>3 DEF Present
  <2> QED
    BY <2>2, <2>3
<1> QED
  BY <1>5, <1>6, <1>7, <1>8, <1>9, <1>10

\* An unknown outcome, or the error of a late call.
LEMMA UnknownStep ==
    ASSUME VerifiedInv, run.pc \in {"check", "write", "commit", "readback"},
           NEW s \in {"UNKNOWN", "LOST"}, Unknown(s), faults' \in Nat,
           UNCHANGED <<file, index, graph, rcp, writes, related, owner, during>>
    PROVE  VerifiedInv'
<1> DEFINE c == Checkpoint(s, run.req, run.path, run.target)
<1>1. run.key \in Keys /\ run.req \in Requests /\ run.path \in Paths
  BY DEF VerifiedInv, RunShape, UpsertPcs
<1>2. run.target \in Ids \cup {None}
  BY DEF VerifiedInv, TypeOK, Runs
<1>3. c \in Checkpoints /\ c.state = s /\ c.hash = None
  BY <1>1, <1>2, CheckpointTypes DEF States
<1>4. SaveCheckpoint(c) /\ End
  BY DEF Unknown
<1> HIDE DEF c
<1> QED
  BY <1>1, <1>3, <1>4, AnswerStep

LEMMA UpsertWriteErrorStep ==
    ASSUME VerifiedInv, NEW os \in BOOLEAN, NEW readable \in BOOLEAN,
           UpsertWriteError(os, readable)
    PROVE  VerifiedInv'
<1>1. PICK s \in {"UNKNOWN", "LOST"} : Unknown(s)
  BY DEF UpsertWriteError
<1>2. faults' \in Nat
  BY DEF UpsertWriteError, Fault, VerifiedInv, TypeOK
<1> QED
  BY <1>1, <1>2, UnknownStep DEF UpsertWriteError

LEMMA UpsertCommitFailsStep ==
    ASSUME VerifiedInv, UpsertCommitFails
    PROVE  VerifiedInv'
<1>1. faults' \in Nat
  BY DEF UpsertCommitFails, Fault, VerifiedInv, TypeOK
<1> QED
  BY <1>1, UnknownStep DEF UpsertCommitFails

LEMMA UpsertCommitStep ==
    ASSUME VerifiedInv, UpsertCommit
    PROVE  VerifiedInv'
<1> USE DEF VerifiedInv
<1>1. /\ run.pc = "commit" /\ run.key \in Keys /\ run.req \in Requests /\ run.path \in Paths
      /\ run.new \in Notes /\ run.rows \in [Paths -> Notes \cup {None}] /\ run \in Runs
      /\ index' = [run.rows EXCEPT ![run.path] = run.new]
      /\ UNCHANGED <<file, graph, cp, rcp, writes, related, owner, during, faults>>
  BY DEF UpsertCommit, RunShape, UpsertPcs, TypeOK
<1>2. index' \in [Paths -> Notes \cup {None}]
  BY <1>1
<1>3. /\ run' \in Runs /\ run'.pc = "readback" /\ run'.path = run.path
      /\ run'.key = run.key /\ run'.req = run.req /\ run'.rows = run.rows /\ run'.new = run.new
  BY <1>1 DEF UpsertCommit, Runs, UpsertPcs
<1>4. TypeOK'
  BY <1>1, <1>2, <1>3 DEF TypeOK
<1>5. RunShape'
  BY <1>1, <1>3 DEF RunShape, UpsertPcs, RelatePcs
<1>6. CheckpointAhead'
  BY <1>1, <1>3 DEF CheckpointAhead
<1>7. StillAsFound'
  BY <1>3 DEF StillAsFound
<1> QED
  BY <1>1, <1>4, <1>5, <1>6, <1>7, VaultKept

LEMMA UpsertReadbackStep ==
    ASSUME VerifiedInv, UpsertReadback
    PROVE  VerifiedInv'
<1>1. /\ run.pc = "readback" /\ run.key \in Keys /\ run.req \in Requests /\ run.path \in Paths
      /\ UNCHANGED <<file, index, graph, rcp, writes, related, owner, during, faults>>
      /\ faults' \in Nat
  BY DEF UpsertReadback, VerifiedInv, RunShape, UpsertPcs, TypeOK
<1>2. CASE Unknown("UNKNOWN")
  BY <1>1, <1>2, UnknownStep
<1>3. CASE Present(run.path) /\ SaveCheckpoint(Completed(run.req, run.path)) /\ End
  <2> DEFINE c == Completed(run.req, run.path)
  <2>1. file[run.path] \in Notes
    BY <1>1, <1>3 DEF VerifiedInv, TypeOK, Present
  <2>2. c \in Checkpoints /\ c.state = "COMPLETED" /\ c.hash # None
    BY <1>1, <2>1, CheckpointTypes
  <2>3. SaveCheckpoint(c)
    BY <1>3
  <2> HIDE DEF c
  <2> QED
    BY <1>1, <1>3, <2>2, <2>3, AnswerStep
<1> QED
  BY <1>2, <1>3 DEF UpsertReadback

\* Every step of a verified upsert.
LEMMA UpsertSteps ==
    ASSUME VerifiedInv, UpsertStep
    PROVE  VerifiedInv'
BY UpsertResolveStep, UpsertStartStep, UpsertCheckStep, UpsertWriteStep, UpsertCommitStep,
   UpsertReadbackStep, UpsertCommitFailsStep, UpsertWriteErrorStep
   DEF UpsertStep, UpsertWorks, UpsertFails

-----------------------------------------------------------------------------

LEMMA RelateBeginStep ==
    ASSUME VerifiedInv, NEW k \in RelateKeys, NEW req \in Relations, NEW p \in Paths,
           RelateBegin(k, req, p)
    PROVE  VerifiedInv'
<1> USE DEF VerifiedInv
<1>1. file[p] # None /\ file[p] \in Notes
      /\ UNCHANGED <<file, index, graph, cp, rcp, writes, related, owner, during, faults>>
  BY DEF RelateBegin, Present, TypeOK
<1>2. PICK c \in {"relateCommit", "relateCheck"} :
        run' = [NoRun EXCEPT !.key = k, !.req = req, !.path = p, !.new = file[p], !.pc = c]
  BY DEF RelateBegin
<1>3. /\ run' \in Runs /\ run'.pc = c /\ run'.key = k /\ run'.req = req /\ run'.path = p
      /\ run'.new = file[p]
  BY <1>1, <1>2 DEF NoRun, Runs, RelatePcs
<1>4. TypeOK'
  BY <1>1, <1>3 DEF TypeOK
<1>5. RunShape'
  BY <1>1, <1>3 DEF RunShape, UpsertPcs, RelatePcs
<1>6. CheckpointAhead'
  BY <1>1, <1>3 DEF CheckpointAhead
<1>7. StillAsFound'
  BY <1>1, <1>3 DEF StillAsFound, Present
<1> QED
  BY <1>1, <1>4, <1>5, <1>6, <1>7, VaultKept

LEMMA RelateCheckStep ==
    ASSUME VerifiedInv, RelateCheck
    PROVE  VerifiedInv'
<1> USE DEF VerifiedInv
<1> DEFINE rows == Refreshed(run.path, run.new.id)
           row == rows[run.path]
           merged == Merged(row, None, run.new.body, run.new.meta, {run.req.target})
           new == [merged EXCEPT !.active = run.new.active]
<1>1. /\ run.pc = "relateCheck" /\ run.key \in RelateKeys /\ run.req \in Relations
      /\ run.path \in Paths /\ run.new \in Notes /\ run \in Runs
      /\ UNCHANGED <<file, index, graph, cp, rcp, writes, related, owner, during, faults>>
      /\ faults' \in Nat /\ rcp' \in [RelateKeys -> RelateCheckpoints \cup {None}]
      /\ graph' \subseteq Targets
  BY DEF RelateCheck, RunShape, RelatePcs, TypeOK
<1>2. CASE End
  BY <1>1, <1>2, EndStep
<1>3. CASE /\ ~Conflict(rows, run.path, run.new.id, Hash(run.new))
           /\ run' = [run EXCEPT !.pc = "relateWrite", !.rows = rows, !.new = new]
  <2>1. rows \in [Paths -> Notes \cup {None}] /\ row \in Notes \cup {None}
    BY <1>1, MergedTypes
  <2>2. row # None /\ file[run.path] = row
    <3>1. Hash(run.new) # None
      BY <1>1, NoneAssumption DEF Hash, Hashes, Notes
    <3> QED
      BY <1>3, <3>1 DEF Conflict
  <2>3. merged \in Notes /\ row.links \subseteq merged.links /\ run.req.target \in merged.links
    <3>1. run.new.body \in Bodies /\ run.new.meta \in Metas /\ {run.req.target} \in SUBSET Targets
      BY <1>1 DEF Notes, Relations
    <3> HIDE DEF row
    <3> QED
      BY <2>1, <2>2, <3>1, MergedTypes
  <2> HIDE DEF merged
  <2>4. new \in Notes /\ new.links = merged.links /\ new.active = run.new.active
    BY <1>1, <2>3 DEF Notes
  <2> HIDE DEF new, rows
  <2>5. /\ run' \in Runs /\ run'.pc = "relateWrite" /\ run'.key = run.key /\ run'.req = run.req
        /\ run'.path = run.path /\ run'.rows = rows /\ run'.new = new
    BY <1>1, <1>3, <2>1, <2>4 DEF Runs, RelatePcs
  <2>6. TypeOK'
    BY <1>1, <2>5 DEF TypeOK
  <2>7. RunShape'
    BY <1>1, <2>1, <2>4, <2>5 DEF RunShape, UpsertPcs, RelatePcs
  <2>8. CheckpointAhead'
    BY <1>1, <2>5 DEF CheckpointAhead
  <2>9. StillAsFound'
    BY <1>1, <2>2, <2>3, <2>4, <2>5 DEF StillAsFound, Present
  <2> QED
    BY <1>1, <2>6, <2>7, <2>8, <2>9, VaultKept
<1> QED
  BY <1>2, <1>3 DEF RelateCheck

LEMMA RelateWriteStep ==
    ASSUME VerifiedInv, RelateWrite
    PROVE  VerifiedInv'
<1> USE DEF VerifiedInv
<1>1. /\ run.pc = "relateWrite" /\ run.key \in RelateKeys /\ run.req \in Relations
      /\ run.path \in Paths /\ run.new \in Notes /\ run.rows \in [Paths -> Notes \cup {None}]
      /\ file' = [file EXCEPT ![run.path] = run.new]
      /\ related' = related \cup {run.req.target}
      /\ UNCHANGED <<index, graph, cp, rcp, writes, owner, during, faults>>
      /\ run \in Runs
  BY DEF RelateWrite, RunShape, RelatePcs, TypeOK
<1>2. /\ run' \in Runs /\ run'.pc = "relateRead" /\ run'.path = run.path
      /\ run'.key = run.key /\ run'.req = run.req /\ run'.rows = run.rows /\ run'.new = run.new
  BY <1>1 DEF RelateWrite, Runs, RelatePcs
<1>3. /\ file' \in [Paths -> Notes \cup {None}] /\ file'[run.path] = run.new
      /\ \A p \in Paths \ {run.path} : file'[p] = file[p]
  BY <1>1 DEF TypeOK
<1>4. TypeOK'
  BY <1>1, <1>2, <1>3 DEF TypeOK, Relations
<1>5. RunShape'
  BY <1>1, <1>2 DEF RunShape, UpsertPcs, RelatePcs
<1>6. CheckpointAhead'
  BY <1>1, <1>2 DEF CheckpointAhead
<1>7. StillAsFound'
  BY <1>2 DEF StillAsFound
<1>8. NoTwoActive'
  BY <1>1, <1>3 DEF NoTwoActive, StillAsFound, IdentityMatches, Present
<1>9. LinksKept'
  <2> SUFFICES ASSUME owner' = 0, ~during', NEW t \in related'
               PROVE  \E p \in Paths : Present(p)' /\ t \in file'[p].links
    BY DEF LinksKept, Present
  <2>1. CASE t = run.req.target
    BY <1>1, <1>3, <2>1, NoneAssumption DEF StillAsFound, Present
  <2>2. CASE t \in related
    <3>1. PICK p \in Paths : Present(p) /\ t \in file[p].links
      BY <1>1, <2>2 DEF LinksKept
    <3>2. CASE p = run.path
      BY <1>1, <1>3, <3>1, <3>2, NoneAssumption DEF StillAsFound, Present
    <3>3. CASE p # run.path
      BY <1>3, <3>1, <3>3 DEF Present
    <3> QED
      BY <3>2, <3>3
  <2> QED
    BY <1>1, <2>1, <2>2
<1> QED
  BY <1>4, <1>5, <1>6, <1>7, <1>8, <1>9

LEMMA RelateReadStep ==
    ASSUME VerifiedInv, NEW error \in BOOLEAN, RelateRead(error)
    PROVE  VerifiedInv'
<1> USE DEF VerifiedInv
<1>1. /\ run.pc \in {"relateWrite", "relateRead"} /\ run.key \in RelateKeys
      /\ run.req \in Relations /\ run.path \in Paths
      /\ run \in Runs /\ run.rows \in [Paths -> Notes \cup {None}]
      /\ UNCHANGED <<file, index, graph, cp, rcp, writes, related, owner, during>>
      /\ rcp' \in [RelateKeys -> RelateCheckpoints \cup {None}] /\ graph' \subseteq Targets
  BY DEF RelateRead, RunShape, RelatePcs, TypeOK
<1>2. faults' \in Nat
  BY DEF RelateRead, Fault, TypeOK
<1>3. CASE End
  BY <1>1, <1>2, <1>3, EndStep
<1>4. ASSUME Present(run.path), NEW rows \in {None, run.rows},
             run' = [run EXCEPT !.pc = "relateCommit", !.new = file[run.path], !.rows = rows]
      PROVE  VerifiedInv'
  <2>1. file[run.path] \in Notes
    BY <1>1, <1>4 DEF Present, TypeOK
  <2>2. /\ run' \in Runs /\ run'.pc = "relateCommit" /\ run'.key = run.key /\ run'.req = run.req
        /\ run'.path = run.path /\ run'.new = file[run.path]
    BY <1>1, <1>4, <2>1 DEF Runs, RelatePcs
  <2>3. TypeOK'
    BY <1>1, <1>2, <2>2 DEF TypeOK
  <2>4. RunShape'
    BY <1>1, <2>1, <2>2 DEF RunShape, UpsertPcs, RelatePcs
  <2>5. CheckpointAhead'
    BY <1>1, <2>2 DEF CheckpointAhead
  <2>6. StillAsFound'
    BY <2>2 DEF StillAsFound
  <2> QED
    BY <1>1, <2>3, <2>4, <2>5, <2>6, VaultKept
<1> QED
  BY <1>3, <1>4 DEF RelateRead, End

LEMMA RelateCommitStep ==
    ASSUME VerifiedInv, RelateCommit
    PROVE  VerifiedInv'
<1> USE DEF VerifiedInv
<1>1. /\ run.pc = "relateCommit" /\ run.key \in RelateKeys /\ run.req \in Relations
      /\ run.path \in Paths /\ run.new \in Notes /\ run \in Runs
      /\ UNCHANGED <<file, graph, cp, rcp, writes, related, owner, during, faults>>
  BY DEF RelateCommit, RunShape, RelatePcs, TypeOK
<1>2. run.rows # None => run.rows \in [Paths -> Notes \cup {None}]
  BY <1>1 DEF Runs
<1>3. index' \in [Paths -> Notes \cup {None}]
  BY <1>1, <1>2 DEF RelateCommit, TypeOK
<1>4. /\ run' \in Runs /\ run'.pc = "relateGraph" /\ run'.path = run.path
      /\ run'.key = run.key /\ run'.req = run.req /\ run'.new = run.new
  BY <1>1 DEF RelateCommit, Runs, RelatePcs
<1>5. TypeOK'
  BY <1>1, <1>3, <1>4 DEF TypeOK
<1>6. RunShape'
  BY <1>1, <1>4 DEF RunShape, UpsertPcs, RelatePcs
<1>7. CheckpointAhead'
  BY <1>1, <1>4 DEF CheckpointAhead
<1>8. StillAsFound'
  BY <1>4 DEF StillAsFound
<1> QED
  BY <1>1, <1>5, <1>6, <1>7, <1>8, VaultKept

\* The checkpoint of a relate names the hash of a note.
LEMMA SaveRelateType ==
    ASSUME TypeOK, run.key \in RelateKeys, run.req \in Relations,
           NEW s \in {"COMPLETED", "WARNINGS"}, NEW n \in Notes, SaveRelate(s, n)
    PROVE  rcp' \in [RelateKeys -> RelateCheckpoints \cup {None}]
<1>1. [state |-> s, req |-> run.req, hash |-> Hash(n)] \in RelateCheckpoints
  BY DEF RelateCheckpoints, Hash, Hashes, Notes
<1>2. rcp \in [RelateKeys -> RelateCheckpoints \cup {None}]
  BY DEF TypeOK
<1> QED
  BY <1>1, <1>2 DEF SaveRelate

LEMMA RelateCommitFailsStep ==
    ASSUME VerifiedInv, RelateCommitFails
    PROVE  VerifiedInv'
<1> USE DEF VerifiedInv
<1>1. /\ run.key \in RelateKeys /\ run.req \in Relations /\ run.path \in Paths /\ End
      /\ UNCHANGED <<file, index, graph, cp, writes, related, owner, during>>
      /\ graph' \subseteq Targets
  BY DEF RelateCommitFails, RunShape, RelatePcs, TypeOK
<1>2. faults' \in Nat
  BY DEF RelateCommitFails, Fault, TypeOK
<1>3. rcp' \in [RelateKeys -> RelateCheckpoints \cup {None}]
  <2>1. CASE Present(run.path) /\ SaveRelate("WARNINGS", file[run.path])
    <3>1. file[run.path] \in Notes
      BY <1>1, <2>1 DEF Present, TypeOK
    <3> QED
      BY <1>1, <2>1, <3>1, SaveRelateType
  <2>2. CASE UNCHANGED rcp
    BY <2>2 DEF TypeOK
  <2> QED
    BY <2>1, <2>2 DEF RelateCommitFails
<1> QED
  BY <1>1, <1>2, <1>3, EndStep

LEMMA RelateFinishStep ==
    ASSUME VerifiedInv, NEW rebuilt \in BOOLEAN, RelateFinish(rebuilt)
    PROVE  VerifiedInv'
<1> USE DEF VerifiedInv
<1>1. /\ run.key \in RelateKeys /\ run.req \in Relations /\ run.path \in Paths /\ End
      /\ run.new \in Notes
      /\ UNCHANGED <<file, index, cp, writes, related, owner, during>>
  BY DEF RelateFinish, RunShape, RelatePcs, TypeOK
<1>2. faults' \in Nat
  BY DEF RelateFinish, Fault, TypeOK
<1>3. graph' \subseteq Targets
  <2>1. Edges \subseteq Targets
    BY DEF Edges, TypeOK, Notes
  <2> QED
    BY <2>1 DEF RelateFinish, TypeOK
<1>4. PICK s \in {"COMPLETED", "WARNINGS"}, n \in Notes : SaveRelate(s, n)
  BY <1>1 DEF RelateFinish, Present, TypeOK
<1>5. rcp' \in [RelateKeys -> RelateCheckpoints \cup {None}]
  BY <1>1, <1>4, SaveRelateType
<1> QED
  BY <1>1, <1>2, <1>3, <1>5, EndStep

-----------------------------------------------------------------------------

\* A step of somebody else: during an operation it is recorded as interference.
LEMMA EnvironmentStep ==
    ASSUME VerifiedInv, during' = (during \/ ~LaneFree), owner' \in Nat,
           file' \in [Paths -> Notes \cup {None}], index' \in [Paths -> Notes \cup {None}],
           UNCHANGED <<graph, cp, rcp, run, writes, related, faults>>,
           NoTwoActive', LinksKept'
    PROVE  VerifiedInv'
<1> USE DEF VerifiedInv
<1>1. TypeOK'
  BY DEF TypeOK
<1>2. RunShape'
  BY DEF RunShape
<1>3. CheckpointAhead'
  BY DEF CheckpointAhead
<1>4. StillAsFound'
  BY DEF StillAsFound, LaneFree
<1> QED
  BY <1>1, <1>2, <1>3, <1>4

\* An edit in place keeps the links and makes no note active.
LEMMA EditInPlace ==
    ASSUME VerifiedInv, during => during', owner' \in Nat, owner' = 0 => owner = 0, related' = related,
           NEW p \in Paths, Present(p), NEW n \in Notes, n.links = file[p].links,
           n.active => file[p].active,
           file' = [file EXCEPT ![p] = n]
    PROVE  NoTwoActive' /\ LinksKept' /\ file' \in [Paths -> Notes \cup {None}] /\ file'[p] = n
<1>1. /\ file' \in [Paths -> Notes \cup {None}] /\ file'[p] = n
      /\ \A q \in Paths \ {p} : file'[q] = file[q]
  BY DEF VerifiedInv, TypeOK
<1>2. NoTwoActive'
  BY <1>1 DEF VerifiedInv, NoTwoActive, IdentityMatches, Present
<1>3. LinksKept'
  BY <1>1, NoneAssumption DEF VerifiedInv, LinksKept, Present
<1> QED
  BY <1>1, <1>2, <1>3

LEMMA ApiWriteStep ==
    ASSUME VerifiedInv, NEW p \in Paths, NEW b \in Bodies, ApiWrite(p, b)
    PROVE  VerifiedInv'
<1> DEFINE n == [file[p] EXCEPT !.body = b]
<1>1. file[p] \in Notes /\ Present(p)
  BY DEF ApiWrite, Present, VerifiedInv, TypeOK
<1>2. n \in Notes /\ n.links = file[p].links /\ n.active = file[p].active
  BY <1>1 DEF Notes
<1>3. file' = [file EXCEPT ![p] = n] /\ index' = [index EXCEPT ![p] = file'[p]]
      /\ UNCHANGED <<graph, cp, rcp, run, writes, related, owner, during, faults>>
  BY DEF ApiWrite
<1> HIDE DEF n
<1>4. NoTwoActive' /\ LinksKept' /\ file' \in [Paths -> Notes \cup {None}] /\ file'[p] = n
  BY <1>1, <1>2, <1>3, EditInPlace DEF VerifiedInv, TypeOK
<1>5. index' \in [Paths -> Notes \cup {None}] /\ owner' \in Nat
  BY <1>2, <1>3, <1>4 DEF VerifiedInv, TypeOK
<1>6. during' = (during \/ ~LaneFree)
  BY <1>3 DEF ApiWrite, VerifiedInv, TypeOK
<1> QED
  BY <1>3, <1>4, <1>5, <1>6, EnvironmentStep

LEMMA ApiArchiveStep ==
    ASSUME VerifiedInv, NEW p \in Paths, ApiArchive(p)
    PROVE  VerifiedInv'
<1> DEFINE n == [file[p] EXCEPT !.active = FALSE]
<1>1. file[p] \in Notes /\ Present(p)
  BY DEF ApiArchive, Present, VerifiedInv, TypeOK
<1>2. n \in Notes /\ n.links = file[p].links /\ n.active = FALSE
  BY <1>1 DEF Notes
<1>3. file' = [file EXCEPT ![p] = n] /\ index' = [index EXCEPT ![p] = file'[p]]
      /\ during' = (during \/ ~LaneFree)
      /\ UNCHANGED <<graph, cp, rcp, run, writes, related, owner, faults>>
  BY DEF ApiArchive
<1> HIDE DEF n
<1>4. NoTwoActive' /\ LinksKept' /\ file' \in [Paths -> Notes \cup {None}] /\ file'[p] = n
  BY <1>1, <1>2, <1>3, EditInPlace DEF VerifiedInv, TypeOK
<1>5. index' \in [Paths -> Notes \cup {None}] /\ owner' \in Nat
  BY <1>2, <1>3, <1>4 DEF VerifiedInv, TypeOK
<1> QED
  BY <1>3, <1>4, <1>5, EnvironmentStep

\* Whatever the owner does to the files, links are not promised any more.
LEMMA OwnerStep ==
    ASSUME VerifiedInv, NEW new \in [Paths -> Notes \cup {None}], Owner(new),
           NoTwoActive'
    PROVE  VerifiedInv'
<1>1. owner' \in Nat /\ owner' # 0
  BY DEF Owner, VerifiedInv, TypeOK
<1>2. LinksKept'
  BY <1>1 DEF LinksKept
<1> QED
  BY <1>1, <1>2, EnvironmentStep DEF Owner, VerifiedInv, TypeOK

LEMMA OwnerSteps ==
    ASSUME VerifiedInv, NEW p \in Paths, NEW b, NEW q \in Paths,
           (b \in Bodies /\ OwnerEdit(p, b)) \/ OwnerDelete(p) \/ OwnerMove(p, q)
    PROVE  VerifiedInv'
<1>1. file \in [Paths -> Notes \cup {None}] /\ file[p] \in Notes
  BY DEF OwnerEdit, OwnerDelete, OwnerMove, Present, VerifiedInv, TypeOK
<1>2. ASSUME NEW new \in [Paths -> Notes \cup {None}], Owner(new),
             \A r \in Paths : new[r] # None /\ new[r].active =>
                              \/ file[r] # None /\ file[r].active
                              \/ r = q /\ new[p] = None /\ file[p] # None /\ file[p].active
      PROVE  VerifiedInv'
  <2>1. NoTwoActive'
    BY <1>2 DEF VerifiedInv, NoTwoActive, IdentityMatches, Present, Owner
  <2> QED
    BY <1>2, <2>1, OwnerStep
<1>3. CASE b \in Bodies /\ OwnerEdit(p, b)
  <2> DEFINE n == [file[p] EXCEPT !.body = b]
             new == [file EXCEPT ![p] = n]
  <2>1. n \in Notes /\ n.active = file[p].active
    BY <1>1, <1>3 DEF Notes
  <2>2. Owner(new) /\ Present(p)
    BY <1>3 DEF OwnerEdit
  <2> HIDE DEF n
  <2>3. new \in [Paths -> Notes \cup {None}]
        /\ \A r \in Paths : new[r] # None /\ new[r].active => file[r] # None /\ file[r].active
    BY <1>1, <2>1, <2>2 DEF Present
  <2> HIDE DEF new
  <2> QED
    BY <1>2, <2>2, <2>3
<1>4. CASE OwnerDelete(p)
  <2> DEFINE new == [file EXCEPT ![p] = None]
  <2>1. Owner(new)
    BY <1>4 DEF OwnerDelete
  <2>2. new \in [Paths -> Notes \cup {None}]
        /\ \A r \in Paths : new[r] # None /\ new[r].active => file[r] # None /\ file[r].active
    BY <1>1
  <2> HIDE DEF new
  <2> QED
    BY <1>2, <2>1, <2>2
<1>5. CASE OwnerMove(p, q)
  <2> DEFINE new == [file EXCEPT ![q] = file[p], ![p] = None]
  <2>1. Owner(new) /\ Present(p) /\ ~Present(q)
    BY <1>5 DEF OwnerMove
  <2>2. new \in [Paths -> Notes \cup {None}]
        /\ \A r \in Paths : new[r] # None /\ new[r].active =>
             \/ file[r] # None /\ file[r].active
             \/ r = q /\ new[p] = None /\ file[p] # None /\ file[p].active
    BY <1>1, <2>1 DEF Present
  <2> HIDE DEF new
  <2> QED
    BY <1>2, <2>1, <2>2
<1> QED
  BY <1>3, <1>4, <1>5

LEMMA ReindexStep ==
    ASSUME VerifiedInv, Reindex
    PROVE  VerifiedInv'
<1>1. index' \in [Paths -> Notes \cup {None}] /\ file' \in [Paths -> Notes \cup {None}]
      /\ owner' \in Nat
  BY DEF Reindex, VerifiedInv, TypeOK
<1>2. during' = (during \/ ~LaneFree)
  BY DEF Reindex, VerifiedInv, TypeOK
<1>3. NoTwoActive' /\ LinksKept'
  BY VaultKept DEF Reindex
<1> QED
  BY <1>1, <1>2, <1>3, EnvironmentStep DEF Reindex

LEMMA CrashStep ==
    ASSUME VerifiedInv, Fault, End,
           UNCHANGED <<file, index, graph, cp, rcp, writes, related, owner, during>>
    PROVE  VerifiedInv'
<1>1. faults' \in Nat /\ graph' \subseteq Targets
      /\ rcp' \in [RelateKeys -> RelateCheckpoints \cup {None}]
  BY DEF Fault, VerifiedInv, TypeOK
<1> QED
  BY <1>1, EndStep

-----------------------------------------------------------------------------
(* The results                                                             *)

LEMMA VerifiedInitial ==
    ASSUME Init
    PROVE  VerifiedInv
<1>1. run.pc = "idle" /\ run \in Runs
  BY DEF Init, NoRun, Runs
<1>2. file \in [Paths -> Notes \cup {None}] /\ \A p \in Paths \ {Canonical} : file[p] = None
  <2>1. CASE file = [p \in Paths |-> None]
    BY <2>1
  <2>2. ASSUME NEW b \in Bodies,
               file = [p \in Paths |-> IF p # Canonical THEN None ELSE
                   [id |-> "seed", body |-> b, meta |-> Plain, links |-> {}, active |-> TRUE]]
        PROVE  file \in [Paths -> Notes \cup {None}] /\ \A p \in Paths \ {Canonical} : file[p] = None
    BY <2>2, VerifiedWritesAssumption DEF Notes
  <2> QED
    BY <2>1, <2>2 DEF Init
<1>3. TypeOK
  BY <1>1, <1>2 DEF Init, TypeOK
<1>4. RunShape /\ StillAsFound
  BY <1>1 DEF RunShape, StillAsFound, UpsertPcs, RelatePcs
<1>5. CheckpointAhead
  BY <1>1 DEF Init, CheckpointAhead
<1>6. NoTwoActive
  BY <1>2 DEF NoTwoActive, IdentityMatches, Present
<1>7. LinksKept
  BY DEF Init, LinksKept
<1> QED
  BY <1>3, <1>4, <1>5, <1>6, <1>7 DEF VerifiedInv

LEMMA VerifiedStep ==
    ASSUME VerifiedInv, [Next]_vars
    PROVE  VerifiedInv'
<1>1. CASE UNCHANGED vars
  BY <1>1 DEF vars, VerifiedInv, TypeOK, RunShape, CheckpointAhead, StillAsFound, NoTwoActive,
              LinksKept, IdentityMatches, Present
<1>2. CASE RelateStep
  BY <1>2, RelateCheckStep, RelateWriteStep, RelateCommitStep, RelateCommitFailsStep,
     RelateReadStep, RelateFinishStep DEF RelateStep
<1>3. CASE Crash
  BY <1>3, CrashStep DEF Crash
<1>4. ASSUME NEW p \in Paths, NEW b \in Bodies, ApiWrite(p, b) \/ OwnerEdit(p, b)
      PROVE  VerifiedInv'
  BY <1>4, ApiWriteStep, OwnerSteps
<1>5. ASSUME NEW p \in Paths,
             ApiArchive(p) \/ OwnerDelete(p) \/ \E q \in Paths : OwnerMove(p, q)
      PROVE  VerifiedInv'
  BY <1>5, ApiArchiveStep, OwnerSteps
<1> QED
  BY <1>1, <1>2, <1>3, <1>4, <1>5, UpsertBeginStep, UpsertRecoverStep, RelateBeginStep,
     UpsertSteps, ReindexStep DEF Next

\* The inductive invariant holds: whatever fails, dies or is retried, the
\* checkpoint of a key is ahead of its write, and what an operation found in
\* the vault is still so while nobody changes the vault under it.
THEOREM VerifiedInvariant == Spec => []VerifiedInv
<1>1. Init => VerifiedInv
  BY VerifiedInitial
<1>2. VerifiedInv /\ [Next]_vars => VerifiedInv'
  BY VerifiedStep
<1> QED
  BY <1>1, <1>2, PTL DEF Spec

\* The type invariant.
THEOREM VerifiedTypeOK == Spec => []TypeOK
<1>1. VerifiedInv => TypeOK
  BY DEF VerifiedInv
<1> QED
  BY <1>1, VerifiedInvariant, PTL

\* A key writes its note at most once, for any number of keys, faults and
\* changes by the owner (_recover_checkpoint).
THEOREM VerifiedWriteOnce == Spec => []WriteOnce
<1>1. VerifiedInv => WriteOnce
  BY DEF VerifiedInv, CheckpointAhead, WriteOnce
<1> QED
  BY <1>1, VerifiedInvariant, PTL

\* There is at most one active note of the identity, at any number of paths, as
\* long as the vault does not change under an operation
\* (resolve_logical_identity).
THEOREM VerifiedOneActive == Spec => []OneActive
<1>1. VerifiedInv => OneActive
  <2> SUFFICES ASSUME VerifiedInv, ~during
               PROVE  Cardinality(IdentityMatches) <= 1
    BY DEF OneActive, IdentityMatches
  <2>1. CASE IdentityMatches = {}
    BY <2>1, FS_EmptySet
  <2>2. ASSUME NEW p \in IdentityMatches
        PROVE  Cardinality(IdentityMatches) <= 1
    <3>1. IdentityMatches = {p}
      BY <2>2 DEF VerifiedInv, NoTwoActive
    <3>2. Cardinality({p}) = 1
      BY FS_Singleton, Zenon
    <3> QED
      BY <3>1, <3>2
  <2> QED
    BY <2>1, <2>2
<1> QED
  BY <1>1, VerifiedInvariant, PTL

\* A link that a relate has written is not lost by later writes, crashes and
\* reindexes (the frontmatter merge of write_note).
THEOREM VerifiedLinksKept == Spec => []LinksKept
<1>1. VerifiedInv => LinksKept
  BY DEF VerifiedInv
<1> QED
  BY <1>1, VerifiedInvariant, PTL

\* An upsert replaces nothing, or the note whose hash its caller named, as long
\* as the vault does not change under it (_validate_expected_content_hash).
THEOREM VerifiedReplacesExpected == Spec => ReplacesExpected
<1> DEFINE A == run.pc = "write" /\ ~during' /\ file' # file
                => file[run.path] = None \/ Hash(file[run.path]) = run.req.expected
<1>1. VerifiedInv /\ [Next]_vars => [A]_vars
  <2> SUFFICES ASSUME VerifiedInv, Next, run.pc = "write", ~during'
               PROVE  file[run.path] = None \/ Hash(file[run.path]) = run.req.expected
    BY DEF vars
  <2>1. ~during
    <3>1. CASE UpsertStep
      BY <3>1 DEF UpsertStep, UpsertWorks, UpsertFails, UpsertResolve, UpsertStart, UpsertCheck,
                  UpsertWrite, UpsertCommit, UpsertReadback, UpsertCommitFails, UpsertWriteError
    <3>2. CASE RelateStep
      BY <3>2 DEF RelateStep, RelateCheck, RelateWrite, RelateCommit, RelateCommitFails,
                  RelateRead, RelateFinish
    <3>3. CASE Crash \/ Reindex
      BY <3>3 DEF Crash, Reindex
    <3>4. ASSUME NEW k \in Keys, NEW req \in Requests, UpsertRecover(k) \/ UpsertBegin(k, req)
          PROVE  ~during
      BY <3>4 DEF UpsertRecover, UpsertBegin
    <3>5. ASSUME NEW k \in Keys, UpsertRecover(k)
          PROVE  ~during
      BY <3>5 DEF UpsertRecover
    <3>6. ASSUME NEW k \in RelateKeys, NEW req \in Relations, NEW p \in Paths, RelateBegin(k, req, p)
          PROVE  ~during
      BY <3>6 DEF RelateBegin
    <3>7. ASSUME NEW p \in Paths, NEW b \in Bodies, ApiWrite(p, b) \/ OwnerEdit(p, b)
          PROVE  ~during
      BY <3>7 DEF ApiWrite, OwnerEdit, Owner
    <3>8. ASSUME NEW p \in Paths, NEW q \in Paths, OwnerMove(p, q)
          PROVE  ~during
      BY <3>8 DEF OwnerMove, Owner
    <3>9. ASSUME NEW p \in Paths, ApiArchive(p) \/ OwnerDelete(p)
          PROVE  ~during
      BY <3>9 DEF ApiArchive, OwnerDelete, Owner
    <3> QED
      BY <3>1, <3>2, <3>3, <3>4, <3>5, <3>6, <3>7, <3>8, <3>9 DEF Next
  <2> QED
    BY <2>1 DEF VerifiedInv, StillAsFound
<1> QED
  BY <1>1, VerifiedInvariant, PTL DEF Spec, ReplacesExpected

-----------------------------------------------------------------------------
(* Managed specifications                                                  *)

\* The parts of SourcesCoexisted.
FilesSourced ==
    \A p \in Paths : Present(p) /\ file[p].meta # Plain => Coexisted(file[p].meta)
CompletionsSourced ==
    \A k \in Completions : mcp[k].env # Plain => Coexisted(mcp[k].env)

LEMMA SourcesParts == SourcesCoexisted <=> FilesSourced /\ CompletionsSourced
BY DEF SourcesCoexisted, FilesSourced, CompletionsSourced

\* The vault has a note, or the index a row, that names the envelope of the upsert.
InVault == \E p \in Paths : Present(p) /\ file[p].meta = run.req.meta
InIndex == \E p \in Paths : index[p] # None /\ index[p].meta = run.req.meta

\* What a step of an upsert may do to the checkpoint of its key, to the file, to
\* the index and to itself.
SavesRequest ==
    \/ cp' = cp
    \/ \E c \in Checkpoints :
          /\ cp' = [cp EXCEPT ![run.key] = c]
          /\ c.req = run.req
          /\ c.state = "COMPLETED" => InVault
          /\ c.state \in {"INTENT", "STARTED"} \/ run' = NoRun
GoesOn ==
    \/ run' = NoRun
    \/ /\ run'.pc \in UpsertPcs /\ run'.key = run.key /\ run'.req = run.req
       /\ run'.pc = "write" => run'.new.meta = run'.req.meta
       /\ run'.pc \in {"commit", "readback"} =>
            run.pc \in {"write", "commit"} \/ InVault \/ InIndex
WritesNew ==
    \/ file' = file /\ writes' = writes /\ run.pc # "write"
    \/ file' = file /\ writes' = writes /\ run' = NoRun
    \/ /\ run.pc = "write" /\ file' = [file EXCEPT ![run.path] = run.new]
       /\ writes' = [writes EXCEPT ![run.key] = @ + 1]
UpsertEffect ==
    /\ run.pc \in UpsertPcs /\ SavesRequest /\ GoesOn /\ WritesNew
    /\ index' = index \/ run.pc = "commit"

\* The records an upsert saves name its request.
LEMMA CheckpointRequests ==
    ASSUME NEW req, NEW p, NEW s, NEW t
    PROVE  Checkpoint(s, req, p, t).req = req /\ Completed(req, p).req = req
BY DEF Checkpoint, Completed

LEMMA AnswerEffect ==
    ASSUME run.pc \in UpsertPcs, NEW c \in Checkpoints, c.req = run.req,
           c.state = "COMPLETED" => InVault,
           SaveCheckpoint(c), End, UNCHANGED <<file, index, writes>>
    PROVE  UpsertEffect
<1>1. run' = NoRun
  BY DEF End
<1>2. SavesRequest
  BY <1>1 DEF SavesRequest, SaveCheckpoint
<1>3. GoesOn /\ WritesNew
  BY <1>1 DEF GoesOn, WritesNew
<1> QED
  BY <1>2, <1>3 DEF UpsertEffect

\* A step of an upsert that saves nothing.
LEMMA SilentEffect ==
    ASSUME run.pc \in UpsertPcs, cp' = cp, GoesOn, WritesNew, index' = index \/ run.pc = "commit"
    PROVE  UpsertEffect
BY DEF UpsertEffect, SavesRequest

LEMMA UpsertEffects ==
    ASSUME VerifiedInv, UpsertStep
    PROVE  UpsertEffect
<1> USE DEF VerifiedInv
<1>a. run \in Runs
  BY DEF TypeOK
<1>1. CASE UpsertResolve
  <2>0. /\ run.pc \in UpsertPcs /\ run.pc = "resolve" /\ run.key \in Keys /\ run.req \in Requests
        /\ UNCHANGED <<file, index, writes>>
    BY <1>1 DEF UpsertResolve, RunShape, UpsertPcs
  <2>1. CASE End /\ UNCHANGED cp
    <3>1. GoesOn /\ WritesNew
      BY <2>0, <2>1 DEF GoesOn, WritesNew, End
    <3> QED
      BY <2>0, <2>1, <3>1, SilentEffect
  <2>2. ASSUME NEW p \in IdentityMatches, Matches(run.req, file[p]),
               SaveCheckpoint(Completed(run.req, p)), End
        PROVE  UpsertEffect
    <3> DEFINE c == Completed(run.req, p)
    <3>1. p \in Paths /\ file[p] \in Notes
      BY <2>2 DEF IdentityMatches, Present, TypeOK
    <3>2. c \in Checkpoints /\ c.req = run.req
      BY <2>0, <3>1, CheckpointTypes, CheckpointRequests
    <3>3. SaveCheckpoint(c)
      BY <2>2
    <3>4. InVault
      BY <2>2 DEF InVault, IdentityMatches, Matches
    <3> HIDE DEF c
    <3> QED
      BY <2>0, <2>2, <3>2, <3>3, <3>4, AnswerEffect
  <2>3. ASSUME NEW p \in Paths, NEW t \in Ids \cup {None},
               SaveCheckpoint(Checkpoint("INTENT", run.req, p, t)),
               run' = [run EXCEPT !.pc = "start", !.path = p, !.target = t]
        PROVE  UpsertEffect
    <3> DEFINE c == Checkpoint("INTENT", run.req, p, t)
    <3>1. c \in Checkpoints /\ c.req = run.req /\ c.state = "INTENT"
      BY <2>0, CheckpointTypes, CheckpointRequests DEF States
    <3>2. cp' = [cp EXCEPT ![run.key] = c]
      BY <2>3 DEF SaveCheckpoint
    <3> HIDE DEF c
    <3>3. run'.pc = "start" /\ run'.key = run.key /\ run'.req = run.req
      BY <1>a, <2>3 DEF Runs
    <3>4. SavesRequest
      BY <3>1, <3>2 DEF SavesRequest
    <3>5. GoesOn /\ WritesNew /\ index' = index
      BY <2>0, <3>3 DEF GoesOn, WritesNew, UpsertPcs
    <3> QED
      BY <2>0, <3>4, <3>5 DEF UpsertEffect
  <2>4. ASSUME NEW p \in IdentityMatches,
               SaveCheckpoint(Checkpoint("INTENT", run.req, p, file[p].id)),
               run' = [run EXCEPT !.pc = "start", !.path = p, !.target = file[p].id]
        PROVE  UpsertEffect
    <3>1. p \in Paths /\ file[p].id \in Ids
      BY <2>4 DEF IdentityMatches, Present, TypeOK, Notes, Ids
    <3> QED
      BY <2>3, <2>4, <3>1
  <2> QED
    BY <1>1, <2>1, <2>2, <2>3, <2>4, VerifiedWritesAssumption DEF UpsertResolve
<1>2. CASE UpsertStart
  <2> DEFINE c == Checkpoint("STARTED", run.req, run.path, run.target)
  <2>1. /\ run.pc \in UpsertPcs /\ run.req \in Requests /\ run.path \in Paths
        /\ run.target \in Ids \cup {None} /\ UNCHANGED <<file, index, writes>>
        /\ run.pc = "start"
    BY <1>2, <1>a DEF UpsertStart, RunShape, UpsertPcs, Runs
  <2>2. c \in Checkpoints /\ c.req = run.req /\ c.state = "STARTED"
    BY <2>1, CheckpointTypes, CheckpointRequests DEF States
  <2>3. cp' = [cp EXCEPT ![run.key] = c]
    BY <1>2 DEF UpsertStart, SaveCheckpoint
  <2> HIDE DEF c
  <2>4. run'.pc = "check" /\ run'.key = run.key /\ run'.req = run.req
    BY <1>2, <1>a DEF UpsertStart, Runs
  <2>5. SavesRequest
    BY <2>2, <2>3 DEF SavesRequest
  <2>6. GoesOn /\ WritesNew
    BY <2>1, <2>4 DEF GoesOn, WritesNew, UpsertPcs
  <2> QED
    BY <2>1, <2>5, <2>6 DEF UpsertEffect
<1>3. CASE UpsertCheck
  <2>1. /\ run.pc \in UpsertPcs /\ run.req \in Requests /\ run.path \in Paths
        /\ run.target \in Ids \cup {None} /\ run.key \in Keys /\ run.pc = "check"
        /\ UNCHANGED <<file, index, writes>>
    BY <1>3, <1>a DEF UpsertCheck, RunShape, UpsertPcs, Runs
  <2>2. CASE SaveCheckpoint(Checkpoint("INTENT", run.req, run.path, run.target)) /\ End
    <3> DEFINE c == Checkpoint("INTENT", run.req, run.path, run.target)
    <3>1. c \in Checkpoints /\ c.req = run.req /\ c.state = "INTENT"
      BY <2>1, CheckpointTypes, CheckpointRequests DEF States
    <3>2. SaveCheckpoint(c)
      BY <2>2
    <3> HIDE DEF c
    <3> QED
      BY <2>1, <2>2, <3>1, <3>2, AnswerEffect
  <2>3. CASE \E c \in {"commit", "write"} :
               LET rows == Refreshed(run.path, run.target)
                   new == Merged(rows[run.path], run.key, run.req.body, run.req.meta, {})
               IN /\ c = "commit" => new = rows[run.path]
                  /\ run' = [run EXCEPT !.pc = c, !.rows = rows, !.new = new]
                  /\ UNCHANGED cp
    <3> DEFINE rows == Refreshed(run.path, run.target)
               new == Merged(rows[run.path], run.key, run.req.body, run.req.meta, {})
    <3>1. rows \in [Paths -> Notes \cup {None}] /\ rows \in {file, index}
      BY MergedTypes DEF Refreshed
    <3>2. run.key \in Ids /\ run.req.body \in Bodies /\ run.req.meta \in Metas
      BY <2>1 DEF Ids, Requests
    <3>3. new \in Notes /\ new.meta = run.req.meta
      <4>1. new \in Notes
        BY <2>1, <3>1, <3>2, MergedTypes
      <4> QED
        BY <4>1 DEF Merged
    <3> HIDE DEF rows, new
    <3>4. PICK c \in {"commit", "write"} :
            /\ c = "commit" => new = rows[run.path]
            /\ run' = [run EXCEPT !.pc = c, !.rows = rows, !.new = new]
            /\ UNCHANGED cp
      BY <2>3 DEF rows, new
    <3>5. run'.pc = c /\ run'.key = run.key /\ run'.req = run.req /\ run'.new = new
      BY <1>a, <3>4 DEF Runs
    <3>6. c = "commit" => InVault \/ InIndex
      BY <2>1, <3>1, <3>3, <3>4, NoneAssumption DEF InVault, InIndex, Present
    <3>7. GoesOn /\ WritesNew
      BY <2>1, <3>3, <3>5, <3>6 DEF GoesOn, WritesNew, UpsertPcs
    <3> QED
      BY <2>1, <3>4, <3>7, SilentEffect
  <2> QED
    BY <1>3, <2>2, <2>3 DEF UpsertCheck
<1>4. CASE UpsertWrite
  <2>1. run'.pc = "commit" /\ run'.key = run.key /\ run'.req = run.req
    BY <1>4, <1>a DEF UpsertWrite, Runs
  <2>2. GoesOn /\ WritesNew
    BY <1>4, <2>1 DEF UpsertWrite, GoesOn, WritesNew, UpsertPcs
  <2> QED
    BY <1>4, <2>2, SilentEffect DEF UpsertWrite, UpsertPcs
<1>5. CASE UpsertCommit
  <2>1. run'.pc = "readback" /\ run'.key = run.key /\ run'.req = run.req
    BY <1>5, <1>a DEF UpsertCommit, Runs
  <2>2. GoesOn /\ WritesNew
    BY <1>5, <2>1 DEF UpsertCommit, GoesOn, WritesNew, UpsertPcs
  <2> QED
    BY <1>5, <2>2, SilentEffect DEF UpsertCommit, UpsertPcs
<1>6. ASSUME run.pc \in {"check", "write", "commit", "readback"},
             UNCHANGED <<file, index, writes>>,
             NEW s \in {"UNKNOWN", "LOST"}, Unknown(s)
      PROVE  UpsertEffect
  <2> DEFINE c == Checkpoint(s, run.req, run.path, run.target)
  <2>1. /\ run.pc \in UpsertPcs /\ run.req \in Requests /\ run.path \in Paths
        /\ run.target \in Ids \cup {None}
    BY <1>6, <1>a DEF RunShape, UpsertPcs, Runs
  <2>2. c \in Checkpoints /\ c.req = run.req /\ c.state = s
    BY <1>6, <2>1, CheckpointTypes, CheckpointRequests DEF States
  <2>3. SaveCheckpoint(c) /\ End
    BY <1>6 DEF Unknown
  <2> HIDE DEF c
  <2> QED
    BY <1>6, <2>1, <2>2, <2>3, AnswerEffect
<1>7. CASE UpsertReadback
  <2>1. /\ run.pc = "readback" /\ run.pc \in UpsertPcs /\ run.req \in Requests /\ run.path \in Paths
        /\ UNCHANGED <<file, index, writes>>
    BY <1>7 DEF UpsertReadback, RunShape, UpsertPcs
  <2>2. CASE Unknown("UNKNOWN")
    BY <1>6, <2>1, <2>2
  <2>3. CASE /\ Present(run.path) /\ Matches(run.req, file[run.path])
             /\ SaveCheckpoint(Completed(run.req, run.path)) /\ End
    <3> DEFINE c == Completed(run.req, run.path)
    <3>1. file[run.path] \in Notes
      BY <2>1, <2>3 DEF Present, TypeOK
    <3>2. c \in Checkpoints /\ c.req = run.req
      BY <2>1, <3>1, CheckpointTypes, CheckpointRequests
    <3>3. SaveCheckpoint(c)
      BY <2>3
    <3>4. InVault
      BY <2>1, <2>3 DEF InVault, Matches
    <3> HIDE DEF c
    <3> QED
      BY <2>1, <2>3, <3>2, <3>3, <3>4, AnswerEffect
  <2> QED
    BY <1>7, <2>2, <2>3 DEF UpsertReadback
<1>8. CASE UpsertCommitFails
  BY <1>6, <1>8 DEF UpsertCommitFails
<1>9. ASSUME NEW os \in BOOLEAN, NEW readable \in BOOLEAN, UpsertWriteError(os, readable)
      PROVE  UpsertEffect
  BY <1>6, <1>9 DEF UpsertWriteError
<1> QED
  BY <1>1, <1>2, <1>3, <1>4, <1>5, <1>7, <1>8, <1>9
     DEF UpsertStep, UpsertWorks, UpsertFails

\* A failed call that finds what was asked for finds it in the vault.
LEMMA FoundInVault ==
    ASSUME VerifiedInv, NEW readable \in BOOLEAN, UpsertFails(readable), FoundWritten(readable)
    PROVE  InVault
<1>1. run.path \in Paths
  BY DEF UpsertFails, UpsertCommitFails, UpsertWriteError, VerifiedInv, RunShape, UpsertPcs
<1> QED
  BY <1>1 DEF FoundWritten, Matches, InVault

-----------------------------------------------------------------------------

\* A step that touches neither the vault nor its checkpoints.
LEMMA VarsKept ==
    ASSUME VerifiedInv, UNCHANGED vars
    PROVE  VerifiedInv' /\ UNCHANGED <<file, index, cp, run, writes>>
BY VerifiedStep DEF vars

\* What was sourced stays so, for the vault only learns of more revisions.
LEMMA SourcedKept ==
    ASSUME ManagedInv, past \subseteq past', mcp' = mcp,
           \A p \in Paths : file'[p] # None => file[p] # None /\ file'[p].meta = file[p].meta
    PROVE  SourcesCoexisted'
<1>1. FilesSourced /\ CompletionsSourced
  BY SourcesParts DEF ManagedInv
<1>2. FilesSourced'
  BY <1>1 DEF FilesSourced, Coexisted, Present
<1>3. CompletionsSourced'
  BY <1>1 DEF CompletionsSourced, Completions, Coexisted
<1> QED
  BY <1>2, <1>3, SourcesParts, PTL

\* A step of a managed call before its output is written, or between calls:
\* only the call itself moves on.
LEMMA OpStep ==
    ASSUME ManagedInv, UNCHANGED <<vars, rev, fresh, past, mcp>>, run.pc = "idle",
           op' \in Ops, OpShape', op'.pc \notin {"upsert", "save"}
    PROVE  ManagedInv'
<1> USE DEF ManagedInv
<1>1. VerifiedInv' /\ UNCHANGED <<file, index, cp, run, writes>>
  BY VarsKept
<1>2. ManagedTypeOK'
  BY DEF ManagedTypeOK
<1>3. EnvelopesSound'
  BY DEF EnvelopesSound, Coexisted
<1>4. UpsertNested'
  BY <1>1 DEF UpsertNested
<1>5. CompletionBacked'
  BY <1>1 DEF CompletionBacked, Completions, OutputKey
<1>6. SourcesCoexisted'
  BY <1>1, SourcedKept
<1>7. OutputWritten'
  BY <1>1 DEF OutputWritten
<1> QED
  BY <1>1, <1>2, <1>3, <1>4, <1>5, <1>6, <1>7

LEMMA NoOpShape ==
    ASSUME op' = NoOp
    PROVE  op' \in Ops /\ OpShape' /\ op'.pc = "idle"
<1>1. op'.pc = "idle" /\ op'.req = None
  BY DEF NoOp
<1>2. op' \in Ops
  BY DEF NoOp, Ops
<1>3. OpShape'
  BY <1>1 DEF OpShape
<1> QED
  BY <1>1, <1>2, <1>3

LEMMA PrepareBeginStep ==
    ASSUME ManagedInv, NEW k \in Prepares, PrepareBegin(k)
    PROVE  ManagedInv'
<1>1. run.pc = "idle" /\ UNCHANGED <<vars, rev, fresh, past, mcp>>
      /\ op' = [NoOp EXCEPT !.pc = "policy", !.key = k]
  BY DEF PrepareBegin, Idle, LaneFree
<1>2. op' \in Ops /\ op'.pc = "policy" /\ op'.key = k /\ op'.req = None
  BY <1>1 DEF NoOp, Ops
<1>3. OpShape'
  BY <1>2 DEF OpShape
<1> QED
  BY <1>1, <1>2, <1>3, OpStep

LEMMA CompleteBeginStep ==
    ASSUME ManagedInv, NEW k \in Prepares, NEW b \in Bodies, NEW h \in Hashes \cup {None},
           CompleteBegin(k, b, h)
    PROVE  ManagedInv'
<1> DEFINE req == Output(mcp[k].env, b, h)
<1>1. run.pc = "idle" /\ UNCHANGED <<vars, rev, fresh, past, mcp>>
      /\ op' = [NoOp EXCEPT !.pc = "policy", !.key = k, !.req = req]
      /\ mcp[k] # None /\ mcp[k].done \in {None, req}
  BY DEF CompleteBegin, Idle, LaneFree
<1>2. mcp[k].env \in Metas
  BY <1>1, EnvelopesAssumption DEF ManagedInv, ManagedTypeOK, Pins
<1>3. req \in Requests /\ req.meta = mcp[k].env
  BY <1>2 DEF Output, Requests
<1> HIDE DEF req
<1>4. op' \in Ops /\ op'.pc = "policy" /\ op'.key = k /\ op'.req = req
  BY <1>1, <1>3 DEF NoOp, Ops
<1>5. OpShape'
  BY <1>1, <1>3, <1>4 DEF OpShape
<1> QED
  BY <1>1, <1>4, <1>5, OpStep

\* The policy is read while it is current: an envelope that names it had its
\* sources together.
LEMMA ReadPolicyStep ==
    ASSUME ManagedInv, ReadPolicy
    PROVE  ManagedInv'
<1>1. op.pc = "policy" /\ UNCHANGED <<vars, rev, fresh, past, mcp>> /\ run.pc = "idle"
  BY DEF ReadPolicy, ManagedInv, UpsertNested
<1>2. CASE op' = NoOp
  BY <1>1, <1>2, NoOpShape, OpStep
<1>3. CASE op' = [op EXCEPT !.pc = "spec", !.policy = rev["policy"]]
  <2>1. op \in Ops /\ rev["policy"] \in 0..MaxRev /\ rev["policy"] \in Int
    BY DEF ManagedInv, ManagedTypeOK, Sources
  <2>2. op' \in Ops /\ op'.pc = "spec" /\ op'.key = op.key /\ op'.req = op.req
        /\ op'.policy = rev["policy"]
    BY <1>3, <2>1 DEF Ops
  <2>3. op.key \in Prepares
    BY <1>1 DEF ManagedInv, OpShape
  <2>4. op.req # None => mcp[op.key] # None /\ op.req.meta = mcp[op.key].env
                         /\ mcp[op.key].done \in {None, op.req}
    BY DEF ManagedInv, OpShape
  <2>5. op.req # None /\ mcp[op.key].env.policy = rev["policy"] => Coexisted(mcp[op.key].env)
    BY <2>1, <2>3, <2>4 DEF ManagedInv, EnvelopesSound
  <2>6. OpShape'
    BY <1>1, <2>1, <2>2, <2>3, <2>4, <2>5 DEF OpShape, Coexisted
  <2> QED
    BY <1>1, <2>2, <2>6, OpStep
<1> QED
  BY <1>2, <1>3 DEF ReadPolicy

LEMMA RevalidateStep ==
    ASSUME ManagedInv, Revalidate
    PROVE  ManagedInv'
<1>1. op.pc = "spec" /\ op.req # None /\ UNCHANGED <<vars, rev, fresh, past, mcp>> /\ run.pc = "idle"
  BY DEF Revalidate, ManagedInv, UpsertNested
<1>2. CASE op' = NoOp
  BY <1>1, <1>2, NoOpShape, OpStep
<1>3. CASE Pinned(ReadEnvelope) /\ op' = [op EXCEPT !.pc = "output"]
  <2>1. op \in Ops /\ op.key \in Prepares
    BY <1>1 DEF ManagedInv, ManagedTypeOK, OpShape
  <2>2. op' \in Ops /\ op'.pc = "output" /\ op'.key = op.key /\ op'.req = op.req
    BY <1>3, <2>1 DEF Ops
  <2>3. mcp[op.key].env.policy = op.policy
    BY <1>3 DEF Pinned, ReadEnvelope
  <2>4. Coexisted(mcp[op.key].env)
    BY <1>1, <2>3 DEF ManagedInv, OpShape
  <2>5. OpShape'
    BY <1>1, <2>1, <2>2, <2>4 DEF ManagedInv, OpShape, Coexisted
  <2> QED
    BY <1>1, <2>2, <2>5, OpStep
<1> QED
  BY <1>2, <1>3 DEF Revalidate

\* The two sources are read one after the other: they were current together, or
\* the policy has been replaced since.
LEMMA PrepareEndStep ==
    ASSUME ManagedInv, PrepareEnd
    PROVE  ManagedInv'
<1>1. /\ op.pc = "spec" /\ op.req = None /\ UNCHANGED <<vars, rev, fresh, past>>
      /\ op' = NoOp /\ run.pc = "idle"
  BY DEF PrepareEnd, Return, ManagedInv, UpsertNested
<1>2. CASE mcp' = mcp
  BY <1>1, <1>2, NoOpShape, OpStep
<1>3. CASE /\ mcp[op.key] = None
           /\ mcp' = [mcp EXCEPT ![op.key] = [env |-> ReadEnvelope, done |-> None]]
  <2> USE DEF ManagedInv
  <2> DEFINE pin == [env |-> ReadEnvelope, done |-> None]
  <2>1. /\ op.key \in Prepares /\ op.policy \in 0..MaxRev /\ op.policy <= rev["policy"]
        /\ rev["spec"] \in 0..MaxRev /\ rev["policy"] \in 0..MaxRev /\ rev \in past
    BY <1>1 DEF OpShape, ManagedTypeOK, Sources
  <2>2. /\ pin \in Pins /\ pin.env.key = op.key /\ pin.env.policy = op.policy
        /\ pin.env.spec = rev["spec"] /\ pin.done = None
    BY <2>1 DEF ReadEnvelope, Pins, Envelopes
  <2> HIDE DEF pin
  <2>3. mcp' \in [Prepares -> Pins \cup {None}] /\ mcp'[op.key] = pin
        /\ \A j \in Prepares \ {op.key} : mcp'[j] = mcp[j]
    BY <1>3, <2>1, <2>2 DEF ManagedTypeOK, pin
  <2>4. Coexisted(pin.env) \/ pin.env.policy < rev["policy"]
    <3>1. CASE op.policy = rev["policy"]
      BY <2>1, <2>2, <3>1 DEF Coexisted
    <3>2. CASE op.policy < rev["policy"]
      BY <2>2, <3>2
    <3> QED
      BY <2>1, <3>1, <3>2
  <2>5. VerifiedInv' /\ UNCHANGED <<file, index, cp, run, writes>>
    BY <1>1, VarsKept
  <2>6. ManagedTypeOK'
    BY <1>1, <2>3, NoOpShape DEF ManagedTypeOK
  <2>7. EnvelopesSound'
    BY <1>1, <2>2, <2>3, <2>4 DEF EnvelopesSound, Coexisted
  <2>8. UpsertNested'
    BY <1>1, <2>5, NoOpShape DEF UpsertNested
  <2>9. Completions' = Completions /\ \A k \in Completions : mcp'[k] = mcp[k]
    BY <1>3, <2>2, <2>3 DEF Completions
  <2>10. CompletionBacked'
    BY <2>5, <2>9 DEF CompletionBacked, OutputKey
  <2>11. SourcesCoexisted'
    <3>1. FilesSourced /\ CompletionsSourced
      BY SourcesParts
    <3>2. FilesSourced'
      BY <1>1, <2>5, <3>1 DEF FilesSourced, Coexisted, Present
    <3>3. CompletionsSourced'
      BY <1>1, <2>9, <3>1 DEF CompletionsSourced, Coexisted
    <3> QED
      BY <3>2, <3>3, SourcesParts, PTL
  <2>12. OutputWritten'
    BY <1>1, <2>5, NoOpShape DEF OutputWritten
  <2> QED
    BY <1>1, <2>5, <2>6, <2>7, <2>8, <2>10, <2>11, <2>12, NoOpShape
<1> QED
  BY <1>2, <1>3 DEF PrepareEnd

\* Only what the verified upsert has recorded and written is completed.
LEMMA CompleteEndStep ==
    ASSUME ManagedInv, CompleteEnd
    PROVE  ManagedInv'
<1> USE DEF ManagedInv
<1>1. /\ op.pc = "save" /\ UNCHANGED <<vars, rev, fresh, past>>
      /\ op' = NoOp /\ run.pc = "idle"
      /\ mcp' = [mcp EXCEPT ![op.key].done = op.req]
  BY DEF CompleteEnd, Return, UpsertNested
<1> DEFINE pin == [mcp[op.key] EXCEPT !.done = op.req]
<1>2. /\ op.key \in Prepares /\ op.req # None /\ op.req \in Requests
      /\ mcp[op.key] # None /\ op.req.meta = mcp[op.key].env /\ Coexisted(mcp[op.key].env)
      /\ mcp[op.key] \in Pins
  BY <1>1 DEF OpShape, ManagedTypeOK, Ops
<1>3. pin \in Pins /\ pin.env = mcp[op.key].env /\ pin.done = op.req /\ pin # None
  BY <1>2, EnvelopesAssumption DEF Pins
<1>4. mcp' = [mcp EXCEPT ![op.key] = pin]
  BY <1>1
<1> HIDE DEF pin
<1>5. mcp' \in [Prepares -> Pins \cup {None}] /\ mcp'[op.key] = pin
      /\ \A j \in Prepares \ {op.key} : mcp'[j] = mcp[j]
  BY <1>2, <1>3, <1>4 DEF ManagedTypeOK
<1>6. VerifiedInv' /\ UNCHANGED <<file, index, cp, run, writes>>
  BY <1>1, VarsKept
<1>7. ManagedTypeOK'
  BY <1>1, <1>5, NoOpShape DEF ManagedTypeOK
<1>8. EnvelopesSound'
  BY <1>1, <1>2, <1>3, <1>5 DEF EnvelopesSound, Coexisted
<1>9. UpsertNested' /\ OutputWritten'
  BY <1>1, <1>6, NoOpShape DEF UpsertNested, OutputWritten
<1>10. Completions' = Completions \cup {op.key}
  BY <1>2, <1>3, <1>5 DEF Completions
<1>11. /\ cp[Out] # None /\ cp[Out].state \in {"COMPLETED", "UNKNOWN"} /\ cp[Out].req = op.req
       /\ writes[Out] = 1
  BY <1>1 DEF UpsertNested, OutputWritten
<1>12. CompletionBacked'
  BY <1>2, <1>3, <1>5, <1>6, <1>10, <1>11 DEF CompletionBacked, OutputKey, Completions
<1>13. SourcesCoexisted'
  <2>1. FilesSourced /\ CompletionsSourced
    BY SourcesParts
  <2>2. FilesSourced'
    BY <1>1, <1>6, <2>1 DEF FilesSourced, Coexisted, Present
  <2>3. CompletionsSourced'
    BY <1>1, <1>2, <1>3, <1>5, <1>10, <2>1 DEF CompletionsSourced, Completions, Coexisted
  <2> QED
    BY <2>2, <2>3, SourcesParts, PTL
<1> QED
  BY <1>1, <1>6, <1>7, <1>8, <1>9, <1>12, <1>13, NoOpShape

LEMMA SourceChangeStep ==
    ASSUME ManagedInv, NEW n \in Sources, NEW indexed \in BOOLEAN, SourceChange(n, indexed)
    PROVE  ManagedInv'
<1> USE DEF ManagedInv
<1>1. /\ rev[n] < MaxRev /\ rev' = [rev EXCEPT ![n] = @ + 1]
      /\ fresh' = [fresh EXCEPT ![n] = indexed] /\ past' = past \cup {rev'}
      /\ UNCHANGED <<vars, mcp, op>>
  BY DEF SourceChange
<1>2. rev' \in [Sources -> 0..MaxRev] /\ rev["policy"] <= rev'["policy"]
      /\ rev["policy"] \in Int /\ rev'["policy"] \in Int
  BY <1>1, ManagedSpecsAssumption DEF ManagedTypeOK, Sources
<1>3. VerifiedInv' /\ UNCHANGED <<file, index, cp, run, writes>>
  BY <1>1, VarsKept
<1>4. ManagedTypeOK'
  BY <1>1, <1>2 DEF ManagedTypeOK
<1>5. EnvelopesSound'
  <2> SUFFICES ASSUME NEW k \in Prepares, mcp[k] # None
               PROVE  /\ mcp[k].env.key = k
                      /\ Coexisted(mcp[k].env)' \/ mcp[k].env.policy < rev'["policy"]
    BY <1>1 DEF EnvelopesSound, Coexisted
  <2>1. mcp[k].env.policy \in Int
    BY DEF ManagedTypeOK, Pins, Envelopes
  <2> QED
    BY <1>1, <1>2, <2>1 DEF EnvelopesSound, Coexisted
<1>6. OpShape'
  BY <1>1, <1>2 DEF OpShape, Coexisted
<1>7. UpsertNested'
  BY <1>1, <1>3 DEF UpsertNested
<1>8. CompletionBacked'
  BY <1>1, <1>3 DEF CompletionBacked, Completions, OutputKey
<1>9. SourcesCoexisted'
  BY <1>1, <1>3, SourcedKept
<1>10. OutputWritten'
  BY <1>1, <1>3 DEF OutputWritten
<1> QED
  BY <1>3, <1>4, <1>5, <1>6, <1>7, <1>8, <1>9, <1>10

\* A step outside the managed calls that keeps the checkpoints and the
\* provenance of every note.
LEMMA OtherStep ==
    ASSUME ManagedInv, VerifiedInv', UNCHANGED <<cp, writes, rev, past, mcp>>,
           fresh' \in [Sources -> BOOLEAN],
           \/ UNCHANGED <<run, op>>
           \/ op' = NoOp /\ run'.pc = "idle",
           \A p \in Paths : file'[p] # None => file[p] # None /\ file'[p].meta = file[p].meta,
           \/ index' = index
           \/ index' = file
           \/ \E p \in Paths : index' = [index EXCEPT ![p] = file'[p]]
    PROVE  ManagedInv'
<1> USE DEF ManagedInv
<1>1. ManagedTypeOK' /\ OpShape'
  <2>1. CASE op' = op
    BY <2>1 DEF ManagedTypeOK, OpShape, Coexisted
  <2>2. CASE op' = NoOp
    BY <2>2, NoOpShape DEF ManagedTypeOK
  <2> QED
    BY <2>1, <2>2
<1>2. UpsertNested'
  <2>1. CASE UNCHANGED <<run, op>>
    BY <2>1 DEF UpsertNested
  <2>2. CASE op' = NoOp /\ run'.pc = "idle"
    BY <2>2, NoOpShape DEF UpsertNested
  <2> QED
    BY <2>1, <2>2
<1>3. EnvelopesSound'
  BY DEF EnvelopesSound, Coexisted
<1>4. CompletionBacked'
  BY DEF CompletionBacked, Completions, OutputKey
<1>5. SourcesCoexisted'
  BY SourcedKept
<1>6. OutputWritten'
  <2>1. index \in [Paths -> Notes \cup {None}]
    BY DEF VerifiedInv, TypeOK
  <2>2. writes[Out] # 1 => \A p \in Paths : /\ file'[p] # None => file'[p].meta = Plain
                                            /\ index'[p] # None => index'[p].meta = Plain
    BY <2>1 DEF OutputWritten
  <2>3. /\ op'.pc = "save" => writes[Out] = 1
        /\ run'.pc \in {"commit", "readback"} => writes[Out] = 1
    <3>1. CASE UNCHANGED <<run, op>>
      BY <3>1 DEF OutputWritten
    <3>2. CASE op' = NoOp /\ run'.pc = "idle"
      BY <3>2, NoOpShape
    <3> QED
      BY <3>1, <3>2
  <2> QED
    BY <2>2, <2>3 DEF OutputWritten
<1> QED
  BY <1>1, <1>2, <1>3, <1>4, <1>5, <1>6

LEMMA ReindexSourcesStep ==
    ASSUME ManagedInv, ReindexSources
    PROVE  ManagedInv'
<1>1. /\ LaneFree /\ index' = file
      /\ UNCHANGED <<file, graph, cp, rcp, run, writes, related, owner, during, faults>>
      /\ UNCHANGED <<rev, past, mcp, op>> /\ fresh' \in [Sources -> BOOLEAN]
  BY DEF ReindexSources, Idle
<1>2. VerifiedInv'
  <2>1. CASE index = file
    BY <1>1, <2>1, VarsKept DEF ManagedInv, vars
  <2>2. CASE index # file
    BY <1>1, <2>2, ReindexStep DEF ManagedInv, Reindex
  <2> QED
    BY <2>1, <2>2
<1> QED
  BY <1>1, <1>2, OtherStep

LEMMA OpDiesStep ==
    ASSUME ManagedInv, OpDies
    PROVE  ManagedInv'
<1>1. /\ Fault /\ End /\ op' = NoOp
      /\ UNCHANGED <<file, index, graph, cp, rcp, writes, related, owner, during>>
      /\ UNCHANGED <<rev, fresh, past, mcp>>
  BY DEF OpDies, Return
<1>2. VerifiedInv' /\ run'.pc = "idle"
  BY <1>1, CrashStep, RunEnded DEF ManagedInv
<1>3. fresh' \in [Sources -> BOOLEAN]
  BY <1>1 DEF ManagedInv, ManagedTypeOK
<1> QED
  BY <1>1, <1>2, <1>3, OtherStep

LEMMA OthersStep ==
    ASSUME ManagedInv, Others
    PROVE  ManagedInv'
<1> USE DEF ManagedInv
<1>1. UNCHANGED <<rev, fresh, past, mcp, op>> /\ fresh' \in [Sources -> BOOLEAN]
  BY DEF Others, mvars, ManagedTypeOK
<1>2. file \in [Paths -> Notes \cup {None}]
  BY DEF VerifiedInv, TypeOK
<1>3. CASE Reindex
  BY <1>1, <1>3, ReindexStep, OtherStep DEF Reindex
<1>4. ASSUME NEW p \in Paths, NEW b \in Bodies, ApiWrite(p, b)
      PROVE  ManagedInv'
  <2>1. UNCHANGED <<cp, run, writes>> /\ file' = [file EXCEPT ![p].body = b] /\ file[p] \in Notes
        /\ file[p] # None /\ index' = [index EXCEPT ![p] = file'[p]]
    BY <1>2, <1>4 DEF ApiWrite, Present
  <2>2. \A q \in Paths : file'[q] # None => file[q] # None /\ file'[q].meta = file[q].meta
    BY <1>2, <2>1 DEF Notes
  <2> QED
    BY <1>1, <1>4, <2>1, <2>2, ApiWriteStep, OtherStep
<1>5. ASSUME NEW p \in Paths, ApiArchive(p)
      PROVE  ManagedInv'
  <2>1. UNCHANGED <<cp, run, writes>> /\ file' = [file EXCEPT ![p].active = FALSE]
        /\ file[p] \in Notes /\ file[p] # None /\ index' = [index EXCEPT ![p] = file'[p]]
    BY <1>2, <1>5 DEF ApiArchive, Present
  <2>2. \A q \in Paths : file'[q] # None => file[q] # None /\ file'[q].meta = file[q].meta
    BY <1>2, <2>1 DEF Notes
  <2> QED
    BY <1>1, <1>5, <2>1, <2>2, ApiArchiveStep, OtherStep
<1>6. ASSUME NEW p \in Paths, OwnerDelete(p)
      PROVE  ManagedInv'
  <2>1. UNCHANGED <<index, cp, run, writes>> /\ file' = [file EXCEPT ![p] = None]
    BY <1>6 DEF OwnerDelete, Owner
  <2>2. \A q \in Paths : file'[q] # None => file[q] # None /\ file'[q].meta = file[q].meta
    BY <1>2, <2>1
  <2>3. VerifiedInv'
    BY <1>6, OwnerSteps
  <2> QED
    BY <1>1, <2>1, <2>2, <2>3, OtherStep
<1>7. ASSUME NEW p \in Paths, NEW b \in Bodies, OwnerEdit(p, b)
      PROVE  ManagedInv'
  <2>1. UNCHANGED <<index, cp, run, writes>> /\ file' = [file EXCEPT ![p].body = b]
        /\ file[p] \in Notes /\ file[p] # None
    BY <1>2, <1>7 DEF OwnerEdit, Owner, Present
  <2>2. \A q \in Paths : file'[q] # None => file[q] # None /\ file'[q].meta = file[q].meta
    BY <1>2, <2>1 DEF Notes
  <2>3. VerifiedInv'
    BY <1>7, OwnerSteps
  <2> QED
    BY <1>1, <2>1, <2>2, <2>3, OtherStep
<1> QED
  BY <1>3, <1>4, <1>5, <1>6, <1>7 DEF Others

LEMMA StartOutputStep ==
    ASSUME ManagedInv, StartOutput
    PROVE  ManagedInv'
<1> USE DEF ManagedInv
<1>1. /\ op.pc = "output" /\ UNCHANGED <<rev, fresh, past, mcp>> /\ op \in Ops /\ Out \in Keys
      /\ op.key \in Prepares /\ op.req # None /\ op.req \in Requests
      /\ Coexisted(mcp[op.key].env) /\ op.req.meta = mcp[op.key].env /\ run.pc = "idle"
  BY ManagedSpecsAssumption DEF StartOutput, OpShape, ManagedTypeOK, Ops, UpsertNested
<1>2. CASE op' = NoOp /\ UNCHANGED vars
  BY <1>1, <1>2, NoOpShape, OpStep
<1>3. ASSUME NEW c \in {"upsert", "save"}, op' = [op EXCEPT !.pc = c],
             VerifiedInv', UNCHANGED <<file, index, writes>>,
             cp[Out] # None => /\ cp'[Out] # None /\ cp'[Out].req = cp[Out].req
                               /\ cp'[Out].state \in {cp[Out].state, "COMPLETED"},
             cp'[Out] # None => cp'[Out].req = op.req,
             \/ /\ c = "save" /\ run'.pc = "idle" /\ writes[Out] = 1
                /\ cp'[Out] # None /\ cp'[Out].state = "COMPLETED"
             \/ /\ c = "upsert" /\ run'.pc = "resolve" /\ run'.key = Out /\ run'.req = op.req
                /\ cp'[Out] # None => cp'[Out].state = "INTENT"
      PROVE  ManagedInv'
  <2>1. op' \in Ops /\ op'.pc = c /\ op'.key = op.key /\ op'.req = op.req
    BY <1>1, <1>3 DEF Ops
  <2>2. ManagedTypeOK'
    BY <1>1, <2>1 DEF ManagedTypeOK
  <2>3. EnvelopesSound'
    BY <1>1 DEF EnvelopesSound, Coexisted
  <2>4. OpShape'
    BY <1>1, <1>3, <2>1 DEF OpShape, Coexisted
  <2>5. UpsertNested'
    BY <1>3, <2>1 DEF UpsertNested, UpsertPcs
  <2>6. CompletionBacked'
    <3>1. \A k \in Completions : cp[Out] # None
      BY DEF CompletionBacked, OutputKey
    <3> QED
      BY <1>1, <1>3, <3>1 DEF CompletionBacked, Completions, OutputKey
  <2>7. SourcesCoexisted'
    BY <1>1, <1>3, SourcedKept
  <2>8. OutputWritten'
    BY <1>3, <2>1 DEF OutputWritten
  <2> QED
    BY <1>3, <2>2, <2>3, <2>4, <2>5, <2>6, <2>7, <2>8
<1>4. CASE UpsertBegin(Out, op.req) /\ op' = [op EXCEPT !.pc = "upsert"]
  <2>1. VerifiedInv' /\ UNCHANGED <<file, index, writes, cp>>
    BY <1>1, <1>4, UpsertBeginStep DEF UpsertBegin
  <2>2. run'.pc = "resolve" /\ run'.key = Out /\ run'.req = op.req
    BY <1>4 DEF UpsertBegin, NoRun
  <2>3. cp[Out] # None => cp[Out].req = op.req /\ cp[Out].state = "INTENT"
    BY <1>4 DEF UpsertBegin, Resumable
  <2> QED
    BY <1>3, <1>4, <2>1, <2>2, <2>3
\* A note that the checkpoint matches names the envelope: it has been written.
<1>5. ASSUME cp[Out] # None, cp[Out].req = op.req, Present(cp[Out].path),
             Matches(cp[Out].req, file[cp[Out].path])
      PROVE  writes[Out] = 1
  <2>1. cp[Out].path \in Paths
    BY <1>1, <1>5 DEF VerifiedInv, TypeOK, Checkpoints
  <2>2. op.req.meta # Plain
    BY <1>1, EnvelopesAssumption DEF ManagedTypeOK, OpShape, Pins
  <2> QED
    BY <1>5, <2>1, <2>2 DEF OutputWritten, Matches, Present
<1>6. CASE cp[Out] # None /\ Admitted(Out, op.req) /\ UpsertRecover(Out) /\ op' = [op EXCEPT !.pc = "save"]
  <2>1. VerifiedInv' /\ UNCHANGED <<file, index, writes, run>>
        /\ cp' = [cp EXCEPT ![Out] = Completed(cp[Out].req, cp[Out].path)]
    BY <1>1, <1>6, UpsertRecoverStep DEF UpsertRecover
  <2>2. cp[Out].req = op.req /\ writes[Out] = 1
    BY <1>5, <1>6 DEF Admitted, UpsertRecover, Recoverable
  <2>3. cp'[Out] = Completed(cp[Out].req, cp[Out].path)
    BY <1>1, <2>1 DEF VerifiedInv, TypeOK
  <2>4. cp'[Out].req = op.req /\ cp'[Out] # None /\ cp'[Out].state = "COMPLETED"
    <3>1. cp[Out].req \in Requests /\ cp[Out].path \in Paths /\ file[cp[Out].path] \in Notes
      BY <1>1, <1>6 DEF UpsertRecover, Recoverable, Present, VerifiedInv, TypeOK, Checkpoints
    <3> DEFINE c == Completed(cp[Out].req, cp[Out].path)
    <3>2. c # None /\ c.state = "COMPLETED"
      BY <3>1, CheckpointTypes
    <3>3. c.req = cp[Out].req
      BY CheckpointRequests
    <3> QED
      BY <2>2, <2>3, <3>2, <3>3
  <2> QED
    BY <1>1, <1>3, <1>6, <2>1, <2>2, <2>4
<1>7. CASE /\ cp[Out] # None /\ Admitted(Out, op.req) /\ Replayable(Out)
           /\ op' = [op EXCEPT !.pc = "save"] /\ UNCHANGED vars
  <2>1. cp[Out].req = op.req /\ cp[Out].state = "COMPLETED" /\ writes[Out] = 1
    BY <1>5, <1>7 DEF Admitted, Replayable
  <2> QED
    BY <1>1, <1>3, <1>7, <2>1, VarsKept
<1> QED
  BY <1>2, <1>4, <1>6, <1>7 DEF StartOutput, OutputKey, Return

\* While the nested upsert runs its checkpoint has recorded its intent or its
\* start, so that nothing is completed; what it writes carries the envelope of
\* the call, and an answer that is accepted has found that in the vault.
LEMMA OutputStepStep ==
    ASSUME ManagedInv, OutputStep
    PROVE  ManagedInv'
<1> USE DEF ManagedInv
<1>1. op.pc = "upsert" /\ UpsertStep /\ UNCHANGED <<rev, fresh, past, mcp>>
  BY DEF OutputStep, UpsertStep
<1>2. VerifiedInv' /\ UpsertEffect
  BY <1>1, UpsertSteps, UpsertEffects
<1>3. /\ run.pc \in UpsertPcs /\ run.key = Out /\ run.req = op.req /\ Out \in Keys
      /\ cp[Out] # None => cp[Out].state \in {"INTENT", "STARTED"} /\ cp[Out].req = op.req
      /\ run.path \in Paths \/ run.pc = "resolve"
      /\ NoRun.pc = "idle" /\ op \in Ops
  BY <1>1, <1>2, ManagedSpecsAssumption
     DEF UpsertEffect, UpsertNested, UpsertPcs, VerifiedInv, RunShape, NoRun, ManagedTypeOK
<1>4. Completions = {} /\ Completions' = {}
  BY <1>1, <1>3 DEF CompletionBacked, OutputKey, Completions
\* What the step records.
<1>5. /\ cp'[Out] # None => cp'[Out].req = op.req
      /\ cp'[Out] # None /\ run' # NoRun => cp'[Out].state \in {"INTENT", "STARTED"}
      /\ cp'[Out] # None /\ cp'[Out].state = "COMPLETED" => InVault
  <2>1. CASE cp' = cp
    BY <1>3, <2>1
  <2>2. ASSUME NEW c \in Checkpoints, cp' = [cp EXCEPT ![run.key] = c], c.req = run.req,
               c.state = "COMPLETED" => InVault,
               c.state \in {"INTENT", "STARTED"} \/ run' = NoRun
        PROVE  /\ cp'[Out].req = op.req
               /\ run' # NoRun => cp'[Out].state \in {"INTENT", "STARTED"}
               /\ cp'[Out].state = "COMPLETED" => InVault
    <3>1. cp'[Out] = c
      BY <1>3, <2>2 DEF VerifiedInv, TypeOK
    <3> QED
      BY <1>3, <2>2, <3>1
  <2> QED
    BY <1>2, <2>1, <2>2 DEF UpsertEffect, SavesRequest
\* A note or a row with the envelope of the call has been written by it.
<1>6. InVault \/ InIndex => writes[Out] = 1
  <2>1. op.req.meta # Plain
    BY <1>1, EnvelopesAssumption DEF ManagedTypeOK, OpShape, Pins
  <2> QED
    BY <1>3, <2>1 DEF InVault, InIndex, OutputWritten, Present
<1>7. /\ \A k \in Keys : writes[k] \in {0, 1} /\ writes'[k] \in {0, 1}
      /\ writes \in [Keys -> Nat]
  BY <1>2 DEF VerifiedInv, CheckpointAhead, TypeOK
<1>8. /\ writes[Out] = 1 => writes'[Out] = 1
      /\ run.pc = "write" /\ run' # NoRun => writes'[Out] = 1
  BY <1>2, <1>3, <1>7 DEF UpsertEffect, WritesNew
\* The call waits, goes on to save, or ends.
<1>9. \/ op' = op /\ run' # NoRun
      \/ op' = NoOp /\ run' = NoRun
      \/ /\ op' = [op EXCEPT !.pc = "save"] /\ run' = NoRun
         /\ cp'[Out] # None /\ cp'[Out].state \in {"COMPLETED", "UNKNOWN"} /\ writes[Out] = 1
  <2>1. ASSUME NEW found \in BOOLEAN, Await(found), found => InVault
        PROVE  \/ op' = op /\ run' # NoRun
               \/ op' = NoOp /\ run' = NoRun
               \/ /\ op' = [op EXCEPT !.pc = "save"] /\ run' = NoRun /\ cp'[Out] # None
                  /\ cp'[Out].state \in {"COMPLETED", "UNKNOWN"} /\ writes[Out] = 1
    BY <1>3, <1>5, <1>6, <2>1 DEF Await, Verified
  <2>2. ASSUME NEW readable \in BOOLEAN, UpsertFails(readable), FoundWritten(readable)
        PROVE  InVault
    BY <2>2, FoundInVault
  <2>3. \A readable \in BOOLEAN : FoundWritten(readable) \in BOOLEAN
    BY DEF FoundWritten
  <2> QED
    BY <2>1, <2>2, <2>3 DEF OutputStep
<1>10. /\ op' \in Ops /\ OpShape'
       /\ op'.pc = "upsert" => op' = op /\ run' # NoRun
       /\ op'.pc = "save" => /\ run' = NoRun /\ cp'[Out] # None /\ writes[Out] = 1
                             /\ cp'[Out].state \in {"COMPLETED", "UNKNOWN"} /\ op'.req = op.req
       /\ run' # NoRun => op' = op
  <2>1. CASE op' = op /\ run' # NoRun
    BY <1>1, <1>3, <2>1 DEF OpShape, Coexisted
  <2>2. CASE op' = NoOp /\ run' = NoRun
    BY <2>2, NoOpShape
  <2>3. CASE /\ op' = [op EXCEPT !.pc = "save"] /\ run' = NoRun
             /\ cp'[Out] # None /\ cp'[Out].state \in {"COMPLETED", "UNKNOWN"} /\ writes[Out] = 1
    <3>1. op' \in Ops /\ op'.pc = "save" /\ op'.key = op.key /\ op'.req = op.req
      BY <1>3, <2>3 DEF Ops
    <3>2. OpShape'
      BY <1>1, <3>1 DEF OpShape, Coexisted
    <3> QED
      BY <2>3, <3>1, <3>2
  <2> QED
    BY <1>9, <2>1, <2>2, <2>3
<1>11. ManagedTypeOK' /\ EnvelopesSound'
  BY <1>1, <1>10 DEF ManagedTypeOK, EnvelopesSound, Coexisted
<1>12. UpsertNested'
  <2>1. CASE run' = NoRun
    BY <1>3, <1>5, <1>10, <2>1 DEF UpsertNested
  <2>2. CASE run' # NoRun
    BY <1>1, <1>2, <1>3, <1>5, <1>10, <2>2 DEF UpsertEffect, GoesOn, UpsertNested, UpsertPcs
  <2> QED
    BY <2>1, <2>2
<1>13. CompletionBacked'
  BY <1>4 DEF CompletionBacked
<1>14. SourcesCoexisted'
  <2>1. FilesSourced
    BY SourcesParts
  <2>2. FilesSourced'
    <3>1. CASE file' = file
      BY <1>1, <2>1, <3>1 DEF FilesSourced, Coexisted, Present
    <3>2. CASE run.pc = "write" /\ file' = [file EXCEPT ![run.path] = run.new]
      <4>1. run.path \in Paths /\ file'[run.path] = run.new
            /\ \A p \in Paths \ {run.path} : file'[p] = file[p]
        BY <1>3, <3>2 DEF VerifiedInv, TypeOK
      <4>2. run.new.meta = mcp[op.key].env /\ Coexisted(mcp[op.key].env)
        BY <1>1, <1>3, <3>2 DEF UpsertNested, OpShape
      <4> QED
        BY <1>1, <2>1, <4>1, <4>2 DEF FilesSourced, Coexisted, Present
    <3> QED
      BY <1>2, <3>1, <3>2 DEF UpsertEffect, WritesNew
  <2>3. CompletionsSourced'
    BY <1>4 DEF CompletionsSourced
  <2> QED
    BY <2>2, <2>3, SourcesParts, PTL
<1>15. OutputWritten'
  <2>1. op'.pc = "save" => writes'[Out] = 1
    BY <1>8, <1>10
  <2>2. run'.pc \in {"commit", "readback"} => writes'[Out] = 1
    <3>1. run'.pc \in {"commit", "readback"} => run' # NoRun
      BY <1>3
    <3>2. run.pc = "commit" => writes[Out] = 1
      BY DEF OutputWritten
    <3> QED
      BY <1>2, <1>6, <1>8, <3>1, <3>2 DEF UpsertEffect, GoesOn
  <2>3. ASSUME writes'[Out] # 1
        PROVE  \A p \in Paths : /\ file'[p] # None => file'[p].meta = Plain
                                /\ index'[p] # None => index'[p].meta = Plain
    <3>1. writes[Out] # 1 /\ run.pc # "commit"
      BY <1>8, <2>3 DEF OutputWritten
    <3>2. file' = file
      BY <1>2, <1>3, <1>7, <2>3, <3>1 DEF UpsertEffect, WritesNew
    <3>3. index' = index
      BY <1>2, <3>1 DEF UpsertEffect
    <3> QED
      BY <3>1, <3>2, <3>3 DEF OutputWritten
  <2> QED
    BY <2>1, <2>2, <2>3 DEF OutputWritten
<1> QED
  BY <1>2, <1>10, <1>11, <1>12, <1>13, <1>14, <1>15

LEMMA ManagedInitial ==
    ASSUME ManagedInit
    PROVE  ManagedInv
<1>1. VerifiedInv /\ run.pc = "idle"
  BY VerifiedInitial DEF ManagedInit, Init, NoRun
<1>2. op = NoOp /\ op.pc = "idle" /\ op.req = None /\ op \in Ops
  BY DEF ManagedInit, NoOp, Ops
<1>3. Completions = {} /\ \A k \in Prepares : mcp[k] = None
  BY DEF ManagedInit, Completions
<1>4. ManagedTypeOK
  BY <1>2, ManagedSpecsAssumption DEF ManagedInit, ManagedTypeOK
<1>5. EnvelopesSound /\ CompletionBacked /\ CompletionsSourced
  BY <1>3 DEF EnvelopesSound, CompletionBacked, CompletionsSourced
<1>6. OpShape /\ UpsertNested
  BY <1>1, <1>2 DEF OpShape, UpsertNested
<1>7. index = file /\ \A p \in Paths : Present(p) => file[p].meta = Plain
  BY DEF ManagedInit, Init, Present
<1>8. FilesSourced
  BY <1>7 DEF FilesSourced
<1>9. OutputWritten
  BY <1>1, <1>2, <1>7 DEF OutputWritten, Present
<1> QED
  BY <1>1, <1>4, <1>5, <1>6, <1>8, <1>9, SourcesParts DEF ManagedInv

LEMMA ManagedStep ==
    ASSUME ManagedInv, [ManagedNext]_<<vars, mvars>>
    PROVE  ManagedInv'
<1>1. CASE UNCHANGED <<vars, mvars>>
  <2>1. VerifiedInv' /\ UNCHANGED <<file, index, cp, run, writes>>
    BY <1>1, VarsKept DEF ManagedInv
  <2>2. UNCHANGED <<rev, fresh, past, mcp, op>> /\ fresh' \in [Sources -> BOOLEAN]
    BY <1>1 DEF mvars, ManagedInv, ManagedTypeOK
  <2> QED
    BY <2>1, <2>2, OtherStep
<1> QED
  BY <1>1, PrepareBeginStep, CompleteBeginStep, ReadPolicyStep, PrepareEndStep, RevalidateStep,
     StartOutputStep, OutputStepStep, CompleteEndStep, SourceChangeStep, ReindexSourcesStep,
     OpDiesStep, OthersStep DEF ManagedNext

-----------------------------------------------------------------------------
(* The results                                                             *)

\* The inductive invariant holds, whatever dies between two checkpoints and
\* whenever the sources change.
THEOREM ManagedInvariant == ManagedSpec => []ManagedInv
<1>1. ManagedInit => ManagedInv
  BY ManagedInitial
<1>2. ManagedInv /\ [ManagedNext]_<<vars, mvars>> => ManagedInv'
  BY ManagedStep
<1> QED
  BY <1>1, <1>2, PTL DEF ManagedSpec

\* A completed prepare is backed by the verified upsert of exactly its output,
\* which has written it once: also when the commit of that upsert has failed
\* (_complete_serialized, _require_verified_output).
THEOREM ManagedCompletionBacked == ManagedSpec => []CompletionBacked
<1>1. ManagedInv => CompletionBacked
  BY DEF ManagedInv
<1> QED
  BY <1>1, ManagedInvariant, PTL

\* Of any number of prepares for a logical identity at most one ever completes
\* (_output_idempotency_key).
THEOREM ManagedOneCompletion == ManagedSpec => []OneCompletion
<1>1. ManagedInv => OneCompletion
  <2> SUFFICES ASSUME ManagedInv
               PROVE  Cardinality(Completions) <= 1
    BY DEF OneCompletion
  <2>1. CASE Completions = {}
    BY <2>1, FS_EmptySet
  <2>2. ASSUME NEW k \in Completions
        PROVE  Cardinality(Completions) <= 1
    <3>1. ASSUME NEW j \in Completions
          PROVE  j = k
      <4>1. mcp[j].done = mcp[k].done /\ mcp[j].done.meta = mcp[j].env
            /\ mcp[k].done.meta = mcp[k].env
        BY <2>2, <3>1 DEF ManagedInv, CompletionBacked, OutputKey
      <4>2. mcp[j].env.key = j /\ mcp[k].env.key = k
        BY <2>2, <3>1 DEF ManagedInv, EnvelopesSound, Completions
      <4> QED
        BY <4>1, <4>2
    <3>2. Completions = {k}
      BY <2>2, <3>1
    <3>3. Cardinality({k}) = 1
      BY FS_Singleton, Zenon
    <3> QED
      BY <3>2, <3>3
  <2> QED
    BY <2>1, <2>2
<1> QED
  BY <1>1, ManagedInvariant, PTL

\* Every output was made from a policy and a specification that the vault has
\* held at the same time, although both are read one after the other
\* (_prepare_serialized, _revalidate_envelope).
THEOREM ManagedSourcesCoexisted == ManagedSpec => []SourcesCoexisted
<1>1. ManagedInv => SourcesCoexisted
  BY DEF ManagedInv
<1> QED
  BY <1>1, ManagedInvariant, PTL
=============================================================================
