---------------------------- MODULE ManagedSpecs ----------------------------
(***************************************************************************)
(* Managed specifications: prepare pins a runtime policy and an execution  *)
(* specification in a durable envelope; complete checks that both are      *)
(* still the pinned ones and has the output of the logical identity        *)
(* written by a verified upsert (VerifiedWrites).  Each call holds the     *)
(* maintenance lane; the owner of the vault and raw repairs do not.  All   *)
(* envelopes of this module name the same logical identity.                *)
(***************************************************************************)
EXTENDS VerifiedWrites

CONSTANTS Prepares, \* idempotency keys of callers
          Out,      \* the output key of the logical identity
          MaxRev    \* revisions of a source note

ASSUME ManagedSpecsAssumption ==
    /\ Prepares \cup {Out} \subseteq Keys
    /\ MaxRev \in Nat

VARIABLES rev,   \* revision of each source note; it only grows
          fresh, \* the source note has the row of its revision
          past,  \* the pairs of revisions the vault has held
          mcp,   \* checkpoint of each prepare key
          op     \* the managed call that holds the lane

mvars == <<rev, fresh, past, mcp, op>>

Sources == {"policy", "spec"}
Envelopes == [key : Prepares, policy : 0..MaxRev, spec : 0..MaxRev]

Pins == [env : Envelopes, done : Requests \cup {None}]

ASSUME EnvelopesAssumption ==
    Envelopes \subseteq Metas /\ Plain \notin Envelopes /\ None \notin Pins

NoOp == [pc |-> "idle", key |-> None, req |-> None, policy |-> None]

ManagedInit ==
    /\ Init
    /\ rev = [n \in Sources |-> 0]
    /\ fresh = [n \in Sources |-> TRUE]
    /\ past = {rev}
    /\ mcp = [k \in Prepares |-> None]
    /\ op = NoOp

Idle == op = NoOp /\ LaneFree
Return == op' = NoOp

\* _output_idempotency_key: from the logical identity, not the caller's key.
OutputKey(env) == Out

\* The envelope goes into the provenance of the output.
Output(env, text, expected) == [body |-> text, meta |-> env, expected |-> expected]

-----------------------------------------------------------------------------
(* Prepare and complete                                                    *)

PrepareBegin(k) ==
    /\ Idle
    /\ op' = [NoOp EXCEPT !.pc = "policy", !.key = k]
    /\ UNCHANGED <<vars, rev, fresh, past, mcp>>

\* Without a prepare, or with other data than those completed, it is refused.
CompleteBegin(k, text, expected) ==
    /\ Idle /\ mcp[k] # None
    /\ LET req == Output(mcp[k].env, text, expected)
       IN /\ mcp[k].done \in {None, req}
          /\ op' = [NoOp EXCEPT !.pc = "policy", !.key = k, !.req = req]
    /\ UNCHANGED <<vars, rev, fresh, past, mcp>>

\* _read_exact and _validate_note_ready: a row that is not that of the file is
\* not ready.
ReadPolicy ==
    /\ op.pc = "policy"
    /\ op' = IF fresh["policy"] THEN [op EXCEPT !.pc = "spec", !.policy = rev["policy"]]
                                ELSE NoOp
    /\ UNCHANGED <<vars, rev, fresh, past, mcp>>

\* What the call has read, the specification last.
ReadEnvelope == [key |-> op.key, policy |-> op.policy, spec |-> rev["spec"]]

\* The first prepare of a key saves the envelope; later ones compare it.
PrepareEnd ==
    /\ op.pc = "spec" /\ op.req = None
    /\ mcp' = IF fresh["spec"] /\ mcp[op.key] = None
              THEN [mcp EXCEPT ![op.key] = [env |-> ReadEnvelope, done |-> None]]
              ELSE mcp
    /\ Return
    /\ UNCHANGED <<vars, rev, fresh, past>>

\* A variant of Pinned that looks at the specification only.
PinnedSpecOnly(env) == env.spec = mcp[op.key].env.spec

Pinned(env) == env = mcp[op.key].env

\* _revalidate_envelope: SPEC_DRIFT ends the call.
Revalidate ==
    /\ op.pc = "spec" /\ op.req # None
    /\ op' = IF fresh["spec"] /\ Pinned(ReadEnvelope) THEN [op EXCEPT !.pc = "output"] ELSE NoOp
    /\ UNCHANGED <<vars, rev, fresh, past, mcp>>

\* A completed upsert is replayed while the note is still what it wrote.
Replayable(k) ==
    /\ cp[k].state = "COMPLETED" /\ Present(cp[k].path)
    /\ file[cp[k].path].id = cp[k].note /\ Hash(file[cp[k].path]) = cp[k].hash
    /\ Matches(cp[k].req, file[cp[k].path])

\* A variant of Admitted that does not compare the request hash.
AdmittedUnhashed(k, req) ==
    cp[k] # None => Resumable(k) \/ Recoverable(k) \/ Replayable(k)

\* What _upsert_serialized makes of the checkpoint of the output key.
Admitted(k, req) ==
    cp[k] # None => cp[k].req = req /\ (Resumable(k) \/ Recoverable(k) \/ Replayable(k))

\* The nested verified upsert: it starts, finds what it had written, replays
\* or is refused.
StartOutput ==
    /\ op.pc = "output"
    /\ LET k == OutputKey(mcp[op.key].env)
       IN \/ UpsertBegin(k, op.req) /\ op' = [op EXCEPT !.pc = "upsert"]
          \/ cp[k] # None /\ Admitted(k, op.req) /\ UpsertRecover(k)
             /\ op' = [op EXCEPT !.pc = "save"]
          \/ cp[k] # None /\ Admitted(k, op.req) /\ Replayable(k)
             /\ op' = [op EXCEPT !.pc = "save"] /\ UNCHANGED vars
          \/ ~Admitted(k, op.req) /\ Return /\ UNCHANGED vars
    /\ UNCHANGED <<rev, fresh, past, mcp>>

\* A variant of Verified that does not look at what the readback has found.
VerifiedUnread(found) ==
    cp'[run.key] # None /\ cp'[run.key].state \in {"COMPLETED", "UNKNOWN"}

\* _require_verified_output: the upsert answers that storage and readback are
\* verified not only when it completes.  It also does when its commit, or its
\* write by no OSError, has failed and the vault has what was asked for; its
\* checkpoint then says that the outcome is unknown.
Verified(found) ==
    /\ cp'[run.key] # None
    /\ \/ cp'[run.key].state = "COMPLETED"
       \/ cp'[run.key].state = "UNKNOWN" /\ found

\* The call waits for the upsert, and an answer that is an error, or is not
\* verified, ends it.
Await(found) ==
    op' = IF run' # NoRun THEN op
          ELSE IF Verified(found) THEN [op EXCEPT !.pc = "save"] ELSE NoOp

OutputStep ==
    /\ op.pc = "upsert"
    /\ \/ UpsertWorks /\ Await(FALSE)
       \/ \E readable \in BOOLEAN : UpsertFails(readable) /\ Await(FoundWritten(readable))
    /\ UNCHANGED <<rev, fresh, past, mcp>>

CompleteEnd ==
    /\ op.pc = "save"
    /\ mcp' = [mcp EXCEPT ![op.key].done = op.req]
    /\ Return
    /\ UNCHANGED <<vars, rev, fresh, past>>

-----------------------------------------------------------------------------
(* Environment                                                             *)

\* A raw repair rewrites the file and its row without a lease, the owner only
\* the file.
SourceChange(n, indexed) ==
    /\ rev[n] < MaxRev
    /\ rev' = [rev EXCEPT ![n] = @ + 1]
    /\ fresh' = [fresh EXCEPT ![n] = indexed]
    /\ past' = past \cup {rev'}
    /\ UNCHANGED <<vars, mcp, op>>

ReindexSources ==
    /\ Idle /\ \E n \in Sources : ~fresh[n]
    /\ index' = file
    /\ fresh' = [n \in Sources |-> TRUE]
    /\ UNCHANGED <<file, graph, cp, rcp, run, writes, related, owner, during, faults>>
    /\ UNCHANGED <<rev, past, mcp, op>>

\* The process dies, or a read fails.
OpDies ==
    /\ op # NoOp /\ Fault /\ End /\ Return
    /\ UNCHANGED <<file, index, graph, cp, rcp, writes, related, owner, during>>
    /\ UNCHANGED <<rev, fresh, past, mcp>>

\* Others write to the note of the identity, in the lane or outside it.
Others ==
    /\ \/ op = NoOp /\ (Reindex \/ \E p \in Paths, b \in Bodies : ApiWrite(p, b))
       \/ \E p \in Paths : ApiArchive(p) \/ OwnerDelete(p) \/ \E b \in Bodies : OwnerEdit(p, b)
    /\ UNCHANGED mvars

ManagedNext ==
    \/ \E k \in Prepares : PrepareBegin(k)
    \/ \E k \in Prepares, b \in Bodies, h \in Hashes \cup {None} : CompleteBegin(k, b, h)
    \/ ReadPolicy \/ PrepareEnd \/ Revalidate \/ StartOutput \/ OutputStep \/ CompleteEnd
    \/ \E n \in Sources, indexed \in BOOLEAN : SourceChange(n, indexed)
    \/ ReindexSources
    \/ OpDies
    \/ Others

ManagedSpec == ManagedInit /\ [][ManagedNext]_<<vars, mvars>>

-----------------------------------------------------------------------------
(* Properties                                                              *)

Completions == {k \in Prepares : mcp[k] # None /\ mcp[k].done # None}

\* However many prepares are made for a logical identity, from whichever
\* revisions, and whatever fails in between: at most one of them ever completes
\* (_output_idempotency_key with the request hash of the verified upsert).
OneCompletion == Cardinality(Completions) <= 1

\* The vault has held the two sources of an envelope at the same time.
Coexisted(env) == \E r \in past : r["policy"] = env.policy /\ r["spec"] = env.spec

\* Every output in the vault, and every completion, was made from a policy and
\* a specification that the vault has held at the same time, although both are
\* read one after the other outside any transaction, while others change them
\* (_prepare_serialized, _revalidate_envelope).
SourcesCoexisted ==
    \A env \in {file[p].meta : p \in {q \in Paths : Present(q)}}
               \cup {mcp[k].env : k \in Completions} :
       env # Plain => Coexisted(env)

\* A completed prepare is backed by the verified upsert of exactly its output,
\* which has written the note, and only once: although the two checkpoints are
\* saved one after the other, calls die in between, and an upsert whose commit
\* has failed is accepted, no completion is saved for an output of which only
\* the intent or the start is recorded, whose source write is in doubt, or which
\* was never written (_complete_serialized, _require_verified_output).
CompletionBacked ==
    \A k \in Completions :
       LET o == OutputKey(mcp[k].env)
       IN /\ cp[o] # None /\ cp[o].state \in {"COMPLETED", "UNKNOWN"}
          /\ cp[o].req = mcp[k].done /\ mcp[k].done.meta = mcp[k].env
          /\ writes[o] = 1

Ops == [pc : {"idle", "policy", "spec", "output", "upsert", "save"}, key : Prepares \cup {None},
        req : Requests \cup {None}, policy : 0..MaxRev \cup {None}]

\* The types of the variables of this module.
ManagedTypeOK ==
    /\ rev \in [Sources -> 0..MaxRev] /\ fresh \in [Sources -> BOOLEAN]
    /\ past \subseteq [Sources -> 0..MaxRev] /\ rev \in past
    /\ mcp \in [Prepares -> Pins \cup {None}]
    /\ op \in Ops

\* The inductive invariant of the proofs, in parts.  An envelope of sources that
\* never coexisted names a policy that has been replaced.
EnvelopesSound ==
    \A k \in Prepares : mcp[k] # None =>
       /\ mcp[k].env.key = k
       /\ Coexisted(mcp[k].env) \/ mcp[k].env.policy < rev["policy"]

\* What a managed call carries from one of its steps to the next.
OpShape ==
    /\ op.pc = "idle" => op = NoOp
    /\ op.pc # "idle" => op.key \in Prepares
    /\ op.pc = "spec" => op.policy \in 0..MaxRev /\ op.policy <= rev["policy"]
    /\ op.req # None =>
         /\ mcp[op.key] # None /\ op.req.meta = mcp[op.key].env
         /\ mcp[op.key].done \in {None, op.req}
    /\ op.pc = "spec" /\ op.req # None /\ op.policy = mcp[op.key].env.policy
         => Coexisted(mcp[op.key].env)
    /\ op.pc \in {"output", "upsert", "save"} => op.req # None /\ Coexisted(mcp[op.key].env)

\* The verified upsert in the lane is that of the call, under the output key, and
\* what it answers for is recorded.
UpsertNested ==
    /\ run.pc # "idle" =>
         /\ op.pc = "upsert" /\ run.pc \in UpsertPcs /\ run.key = Out /\ run.req = op.req
         /\ cp[Out] # None => cp[Out].state \in {"INTENT", "STARTED"}
    /\ op.pc \in {"upsert", "save"} /\ cp[Out] # None => cp[Out].req = op.req
    /\ op.pc = "save" => cp[Out] # None /\ cp[Out].state \in {"COMPLETED", "UNKNOWN"}
    /\ run.pc = "write" => run.new.meta = run.req.meta

\* A note names an envelope only after the output key has written.
OutputWritten ==
    /\ op.pc = "save" => writes[Out] = 1
    /\ run.pc \in {"commit", "readback"} => writes[Out] = 1
    /\ writes[Out] # 1 =>
         \A p \in Paths :
           /\ file[p] # None => file[p].meta = Plain
           /\ index[p] # None => index[p].meta = Plain

ManagedInv ==
    /\ VerifiedInv /\ ManagedTypeOK /\ EnvelopesSound /\ OpShape /\ UpsertNested /\ OutputWritten
    /\ CompletionBacked /\ SourcesCoexisted

\* As long as the output's upsert has recorded no more than its intent, and there
\* is no note, one of the envelopes of the current sources can be completed, if
\* there is one: SPEC_DRIFT tells the caller to discard the stale prepare and to
\* prepare again.
ReprepareCompletes ==
    LET current == {k \in Prepares : /\ mcp[k] # None
                                     /\ mcp[k].env.policy = rev["policy"]
                                     /\ mcp[k].env.spec = rev["spec"]}
    IN /\ Idle /\ cp[Out] # None /\ cp[Out].state = "INTENT" /\ ~Present(Canonical)
       /\ current # {}
       => \E k \in current, b \in Bodies, h \in Hashes \cup {None} :
             Admitted(Out, Output(mcp[k].env, b, h))

=============================================================================
