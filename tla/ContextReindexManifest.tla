----------------------- MODULE ContextReindexManifest -----------------------
(***************************************************************************)
(* The cross-note validation a vault reindex runs over the Markdown it     *)
(* found: which notes may enter the index.  The four loops of              *)
(* validate_context_reindex_manifest are four phases here, one iteration a *)
(* step; a Rust HashMap is iterated in no particular order, so the order   *)
(* in which propagate_invalid_targets takes ids off its queue is a choice. *)
(***************************************************************************)
EXTENDS ManifestRules, Sequences

CONSTANTS Ids,        \* note ids a document may declare or refer to
          NoId,       \* an absent supersede reference
          Manifests   \* the candidate lists to validate

Candidates == [id : Ids, path : Nat, context : BOOLEAN, identity : Nat,
               supersedes : Ids \cup {NoId}, supersededBy : Ids \cup {NoId}]

ASSUME ManifestsAssumption ==
    /\ NoId \notin Ids
    /\ \A m \in Manifests : m \in Seq(Candidates)

VARIABLES candidates,   \* the list being validated
          phase,        \* which loop runs
          at,           \* the candidate that loop has reached
          noteIds,      \* note_paths_by_id: ids seen so far
          identities,   \* context_paths_by_signature: identities seen so far
          valid,        \* valid_indices
          replacements, \* replacements_by_target: targets already claimed
          invalid,      \* the keys of invalid_reasons
          trail,        \* the walk of cyclic_supersede_ids
          completed,    \* completed_ids
          queue         \* the ids propagate_invalid_targets has yet to take

vars == <<candidates, phase, at, noteIds, identities, valid, replacements,
          invalid, trail, completed, queue>>

Positions == 1..Len(candidates)

Here == candidates[at]

TypeOK ==
    /\ candidates \in Seq(Candidates)
    /\ phase \in {"scan", "supersede", "cycle", "propagate", "done"}
    /\ at \in Positions \/ (candidates = <<>> /\ at = 1)
    /\ noteIds \subseteq Ids /\ invalid \subseteq Ids
    /\ completed \subseteq Ids /\ queue \subseteq Ids /\ replacements \subseteq Ids
    /\ identities \subseteq Nat
    /\ valid \subseteq Positions
    /\ trail \in Seq(Ids)

Init ==
    /\ candidates \in Manifests
    /\ phase = "scan" /\ at = 1
    /\ noteIds = {} /\ identities = {} /\ valid = {}
    /\ replacements = {} /\ invalid = {}
    /\ trail = <<>> /\ completed = {} /\ queue = {}

-----------------------------------------------------------------------------
(* Helpers of the loops.                                                   *)

\* A variant of Advance with the bound off by one.
AdvancePast(next) ==
    IF at <= Len(candidates)
    THEN at' = at + 1 /\ UNCHANGED phase
    ELSE at' = 1 /\ phase' = next

\* colliding_canonical_paths
Colliding(p) == Cardinality({i \in Positions : candidates[i].path = p}) > 1

\* context_indices_by_id: the Contexts the scan kept, by id
IsValidContext(id) == \E i \in valid : candidates[i].context /\ candidates[i].id = id

ValidContext(id) ==
    candidates[CHOOSE i \in valid : candidates[i].context /\ candidates[i].id = id]

\* The next iteration of the loop, or the first of the loop after it.
Advance(next) ==
    IF at < Len(candidates)
    THEN at' = at + 1 /\ UNCHANGED phase
    ELSE at' = 1 /\ phase' = next

-----------------------------------------------------------------------------
(* Variants of ForwardHolds with one slip each.                            *)

\* The second claim of a target is not noticed.
ForwardHoldsUnclaimed ==
    /\ IsValidContext(Here.supersedes)
    /\ ValidContext(Here.supersedes).supersededBy \in {NoId, Here.id}

\* A target that already names its own replacement counts as a conflict.
ForwardHoldsUnlinked ==
    /\ IsValidContext(Here.supersedes)
    /\ Here.supersedes \notin replacements
    /\ ValidContext(Here.supersedes).supersededBy = NoId

-----------------------------------------------------------------------------
(* validate_context_reindex_manifest: paths, ids and identities            *)

Scan ==
    /\ phase = "scan" /\ at \in Positions
    /\ IF Colliding(Here.path)
       THEN UNCHANGED <<noteIds, identities, valid>>
       ELSE IF Here.id \in noteIds
       THEN UNCHANGED <<noteIds, identities, valid>>
       ELSE /\ noteIds' = noteIds \cup {Here.id}
            /\ IF Here.context /\ Here.identity \in identities
               THEN UNCHANGED <<identities, valid>>
               ELSE /\ identities' = IF Here.context
                                     THEN identities \cup {Here.identity}
                                     ELSE identities
                    /\ valid' = valid \cup {at}
    /\ Advance("supersede")
    /\ UNCHANGED <<candidates, replacements, invalid, trail, completed, queue>>

(* invalid_supersede_reasons: the loop over the supersede references       *)

\* The forward reference names a valid Context that nobody has claimed and
\* whose own backlink does not name someone else.
ForwardHolds ==
    /\ IsValidContext(Here.supersedes)
    /\ Here.supersedes \notin replacements
    /\ ValidContext(Here.supersedes).supersededBy \in {NoId, Here.id}

\* The backlink names a valid Context that supersedes this one.
BacklinkHolds ==
    /\ IsValidContext(Here.supersededBy)
    /\ ValidContext(Here.supersededBy).supersedes = Here.id

CheckSupersede ==
    /\ phase = "supersede" /\ at \in Positions
    /\ IF at \notin valid \/ ~Here.context
       THEN UNCHANGED <<replacements, invalid>>
       ELSE IF Here.supersedes # NoId /\ ~ForwardHolds
       THEN invalid' = invalid \cup {Here.id} /\ UNCHANGED replacements
       ELSE /\ replacements' = IF Here.supersedes = NoId THEN replacements
                               ELSE replacements \cup {Here.supersedes}
            /\ invalid' = IF Here.supersededBy # NoId /\ ~BacklinkHolds
                          THEN invalid \cup {Here.id} ELSE invalid
    /\ Advance("cycle")
    /\ UNCHANGED <<candidates, noteIds, identities, valid, trail, completed, queue>>

(* cyclic_supersede_ids: walk the supersedes references from every Context *)

\* The id the walk stands on: the candidate itself, then the reference of the
\* last id of the trail.
Current == IF trail = <<>> THEN Here.id ELSE ValidContext(trail[Len(trail)]).supersedes

OnTrail(id) == \E k \in 1..Len(trail) : trail[k] = id

Visited == {trail[k] : k \in 1..Len(trail)}

WalkStarts == at \in valid /\ Here.context /\ (trail = <<>> => Here.id \notin completed)

WalkOn ==
    /\ phase = "cycle" /\ at \in Positions
    /\ WalkStarts
    /\ IsValidContext(Current) /\ ~OnTrail(Current) /\ Current \notin completed
    /\ trail' = Append(trail, Current)
    /\ UNCHANGED <<candidates, phase, at, noteIds, identities, valid, replacements,
                   invalid, completed, queue>>

\* The walk ends at an id that is absent, on its own trail or already walked;
\* the part of the trail from a repeated id on is a cycle.  When the loop is
\* over the queue is filled with every invalid id.
WalkEnds ==
    /\ phase = "cycle" /\ at \in Positions
    /\ ~(WalkStarts /\ IsValidContext(Current) /\ ~OnTrail(Current)
                    /\ Current \notin completed)
    /\ LET cycle == IF WalkStarts /\ OnTrail(Current)
                    THEN {trail[k] : k \in {k \in 1..Len(trail) :
                             \E j \in 1..k : trail[j] = Current}}
                    ELSE {}
       IN /\ invalid' = invalid \cup cycle
          /\ queue' = IF at = Len(candidates) THEN invalid \cup cycle ELSE queue
    /\ completed' = completed \cup Visited
    /\ trail' = <<>>
    /\ Advance("propagate")
    /\ UNCHANGED <<candidates, noteIds, identities, valid, replacements>>

(* propagate_invalid_targets: whoever supersedes an invalid Context is     *)
(* invalid too                                                             *)

Predecessors(id) ==
    {candidates[i].id : i \in {i \in valid : /\ candidates[i].context
                                             /\ candidates[i].supersedes = id
                                             /\ IsValidContext(id)}}

\* A variant of Propagate that queues a predecessor already known as invalid.
PropagateAgain ==
    /\ phase = "propagate"
    /\ \E id \in queue :
           /\ invalid' = invalid \cup Predecessors(id)
           /\ queue' = (queue \ {id}) \cup Predecessors(id)
    /\ UNCHANGED <<candidates, phase, at, noteIds, identities, valid, replacements,
                   trail, completed>>

Propagate ==
    /\ phase = "propagate"
    /\ \E id \in queue :
         LET new == Predecessors(id) \ invalid IN
           /\ invalid' = invalid \cup new
           /\ queue' = (queue \ {id}) \cup new
    /\ UNCHANGED <<candidates, phase, at, noteIds, identities, valid, replacements,
                   trail, completed>>

Finish ==
    /\ \/ phase = "propagate" /\ queue = {}
       \/ phase = "scan" /\ candidates = <<>>
    /\ phase' = "done"
    /\ UNCHANGED <<candidates, at, noteIds, identities, valid, replacements,
                   invalid, trail, completed, queue>>

Next == Scan \/ CheckSupersede \/ WalkOn \/ WalkEnds \/ Propagate \/ Finish

Done == phase = "done" /\ UNCHANGED vars

Spec == Init /\ [][Next \/ Done]_vars

\* The validation is one call that runs to its end.
FairSpec == Spec /\ WF_vars(Next)

\* accepted_indices
Accepted == {i \in valid : candidates[i].id \notin invalid}

-----------------------------------------------------------------------------
(* Properties.                                                             *)

Named(id) == {j \in Positions : candidates[j].id = id /\ candidates[j].context}

\* No note enters the index with a supersede history the index cannot honour:
\* accepted notes have an id and a path of their own, accepted Contexts an
\* identity of their own; what an accepted Context supersedes is accepted, does
\* not name another replacement and is superseded by no other accepted one; and
\* no chain of accepted Contexts runs in a circle
\* (validate_context_reindex_manifest with its three helper loops).
AcceptedSound ==
    phase = "done" =>
        /\ \A i, j \in Accepted :
              i # j => /\ candidates[i].id # candidates[j].id
                       /\ candidates[i].path # candidates[j].path
                       /\ ~(/\ candidates[i].context /\ candidates[j].context
                            /\ \/ candidates[i].identity = candidates[j].identity
                               \/ /\ candidates[i].supersedes # NoId
                                  /\ candidates[i].supersedes = candidates[j].supersedes)
        /\ \A i \in Accepted : candidates[i].context /\ candidates[i].supersedes # NoId =>
              \E j \in Accepted \cap Named(candidates[i].supersedes) :
                  candidates[j].supersededBy \in {NoId, candidates[i].id}
        /\ \A S \in (SUBSET {i \in Accepted : candidates[i].context}) \ {{}} :
              \E i \in S : \A j \in S : candidates[j].id # candidates[i].supersedes

\* The loops compute the rules of ManifestRules: nobody is rejected without a
\* reason of his own or of a Context he supersedes, and neither the shortcuts of
\* the walk (completed_ids) nor the order in which propagate_invalid_targets
\* empties its queue changes the outcome.
LoopsComputeRules ==
    phase = "done" => Accepted = AcceptedNotes(candidates, NoId)

\* The validation comes to an end on every list, circles included: each walk of
\* cyclic_supersede_ids stops at an id it has already met.
Terminates == <>(phase = "done")

-----------------------------------------------------------------------------
(* The inductive invariant of the proofs, in parts.                        *)

\* The positions a loop is through with: all of them once it is over.
Through(loop, later) ==
    CASE phase = loop    -> 1 .. at - 1
      [] phase \in later -> Positions
      [] OTHER           -> {}

Scanned == Through("scan", {"supersede", "cycle", "propagate", "done"})
Checked == Through("supersede", {"cycle", "propagate", "done"})
Walked == Through("cycle", {"propagate", "done"})

IdsOf(S) == {candidates[i].id : i \in S}

\* The scan has kept, of what it has seen, the notes that are valid.
ScanInv ==
    /\ noteIds = IdsOf({i \in Scanned : OwnPath(candidates, i)})
    /\ identities = {candidates[i].identity : i \in {i \in Scanned :
                       /\ OwnPath(candidates, i) /\ FirstId(candidates, i)
                       /\ candidates[i].context}}
    /\ valid = ValidNotes(candidates) \cap Scanned

\* The targets claimed are those of the claims that fit, the Contexts found
\* invalid so far those whose links are broken.
LinksInv ==
    /\ replacements = {candidates[i].supersedes : i \in {i \in Contexts(candidates) \cap Checked :
                         ClaimFits(candidates, NoId, i)}}
    /\ \A i \in Contexts(candidates) \cap Checked :
         LinksBroken(candidates, NoId, i) => candidates[i].id \in invalid
    /\ invalid \subseteq IdsOf(Rejected(candidates, NoId))

\* The walk follows the references from the Context at hand.
TrailInv ==
    /\ trail # <<>> => /\ phase = "cycle" /\ at \in valid /\ Here.context /\ trail[1] = Here.id
    /\ \A k \in 1 .. Len(trail) : IsValidContext(trail[k])
    /\ \A k \in 1 .. Len(trail) - 1 : ValidContext(trail[k]).supersedes = trail[k + 1]

\* Every walk has been followed to its end, and whoever is left has no circle.
WalksInv ==
    /\ \A i \in Contexts(candidates) \cap Walked : candidates[i].id \in completed
    /\ phase \in {"scan", "supersede"} => completed = {}
    /\ \A id \in completed : /\ IsValidContext(id)
                             /\ IsValidContext(ValidContext(id).supersedes) =>
                                  ValidContext(id).supersedes \in completed
    /\ \A S \in SUBSET (completed \ invalid) :
         S # {} => \E id \in S : ValidContext(id).supersedes \notin S

\* Whoever supersedes an invalid Context is invalid or will be.
QueueInv ==
    /\ queue \subseteq invalid
    /\ phase \in {"propagate", "done"} =>
         \A id \in invalid \ queue : Predecessors(id) \subseteq invalid
    /\ phase = "done" => queue = {}

ManifestInv == TypeOK /\ ScanInv /\ LinksInv /\ TrailInv /\ WalksInv /\ QueueInv
=============================================================================
