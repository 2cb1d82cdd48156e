---------------------- MODULE MCContextReindexManifest ----------------------
(* Instances of ContextReindexManifest for TLC.                            *)
EXTENDS ContextReindexManifest

CONSTANT MaxNotes    \* length of the longest list

Links == Ids \cup {NoId}

\* Well-formed notes 1..n with every combination of references between them;
\* an id above n is a note that is not in the vault.
LinkedNotes(n) ==
    {[i \in 1..n |-> [id |-> i, path |-> i, context |-> TRUE, identity |-> i,
                      supersedes |-> of[i], supersededBy |-> by[i]]] :
       of \in [1..n -> Links], by \in [1..n -> Links]}

\* Notes without references that may share paths, ids and identities.
ClashingNotes(n) ==
    [1..n -> [id : 1..2, path : 1..2, context : BOOLEAN, identity : 1..2,
              supersedes : {NoId}, supersededBy : {NoId}]]

\* Every web of references, and every clash.
MCManifests == UNION {LinkedNotes(n) \cup ClashingNotes(n) : n \in 0..MaxNotes}

=============================================================================
