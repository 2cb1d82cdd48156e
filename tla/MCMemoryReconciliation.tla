----------------------- MODULE MCMemoryReconciliation -----------------------
(* Instances of MemoryReconciliation for TLC.                              *)
EXTENDS MemoryReconciliation, TLC

CONSTANTS p1, p2, x, y, n1, n2

D(rel, c, confidence) == [relation |-> rel, context |-> c, confidence |-> confidence]

\* Two plans with candidates of their own.
OwnCandidates == (p1 :> n1) @@ (p2 :> n2)

\* One plan about an existing Context, as the scan makes it.
ScannedCandidate == (p1 :> n1) @@ (p2 :> y)

\* Two plans of one existing Context, whose content has changed in between.
SameCandidate == (p1 :> y) @@ (p2 :> y)

OwnOrScanned == {OwnCandidates, ScannedCandidate}
OnlyOwn == {OwnCandidates}
OnlyScanned == {ScannedCandidate}
OnlySame == {SameCandidate}

\* Every relation to one Context, and nothing recalled.
OneEach == {<<D(rel, x, 1)>> : rel \in Relations} \cup {<<>>}

\* One for each set of effects: evidence with and without a relation, conflict,
\* supersession, plain creation.
EachEffect ==
    {<<D(rel, x, 1)>> : rel \in {"DUPLICATE", "SUPPORTS", "CONTRADICTS", "SUPERSEDES"}}
    \cup {<<>>}

\* Two recalled Contexts, the second with more confidence.
TwoRecalled == {<<D("SUPERSEDES", x, 1), D("SUPERSEDES", y, 2)>>}

Contradictions == {<<D("CONTRADICTS", x, 1)>>}
Supersessions == {<<D("SUPERSEDES", x, 1)>>, <<D("CONTRADICTS", x, 1)>>,
                  <<D("SUPPORTS", x, 1)>>}

\* The second plan may also be about what the first has created or looked at.
Chains ==
    {<<D(rel, c, 1)>> : rel \in {"SUPPORTS", "CONTRADICTS", "SUPERSEDES"}, c \in {x, y, n1}}

Symmetry == Permutations(Requests \ Late)
=============================================================================
