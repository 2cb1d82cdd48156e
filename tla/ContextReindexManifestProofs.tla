-------------------- MODULE ContextReindexManifestProofs --------------------
(***************************************************************************)
(* The loops of validate_context_reindex_manifest compute the rules of     *)
(* ManifestRules, and so accept only sound histories, for lists of any     *)
(* length.                                                                 *)
(***************************************************************************)
EXTENDS ContextReindexManifest, FiniteSetTheorems, TLAPS

-----------------------------------------------------------------------------
(* Numbers                                                                 *)

LEMMA LeastNumber ==
    ASSUME NEW T \in SUBSET Nat, T # {}
    PROVE  \E x \in T : \A y \in T : x <= y
<1>1. PICK x \in T : \A y \in T : ~(<<y, x>> \in OpToRel(<, Nat))
  BY NatLessThanWellFounded, WFMin, Zenon
<1>2. \A y \in T : ~(y < x)
  BY <1>1 DEF OpToRel
<1> QED
  BY <1>2

LEMMA GreatestNumber ==
    ASSUME NEW n \in Nat, NEW T \in SUBSET (1 .. n), T # {}
    PROVE  \E x \in T : \A y \in T : y <= x
<1> DEFINE U == {n - x : x \in T}
<1>1. \A x \in T : x \in Int /\ 1 <= x /\ x <= n
  OBVIOUS
<1>2. U \in SUBSET Nat
  <2>1. \A x \in T : n - x \in Nat
    BY <1>1
  <2> QED
    BY <2>1, Zenon
<1>3. U # {}
  OBVIOUS
<1>4. PICK u \in U : \A v \in U : u <= v
  BY <1>2, <1>3, LeastNumber
<1>5. PICK x \in T : u = n - x
  OBVIOUS
<1>6. \A y \in T : n - x <= n - y
  BY <1>4, <1>5
<1> QED
  BY <1>1, <1>6

-----------------------------------------------------------------------------
(* The rules                                                               *)

LEMMA ListFacts ==
    ASSUME TypeOK
    PROVE  /\ DOMAIN candidates = Positions /\ Len(candidates) \in Nat
           /\ Positions \in SUBSET Nat
           /\ \A i \in Positions : /\ candidates[i] \in Candidates /\ candidates[i].id \in Ids
                                   /\ candidates[i].identity \in Nat
                                   /\ candidates[i].supersedes \in Ids \cup {NoId}
           /\ ValidNotes(candidates) \subseteq Positions
           /\ Contexts(candidates) \subseteq ValidNotes(candidates)
<1>1. /\ DOMAIN candidates = Positions /\ Len(candidates) \in Nat /\ Positions \in SUBSET Nat
      /\ \A i \in Positions : candidates[i] \in Candidates
  BY DEF TypeOK, Positions
<1>2. \A x \in Candidates : /\ x.id \in Ids /\ x.identity \in Nat
                            /\ x.supersedes \in Ids \cup {NoId}
  BY DEF Candidates
<1> QED
  BY <1>1, <1>2 DEF ValidNotes, Contexts

\* colliding_canonical_paths: a path is counted more than once.
LEMMA CollidingIff ==
    ASSUME TypeOK, NEW i \in Positions
    PROVE  Colliding(candidates[i].path) <=> ~OwnPath(candidates, i)
<1> DEFINE P == {j \in Positions : candidates[j].path = candidates[i].path}
<1>1. DOMAIN candidates = Positions /\ Len(candidates) \in Nat
  BY ListFacts
<1>2. IsFiniteSet(P) /\ Cardinality(P) \in Nat
  <2>1. IsFiniteSet(Positions)
    BY <1>1, FS_Interval DEF Positions
  <2> QED
    BY <2>1, FS_Subset, FS_CardinalityType
<1>0. Colliding(candidates[i].path) <=> Cardinality(P) > 1
  BY DEF Colliding
<1> HIDE DEF P
<1>3. CASE OwnPath(candidates, i)
  <2>1. P = {i}
    BY <1>1, <1>3 DEF OwnPath, P
  <2>2. Cardinality(P) = 1
    BY <2>1, FS_Singleton
  <2> QED
    BY <1>0, <1>3, <2>2
<1>4. CASE ~OwnPath(candidates, i)
  <2>1. PICK j \in P : j # i
    BY <1>1, <1>4 DEF OwnPath, P
  <2>2. IsFiniteSet({i}) /\ Cardinality({i}) = 1
    BY FS_Singleton
  <2>3. Cardinality({i} \cup {j}) = 2
    BY <2>1, <2>2, FS_AddElement
  <2>4. ({i} \cup {j}) \in SUBSET P
    BY DEF P
  <2>5. 2 <= Cardinality(P)
    BY <1>2, <2>3, <2>4, FS_Subset
  <2> QED
    BY <1>0, <1>2, <1>4, <2>5
<1> QED
  BY <1>3, <1>4

LEMMA UniqueId ==
    ASSUME TypeOK, NEW i \in ValidNotes(candidates), NEW j \in ValidNotes(candidates),
           candidates[i].id = candidates[j].id
    PROVE  i = j
<1>1. i \in Nat /\ j \in Nat /\ i \in DOMAIN candidates /\ j \in DOMAIN candidates
  BY ListFacts
<1>2. ~(i < j) /\ ~(j < i)
  BY <1>1 DEF ValidNotes, FirstId
<1> QED
  BY <1>1, <1>2

\* The Context with an id, as the helper loops look it up.
LEMMA ValidContextIs ==
    ASSUME TypeOK, valid \subseteq ValidNotes(candidates),
           NEW i \in valid, candidates[i].context
    PROVE  IsValidContext(candidates[i].id) /\ ValidContext(candidates[i].id) = candidates[i]
<1>1. IsValidContext(candidates[i].id)
  BY DEF IsValidContext
<1>2. \A j \in valid : candidates[j].id = candidates[i].id => j = i
  BY UniqueId
<1> QED
  BY <1>1, <1>2 DEF ValidContext

LEMMA LookupContext ==
    ASSUME TypeOK, valid \subseteq ValidNotes(candidates), NEW id, IsValidContext(id)
    PROVE  \E i \in valid : /\ candidates[i].context /\ candidates[i].id = id
                            /\ ValidContext(id) = candidates[i] /\ id \in Ids
                            /\ candidates[i].supersedes \in Ids \cup {NoId}
<1>1. PICK i \in valid : candidates[i].context /\ candidates[i].id = id
  BY DEF IsValidContext
<1>2. ValidContext(id) = candidates[i]
  BY <1>1, ValidContextIs
<1>3. id \in Ids /\ candidates[i].supersedes \in Ids \cup {NoId}
  BY <1>1, ListFacts
<1> QED
  BY <1>1, <1>2, <1>3

\* The rejected are a set of Contexts that holds the broken and the circles and
\* everyone who supersedes a member, and the least such set.
LEMMA RejectedFacts ==
    /\ Rejected(candidates, NoId) \subseteq Contexts(candidates)
    /\ \A i \in Contexts(candidates) :
         LinksBroken(candidates, NoId, i) => i \in Rejected(candidates, NoId)
    /\ \A S \in SUBSET Contexts(candidates) :
         Circular(candidates, S) => S \subseteq Rejected(candidates, NoId)
    /\ \A i \in Contexts(candidates) :
         Target(candidates, i) \cap Rejected(candidates, NoId) # {} =>
           i \in Rejected(candidates, NoId)
BY DEF Rejected

LEMMA RejectedLeast ==
    ASSUME NEW S \in SUBSET Contexts(candidates),
           \A i \in Contexts(candidates) : LinksBroken(candidates, NoId, i) => i \in S,
           \A C \in SUBSET Contexts(candidates) : Circular(candidates, C) => C \subseteq S,
           \A i \in Contexts(candidates) : Target(candidates, i) \cap S # {} => i \in S
    PROVE  Rejected(candidates, NoId) \subseteq S
BY DEF Rejected

-----------------------------------------------------------------------------
(* The positions a loop is through with                                    *)

LEMMA PhaseFacts ==
    /\ phase = "scan" => Scanned = 1 .. at - 1 /\ Checked = {} /\ Walked = {}
    /\ phase = "supersede" => Scanned = Positions /\ Checked = 1 .. at - 1 /\ Walked = {}
    /\ phase = "cycle" => Scanned = Positions /\ Checked = Positions /\ Walked = 1 .. at - 1
    /\ phase \in {"propagate", "done"} =>
         Scanned = Positions /\ Checked = Positions /\ Walked = Positions
BY DEF Scanned, Checked, Walked, Through

LEMMA PhaseFactsNext ==
    /\ phase' = "scan" => Scanned' = 1 .. at' - 1 /\ Checked' = {} /\ Walked' = {}
    /\ phase' = "supersede" => Scanned' = Positions' /\ Checked' = 1 .. at' - 1 /\ Walked' = {}
    /\ phase' = "cycle" => Scanned' = Positions' /\ Checked' = Positions' /\ Walked' = 1 .. at' - 1
    /\ phase' \in {"propagate", "done"} =>
         Scanned' = Positions' /\ Checked' = Positions' /\ Walked' = Positions'
BY DEF Scanned, Checked, Walked, Through

LEMMA AdvanceFacts ==
    ASSUME TypeOK, at \in Positions, NEW next, Advance(next), UNCHANGED candidates
    PROVE  /\ Positions' = Positions /\ at' \in Positions
           /\ \/ phase' = phase /\ 1 .. at' - 1 = (1 .. at - 1) \cup {at} /\ at < Len(candidates)
              \/ /\ phase' = next /\ at' = 1 /\ at = Len(candidates)
                 /\ Positions = (1 .. at - 1) \cup {at} /\ 1 .. at' - 1 = {}
<1>1. Positions = 1 .. Len(candidates) /\ Len(candidates) \in Nat /\ Positions' = Positions
  BY ListFacts DEF Positions
<1>2. CASE at < Len(candidates)
  BY <1>1, <1>2 DEF Advance
<1>3. CASE ~(at < Len(candidates))
  <2>1. at = Len(candidates) /\ at \in Nat /\ 1 <= at
    BY <1>1, <1>3
  <2>2. phase' = next /\ at' = 1
    BY <1>3 DEF Advance
  <2> QED
    BY <1>1, <2>1, <2>2
<1> QED
  BY <1>2, <1>3

\* Before the walks nothing is known of them.
LEMMA NoWalksYet ==
    ASSUME ManifestInv, phase \in {"scan", "supersede"}, UNCHANGED <<candidates, trail, completed>>,
           phase' \in {"scan", "supersede", "cycle"}, Walked' = {}
    PROVE  TrailInv' /\ WalksInv'
<1>1. trail = <<>> /\ completed = {}
  BY DEF ManifestInv, TrailInv, WalksInv
<1>2. Len(trail) = 0
  BY <1>1
<1>3. TrailInv'
  BY <1>1, <1>2 DEF TrailInv
<1>4. WalksInv'
  BY <1>1 DEF WalksInv
<1> QED
  BY <1>3, <1>4

-----------------------------------------------------------------------------
(* The scan                                                                *)

LEMMA ScanStep ==
    ASSUME ManifestInv, Scan
    PROVE  ManifestInv'
<1> USE DEF ManifestInv
<1> DEFINE own(i) == OwnPath(candidates, i)
           first(i) == FirstId(candidates, i)
<1>1. /\ phase = "scan" /\ at \in Positions /\ Advance("supersede")
      /\ UNCHANGED <<candidates, replacements, invalid, trail, completed, queue>>
  BY DEF Scan
<1>2. /\ DOMAIN candidates = Positions /\ Positions \in SUBSET Nat
      /\ Positions = 1 .. Len(candidates) /\ Len(candidates) \in Nat
      /\ Here.id \in Ids /\ Here.identity \in Nat
  BY <1>1, ListFacts DEF Here, Positions
<1>a. /\ Positions' = Positions /\ at' \in Positions
      /\ \/ phase' = phase /\ 1 .. at' - 1 = (1 .. at - 1) \cup {at}
         \/ /\ phase' = "supersede" /\ Positions = (1 .. at - 1) \cup {at}
            /\ 1 .. at' - 1 = {}
  BY <1>1, AdvanceFacts
<1>b. Scanned = 1 .. at - 1 /\ Checked = {} /\ at \notin 1 .. at - 1
  BY <1>1, <1>2, PhaseFacts
<1>3. /\ Positions' = Positions /\ at' \in Positions /\ phase' \in {"scan", "supersede"}
      /\ Scanned' = Scanned \cup {at} /\ Checked' = {} /\ Walked' = {}
  BY <1>1, <1>a, <1>b, PhaseFactsNext
<1>4. Colliding(Here.path) <=> ~own(at)
  BY <1>1, CollidingIff DEF Here
<1>5. \A j \in Positions : j < at <=> j \in Scanned
  BY <1>1, <1>2, <1>b
<1>c. Scanned \subseteq Positions
  BY <1>1, <1>2, <1>b
<1>d. /\ \A x : x \in noteIds <=> \E j \in Scanned : own(j) /\ candidates[j].id = x
      /\ \A x : x \in identities <=>
                \E j \in Scanned : own(j) /\ first(j) /\ candidates[j].context
                                  /\ candidates[j].identity = x
  BY DEF ScanInv, IdsOf
<1> HIDE DEF own, first
<1>6. own(at) => (first(at) <=> Here.id \notin noteIds)
  <2>1. first(at) <=> \A j \in Positions : j < at /\ own(j) => candidates[j].id # Here.id
    BY <1>2 DEF FirstId, Here, own, first
  <2> QED
    BY <2>1, <1>5, <1>c, <1>d
<1>7. own(at) /\ first(at) =>
        (FirstContent(candidates, at) <=> ~(Here.context /\ Here.identity \in identities))
  <2>1. FirstContent(candidates, at) <=>
          \A j \in Positions : /\ j < at /\ own(j) /\ first(j)
                               /\ Here.context /\ candidates[j].context
                               => candidates[j].identity # Here.identity
    BY <1>2 DEF FirstContent, Here, own, first
  <2> QED
    BY <2>1, <1>5, <1>c, <1>d
<1>8. at \in ValidNotes(candidates) <=> own(at) /\ first(at) /\ FirstContent(candidates, at)
  BY <1>1, <1>2 DEF ValidNotes, own, first
<1> DEFINE Kept ==
      /\ \A x : x \in noteIds' <=> x \in noteIds \/ (own(at) /\ x = Here.id)
      /\ \A x : x \in identities' <=>
           x \in identities \/ (own(at) /\ first(at) /\ Here.context /\ x = Here.identity)
      /\ \A i : i \in valid' <=> i \in valid \/ (i = at /\ at \in ValidNotes(candidates))
<1>9. Kept
  <2>1. CASE ~own(at) \/ ~first(at)
    <3>1. UNCHANGED <<noteIds, identities, valid>>
      BY <1>4, <1>6, <2>1 DEF Scan
    <3> QED
      BY <1>6, <1>8, <2>1, <3>1
  <2>2. CASE own(at) /\ first(at)
    <3>1. /\ noteIds' = noteIds \cup {Here.id}
          /\ \/ Here.context /\ Here.identity \in identities /\ UNCHANGED <<identities, valid>>
             \/ /\ ~(Here.context /\ Here.identity \in identities)
                /\ identities' = IF Here.context THEN identities \cup {Here.identity}
                                 ELSE identities
                /\ valid' = valid \cup {at}
      BY <1>4, <1>6, <2>2 DEF Scan
    <3> QED
      BY <1>7, <1>8, <2>2, <3>1
  <2> QED
    BY <2>1, <2>2
<1>10. ScanInv'
  <2>1. /\ \A x : x \in noteIds' <=> \E j \in Scanned' : own(j) /\ candidates[j].id = x
        /\ \A x : x \in identities' <=>
                  \E j \in Scanned' : own(j) /\ first(j) /\ candidates[j].context
                                     /\ candidates[j].identity = x
    BY <1>3, <1>9, <1>d DEF Here
  <2>2. \A i : i \in valid' <=> i \in ValidNotes(candidates) /\ i \in Scanned'
    BY <1>3, <1>9 DEF ScanInv
  <2>3. noteIds' = {candidates[i].id : i \in {i \in Scanned' : own(i)}}
    BY <2>1
  <2>4. identities' = {candidates[i].identity : i \in {i \in Scanned' :
                          own(i) /\ first(i) /\ candidates[i].context}}
    BY <2>1
  <2> QED
    BY <1>1, <2>2, <2>3, <2>4 DEF ScanInv, IdsOf, own, first
<1>11. TypeOK'
  <2>1. noteIds' \subseteq Ids /\ identities' \subseteq Nat /\ valid' \subseteq Positions
    BY <1>1, <1>2, <1>9 DEF TypeOK
  <2> QED
    BY <1>1, <1>3, <2>1 DEF TypeOK
<1>12. LinksInv'
  BY <1>1, <1>3, <1>b DEF LinksInv, IdsOf
<1>13. TrailInv' /\ WalksInv'
  BY <1>1, <1>3, NoWalksYet
<1>14. QueueInv'
  BY <1>1, <1>3 DEF QueueInv
<1> QED
  BY <1>10, <1>11, <1>12, <1>13, <1>14

-----------------------------------------------------------------------------
(* The supersede references                                                *)

\* After the scan valid_indices are the valid notes.
LEMMA AfterScan ==
    ASSUME ManifestInv, phase # "scan"
    PROVE  /\ valid = ValidNotes(candidates)
           /\ Contexts(candidates) = {i \in valid : candidates[i].context}
           /\ \A i \in Contexts(candidates) :
                /\ i \in Positions /\ i \in Nat /\ candidates[i].id \in Ids
                /\ IsValidContext(candidates[i].id)
                /\ ValidContext(candidates[i].id) = candidates[i]
           /\ \A id : IsValidContext(id) =>
                \E i \in Contexts(candidates) : candidates[i].id = id
           /\ NoId \notin Ids
<1>1. Scanned = Positions
  BY PhaseFacts DEF ManifestInv, TypeOK
<1>2. valid = ValidNotes(candidates)
  BY <1>1, ListFacts DEF ManifestInv, ScanInv
<1>3. Contexts(candidates) = {i \in valid : candidates[i].context}
  BY <1>2 DEF Contexts
<1>4. ASSUME NEW i \in Contexts(candidates)
      PROVE  /\ i \in Positions /\ i \in Nat /\ candidates[i].id \in Ids
             /\ IsValidContext(candidates[i].id)
             /\ ValidContext(candidates[i].id) = candidates[i]
  BY <1>2, <1>3, ListFacts, ValidContextIs DEF ManifestInv
<1> QED
  BY <1>2, <1>3, <1>4, ManifestsAssumption DEF IsValidContext

\* The targets of a Context, in the terms of the loops.
LEMMA TargetIs ==
    ASSUME ManifestInv, phase # "scan", NEW i \in Positions
    PROVE  /\ Target(candidates, i) =
                {j \in Contexts(candidates) : candidates[j].id = candidates[i].supersedes}
           /\ Target(candidates, i) # {} <=> IsValidContext(candidates[i].supersedes)
           /\ ClaimFits(candidates, NoId, i) <=>
                /\ IsValidContext(candidates[i].supersedes)
                /\ ValidContext(candidates[i].supersedes).supersededBy \in {NoId, candidates[i].id}
           /\ (\E j \in Replacement(candidates, i) : candidates[j].supersedes = candidates[i].id) <=>
                /\ IsValidContext(candidates[i].supersededBy)
                /\ ValidContext(candidates[i].supersededBy).supersedes = candidates[i].id
<1>1. /\ \A j \in Contexts(candidates) : /\ IsValidContext(candidates[j].id)
                                         /\ ValidContext(candidates[j].id) = candidates[j]
      /\ \A id : IsValidContext(id) => \E j \in Contexts(candidates) : candidates[j].id = id
  BY AfterScan
<1>2. Target(candidates, i) =
        {j \in Contexts(candidates) : candidates[j].id = candidates[i].supersedes}
  BY DEF Target
<1>3. Target(candidates, i) # {} <=> IsValidContext(candidates[i].supersedes)
  BY <1>1, <1>2
<1>4. ClaimFits(candidates, NoId, i) <=>
        /\ IsValidContext(candidates[i].supersedes)
        /\ ValidContext(candidates[i].supersedes).supersededBy \in {NoId, candidates[i].id}
  BY <1>1, <1>2 DEF ClaimFits
<1>5. (\E j \in Replacement(candidates, i) : candidates[j].supersedes = candidates[i].id) <=>
        /\ IsValidContext(candidates[i].supersededBy)
        /\ ValidContext(candidates[i].supersededBy).supersedes = candidates[i].id
  BY <1>1 DEF Replacement
<1> QED
  BY <1>2, <1>3, <1>4, <1>5

LEMMA CheckStep ==
    ASSUME ManifestInv, CheckSupersede
    PROVE  ManifestInv'
<1> USE DEF ManifestInv
<1> DEFINE fits(i) == ClaimFits(candidates, NoId, i)
           broken(i) == LinksBroken(candidates, NoId, i)
           CC == Contexts(candidates)
<1>1. /\ phase = "supersede" /\ at \in Positions /\ Advance("cycle")
      /\ UNCHANGED <<candidates, noteIds, identities, valid, trail, completed, queue>>
  BY DEF CheckSupersede
<1>2. /\ Positions = 1 .. Len(candidates) /\ Len(candidates) \in Nat
      /\ Here.id \in Ids /\ Here.supersedes \in Ids \cup {NoId} /\ NoId \notin Ids
  BY <1>1, ListFacts, ManifestsAssumption DEF Here, Positions
<1>a. /\ Positions' = Positions /\ at' \in Positions
      /\ \/ phase' = phase /\ 1 .. at' - 1 = (1 .. at - 1) \cup {at}
         \/ /\ phase' = "cycle" /\ Positions = (1 .. at - 1) \cup {at}
            /\ 1 .. at' - 1 = {}
  BY <1>1, AdvanceFacts
<1>b. Scanned = Positions /\ Checked = 1 .. at - 1
  BY <1>1, PhaseFacts
<1>3. /\ phase' \in {"supersede", "cycle"} /\ Scanned' = Positions
      /\ Checked' = Checked \cup {at} /\ Walked' = {}
  BY <1>1, <1>a, <1>b, PhaseFactsNext
<1>4. /\ CC = {i \in valid : candidates[i].context}
      /\ CC \subseteq Positions /\ \A i \in CC : i \in Nat
      /\ \A id : IsValidContext(id) => \E i \in CC : candidates[i].id = id
  BY <1>1, AfterScan
<1>5. \A j \in CC : j < at <=> j \in Checked
  BY <1>1, <1>2, <1>4, <1>b
<1>6. /\ fits(at) <=> /\ IsValidContext(Here.supersedes)
                      /\ ValidContext(Here.supersedes).supersededBy \in {NoId, Here.id}
      /\ (\E j \in Replacement(candidates, at) : candidates[j].supersedes = Here.id) <=> BacklinkHolds
  BY <1>1, TargetIs DEF Here, BacklinkHolds
<1>7. \A x : x \in replacements <=> \E j \in CC \cap Checked : fits(j) /\ candidates[j].supersedes = x
  BY DEF LinksInv
<1>8. ForwardHolds <=> ClaimStands(candidates, NoId, at)
  BY <1>5, <1>6, <1>7 DEF ForwardHolds, ClaimStands, Here
<1>9. broken(at) <=> \/ Here.supersedes # NoId /\ ~ForwardHolds
                     \/ Here.supersededBy # NoId /\ ~BacklinkHolds
  BY <1>6, <1>8 DEF LinksBroken, Here
<1>10. fits(at) => Here.supersedes # NoId
  BY <1>2, <1>6, <1>1, AfterScan
<1>11. fits(at) /\ ~ForwardHolds => Here.supersedes \in replacements
  BY <1>6 DEF ForwardHolds
<1>12. ForwardHolds => fits(at)
  BY <1>6 DEF ForwardHolds
<1>13. at \in CC <=> at \in valid /\ Here.context
  BY <1>4 DEF Here
<1> HIDE DEF fits, broken, CC
<1>14. /\ \A x : x \in replacements' <=> x \in replacements \/ (at \in CC /\ fits(at) /\ x = Here.supersedes)
       /\ invalid' = IF at \in CC /\ broken(at) THEN invalid \cup {Here.id} ELSE invalid
  <2>1. CASE at \notin CC
    BY <1>13, <2>1 DEF CheckSupersede
  <2>2. CASE at \in CC /\ Here.supersedes # NoId /\ ~ForwardHolds
    BY <1>9, <1>11, <1>13, <2>2 DEF CheckSupersede
  <2>3. CASE at \in CC /\ ~(Here.supersedes # NoId /\ ~ForwardHolds)
    <3>1. /\ replacements' = IF Here.supersedes = NoId THEN replacements
                             ELSE replacements \cup {Here.supersedes}
          /\ invalid' = IF Here.supersededBy # NoId /\ ~BacklinkHolds
                        THEN invalid \cup {Here.id} ELSE invalid
      BY <1>13, <2>3 DEF CheckSupersede
    <3> QED
      BY <1>9, <1>10, <1>12, <2>3, <3>1
  <2> QED
    BY <2>1, <2>2, <2>3
<1>15. LinksInv'
  <2>1. \A x : x \in replacements' <=>
               \E j \in CC \cap Checked' : fits(j) /\ candidates[j].supersedes = x
    BY <1>3, <1>7, <1>14 DEF Here
  <2>2. replacements' = {candidates[i].supersedes : i \in {i \in CC \cap Checked' : fits(i)}}
    BY <2>1
  <2>3. \A i \in CC \cap Checked' : broken(i) => candidates[i].id \in invalid'
    BY <1>3, <1>14 DEF LinksInv, Here, CC, broken
  <2>4. invalid' \subseteq IdsOf(Rejected(candidates, NoId))
    <3>1. \A i \in CC : broken(i) => i \in Rejected(candidates, NoId)
      BY RejectedFacts DEF CC, broken
    <3> QED
      BY <1>14, <3>1 DEF LinksInv, IdsOf, Here
  <2> QED
    BY <1>1, <2>2, <2>3, <2>4 DEF LinksInv, IdsOf, CC, fits, broken
<1>16. TypeOK'
  <2>1. replacements' \subseteq Ids /\ invalid' \subseteq Ids
    BY <1>2, <1>10, <1>14 DEF TypeOK
  <2> QED
    BY <1>1, <1>3, <1>a, <2>1 DEF TypeOK
<1>17. ScanInv'
  BY <1>1, <1>3, <1>b DEF ScanInv, IdsOf
<1>18. TrailInv' /\ WalksInv'
  BY <1>1, <1>3, NoWalksYet
<1>19. QueueInv'
  BY <1>1, <1>3, <1>14 DEF QueueInv
<1> QED
  BY <1>15, <1>16, <1>17, <1>18, <1>19

-----------------------------------------------------------------------------
(* The walks                                                               *)

\* The lookups depend on the list and the valid notes only.
LEMMA SameLookups ==
    ASSUME UNCHANGED <<candidates, valid>>
    PROVE  \A id : /\ IsValidContext(id)' <=> IsValidContext(id)
                   /\ ValidContext(id)' = ValidContext(id)
                   /\ Predecessors(id)' = Predecessors(id)
BY DEF IsValidContext, ValidContext, Predecessors

LEMMA WalkOnStep ==
    ASSUME ManifestInv, WalkOn
    PROVE  ManifestInv'
<1> USE DEF ManifestInv
<1>1. /\ phase = "cycle" /\ WalkStarts /\ IsValidContext(Current) /\ trail' = Append(trail, Current)
      /\ UNCHANGED <<candidates, phase, at, noteIds, identities, valid, replacements,
                     invalid, completed, queue>>
  BY DEF WalkOn
<1>2. Current \in Ids
  BY <1>1, AfterScan
<1>3. trail \in Seq(Ids) /\ Len(trail) \in Nat
  BY DEF TypeOK
<1>4. /\ trail' \in Seq(Ids) /\ Len(trail') = Len(trail) + 1 /\ trail'[Len(trail) + 1] = Current
      /\ \A k \in 1 .. Len(trail) : trail'[k] = trail[k]
  BY <1>1, <1>2, <1>3
<1>5. TypeOK'
  BY <1>1, <1>4 DEF TypeOK, Positions
<1>6. Scanned' = Scanned /\ Checked' = Checked /\ Walked' = Walked
  BY <1>1 DEF Scanned, Checked, Walked, Through, Positions
<1>7. ScanInv' /\ LinksInv' /\ QueueInv'
  BY <1>1, <1>6, SameLookups DEF ScanInv, LinksInv, QueueInv, IdsOf
<1>8. WalksInv'
  BY <1>1, <1>6, SameLookups DEF WalksInv
<1>9. TrailInv'
  <2>1. trail' # <<>> => /\ phase' = "cycle" /\ at' \in valid' /\ Here'.context /\ trail'[1] = Here'.id
    <3>1. CASE trail = <<>>
      <4>1. Current = Here.id /\ Len(trail) = 0
        BY <3>1 DEF Current
      <4> QED
        BY <1>1, <1>4, <4>1 DEF WalkStarts, Here
    <3>2. CASE trail # <<>>
      <4>1. 1 \in 1 .. Len(trail)
        BY <1>3, <3>2
      <4> QED
        BY <1>1, <1>4, <3>2, <4>1 DEF TrailInv, Here
    <3> QED
      BY <3>1, <3>2
  <2>2. \A k \in 1 .. Len(trail') : IsValidContext(trail'[k])
    <3>1. ASSUME NEW k \in 1 .. Len(trail')
          PROVE  IsValidContext(trail'[k])
      <4>1. k \in 1 .. Len(trail) \/ k = Len(trail) + 1
        BY <1>3, <1>4
      <4> QED
        BY <1>1, <1>4, <4>1 DEF TrailInv
    <3> QED
      BY <3>1
  <2>3. ASSUME NEW k \in 1 .. Len(trail') - 1
        PROVE  ValidContext(trail'[k]).supersedes = trail'[k + 1]
    <3>1. k \in 1 .. Len(trail) /\ (k \in 1 .. Len(trail) - 1 \/ k = Len(trail))
      BY <1>3, <1>4
    <3>2. CASE k \in 1 .. Len(trail) - 1
      <4>1. k + 1 \in 1 .. Len(trail)
        BY <1>3, <3>2
      <4> QED
        BY <1>4, <3>1, <3>2, <4>1 DEF TrailInv
    <3>3. CASE k = Len(trail)
      <4>1. trail # <<>>
        BY <3>1, <3>3
      <4>2. Current = ValidContext(trail[Len(trail)]).supersedes
        BY <4>1 DEF Current
      <4> QED
        BY <1>4, <3>1, <3>3, <4>2
    <3> QED
      BY <3>1, <3>2, <3>3
  <2> QED
    BY <1>1, <2>1, <2>2, <2>3 DEF TrailInv, IsValidContext, ValidContext
<1> QED
  BY <1>5, <1>7, <1>8, <1>9

\* The part of the trail from a repeated id on.
CycleFound ==
    IF WalkStarts /\ OnTrail(Current)
    THEN {trail[k] : k \in {k \in 1 .. Len(trail) : \E j \in 1 .. k : trail[j] = Current}}
    ELSE {}

Follows(id) == ValidContext(id).supersedes

\* What a walk that is over has found out.
LEMMA WalkFacts ==
    ASSUME ManifestInv, WalkEnds
    PROVE  /\ phase = "cycle" /\ at \in Positions /\ Advance("propagate")
           /\ invalid' = invalid \cup CycleFound
           /\ queue' = IF at = Len(candidates) THEN invalid' ELSE queue
           /\ completed' = completed \cup Visited /\ trail' = <<>>
           /\ UNCHANGED <<candidates, noteIds, identities, valid, replacements>>
           /\ Len(trail) \in Nat /\ Visited \subseteq Ids /\ CycleFound \subseteq Visited
           /\ \A id \in Visited : IsValidContext(id)
           /\ at \in Contexts(candidates) => Here.id \in completed'
<1> USE DEF ManifestInv
<1>1. /\ phase = "cycle" /\ at \in Positions /\ Advance("propagate")
      /\ invalid' = invalid \cup CycleFound
      /\ queue' = IF at = Len(candidates) THEN invalid' ELSE queue
      /\ completed' = completed \cup Visited /\ trail' = <<>>
      /\ UNCHANGED <<candidates, noteIds, identities, valid, replacements>>
  BY DEF WalkEnds, CycleFound
<1>2. Len(trail) \in Nat /\ Visited \subseteq Ids
  BY DEF TypeOK, Visited
<1>3. CycleFound \subseteq Visited
  BY DEF CycleFound, Visited
<1>4. \A id \in Visited : IsValidContext(id)
  BY DEF TrailInv, Visited
<1>5. at \in Contexts(candidates) => Here.id \in completed'
  <2>1. SUFFICES ASSUME at \in Contexts(candidates), Here.id \notin completed
                 PROVE  Here.id \in Visited
    BY <1>1
  <2>2. at \in valid /\ Here.context /\ IsValidContext(Here.id)
    BY <1>1, <2>1, AfterScan DEF Here
  <2>3. CASE trail = <<>>
    <3>1. Current = Here.id /\ WalkStarts /\ ~OnTrail(Current)
      BY <2>1, <2>2, <2>3 DEF Current, WalkStarts, OnTrail
    <3> QED
      BY <2>1, <2>2, <3>1 DEF WalkEnds
  <2>4. CASE trail # <<>>
    <3>1. trail[1] = Here.id /\ 1 \in 1 .. Len(trail)
      BY <1>2, <2>4 DEF TrailInv, TypeOK
    <3> QED
      BY <3>1 DEF Visited
  <2> QED
    BY <2>3, <2>4
<1> QED
  BY <1>1, <1>2, <1>3, <1>4, <1>5

\* The trail from position to position, and where it ends.
LEMMA TrailFollows ==
    ASSUME ManifestInv, WalkEnds, NEW k \in 1 .. Len(trail)
    PROVE  /\ k < Len(trail) => Follows(trail[k]) = trail[k + 1] /\ k + 1 \in 1 .. Len(trail)
           /\ k = Len(trail) =>
                /\ Follows(trail[k]) = Current
                /\ IsValidContext(Current) => Current \in completed \/ Current \in Visited
                /\ OnTrail(Current) => trail[k] \in CycleFound
<1> USE DEF ManifestInv, Follows
<1>1. Len(trail) \in Nat /\ trail # <<>>
  BY WalkFacts
<1>2. k < Len(trail) => Follows(trail[k]) = trail[k + 1] /\ k + 1 \in 1 .. Len(trail)
  BY <1>1 DEF TrailInv
<1>3. WalkStarts
  BY <1>1 DEF TrailInv, WalkStarts
<1>4. IsValidContext(Current) => Current \in completed \/ Current \in Visited
  BY <1>3 DEF WalkEnds, OnTrail, Visited
<1>5. k = Len(trail) => Follows(trail[k]) = Current
  BY <1>1 DEF Current
<1>6. k = Len(trail) /\ OnTrail(Current) => trail[k] \in CycleFound
  BY <1>1, <1>3 DEF OnTrail, CycleFound
<1> QED
  BY <1>2, <1>4, <1>5, <1>6

\* A cycle the walk finds is a circle of the rules.
LEMMA CycleRejected ==
    ASSUME ManifestInv, WalkEnds
    PROVE  CycleFound \subseteq IdsOf(Rejected(candidates, NoId))
<1> DEFINE CC == Contexts(candidates)
           C == {i \in CC : candidates[i].id \in CycleFound}
<1>1. /\ phase = "cycle" /\ Len(trail) \in Nat /\ CycleFound \subseteq Visited
      /\ \A id \in Visited : IsValidContext(id)
  BY WalkFacts
<1>2. /\ \A i \in CC : i \in Positions /\ ValidContext(candidates[i].id) = candidates[i]
      /\ \A id : IsValidContext(id) => \E i \in CC : candidates[i].id = id
  BY <1>1, AfterScan
<1>3. ASSUME NEW id \in CycleFound
      PROVE  Follows(id) \in CycleFound
  <2>1. /\ WalkStarts /\ OnTrail(Current)
        /\ CycleFound = {trail[k] : k \in {k \in 1 .. Len(trail) : \E j \in 1 .. k : trail[j] = Current}}
    BY <1>3 DEF CycleFound
  <2>2. PICK k \in 1 .. Len(trail) : id = trail[k] /\ \E j \in 1 .. k : trail[j] = Current
    BY <1>3, <2>1
  <2>3. PICK j \in 1 .. k : trail[j] = Current
    BY <2>2
  <2>4. CASE k < Len(trail)
    <3>1. Follows(id) = trail[k + 1] /\ k + 1 \in 1 .. Len(trail)
      BY <2>2, <2>4, TrailFollows
    <3>2. j \in 1 .. k + 1
      BY <1>1, <2>2, <2>3
    <3> QED
      BY <2>1, <2>3, <3>1, <3>2
  <2>5. CASE k = Len(trail)
    <3>1. Follows(id) = Current
      BY <2>2, <2>5, TrailFollows
    <3>2. j \in 1 .. Len(trail) /\ j \in 1 .. j
      BY <1>1, <2>2, <2>3
    <3> QED
      BY <2>1, <2>3, <3>1, <3>2
  <2> QED
    BY <1>1, <2>4, <2>5
<1>4. ASSUME NEW i \in C
      PROVE  Target(candidates, i) \cap C # {}
  <2>1. Follows(candidates[i].id) = candidates[i].supersedes /\ i \in Positions
    BY <1>2 DEF Follows
  <2>2. candidates[i].supersedes \in CycleFound
    BY <1>3, <2>1
  <2>3. PICK j \in CC : candidates[j].id = candidates[i].supersedes
    BY <1>1, <1>2, <2>2
  <2>4. j \in Target(candidates, i) /\ j \in C
    BY <2>2, <2>3 DEF Target
  <2> QED
    BY <2>4
<1>5. C \subseteq Rejected(candidates, NoId)
  <2>1. Circular(candidates, C)
    BY <1>4 DEF Circular
  <2>2. C \in SUBSET Contexts(candidates)
    OBVIOUS
  <2> QED
    BY <2>1, <2>2, RejectedFacts
<1>6. \A id \in CycleFound : \E i \in C : candidates[i].id = id
  BY <1>1, <1>2
<1> QED
  BY <1>5, <1>6 DEF IdsOf

\* Whoever the walk has not found in a cycle is in no circle.
LEMMA NoCircleLeft ==
    ASSUME ManifestInv, WalkEnds, NEW S \in SUBSET ((completed \cup Visited) \ (invalid \cup CycleFound)),
           S # {}, \A id \in S : Follows(id) \in S
    PROVE  FALSE
<1> USE DEF ManifestInv
<1>1. /\ phase = "cycle" /\ Len(trail) \in Nat
      /\ \A id \in Visited : IsValidContext(id)
  BY WalkFacts
<1>2. /\ \A id \in completed : /\ IsValidContext(id)
                               /\ IsValidContext(Follows(id)) => Follows(id) \in completed
      /\ \A U \in SUBSET (completed \ invalid) : U # {} => \E id \in U : Follows(id) \notin U
  BY DEF WalksInv, Follows
<1> DEFINE U == S \cap completed
<1>3. U = {}
  <2>1. U \in SUBSET (completed \ invalid)
    OBVIOUS
  <2>2. \A id \in U : Follows(id) \in U
    BY <1>1, <1>2
  <2> QED
    BY <1>2, <2>1, <2>2
<1> DEFINE K == {k \in 1 .. Len(trail) : trail[k] \in S}
<1>4. K \in SUBSET (1 .. Len(trail)) /\ K # {}
  BY <1>3 DEF Visited
<1>5. PICK k \in K : \A j \in K : j <= k
  BY <1>1, <1>4, GreatestNumber
<1>6. k \in Nat /\ k \in 1 .. Len(trail) /\ trail[k] \in S /\ Follows(trail[k]) \in S
  BY <1>1, <1>5
<1>7. CASE k < Len(trail)
  <2>1. k + 1 \in K
    BY <1>6, <1>7, TrailFollows
  <2> QED
    BY <1>5, <1>6, <2>1
<1>8. CASE k = Len(trail)
  <2>1. Follows(trail[k]) = Current /\ (OnTrail(Current) => trail[k] \in CycleFound)
    BY <1>6, <1>8, TrailFollows
  <2>2. Current \in Visited
    BY <1>3, <1>6, <2>1
  <2>3. OnTrail(Current)
    BY <2>2 DEF OnTrail, Visited
  <2> QED
    BY <1>6, <2>1, <2>3
<1> QED
  BY <1>1, <1>6, <1>7, <1>8

LEMMA WalkEndsStep ==
    ASSUME ManifestInv, WalkEnds
    PROVE  ManifestInv'
<1> USE DEF ManifestInv
<1>1. /\ phase = "cycle" /\ at \in Positions /\ Advance("propagate")
      /\ invalid' = invalid \cup CycleFound
      /\ queue' = IF at = Len(candidates) THEN invalid' ELSE queue
      /\ completed' = completed \cup Visited /\ trail' = <<>>
      /\ UNCHANGED <<candidates, noteIds, identities, valid, replacements>>
      /\ Len(trail) \in Nat /\ Visited \subseteq Ids /\ CycleFound \subseteq Visited
      /\ \A id \in Visited : IsValidContext(id)
      /\ at \in Contexts(candidates) => Here.id \in completed'
  BY WalkFacts
<1>2. /\ Positions' = Positions /\ at' \in Positions
      /\ \/ phase' = phase /\ 1 .. at' - 1 = (1 .. at - 1) \cup {at} /\ at < Len(candidates)
         \/ /\ phase' = "propagate" /\ Positions = (1 .. at - 1) \cup {at}
            /\ at = Len(candidates)
  BY <1>1, AdvanceFacts
<1>3. Scanned = Positions /\ Checked = Positions /\ Walked = 1 .. at - 1
  BY <1>1, PhaseFacts
<1>4. /\ phase' \in {"cycle", "propagate"} /\ Scanned' = Positions /\ Checked' = Positions
      /\ Walked' = Walked \cup {at}
  BY <1>1, <1>2, <1>3, PhaseFactsNext
<1>5. TypeOK'
  <2>1. /\ invalid' \subseteq Ids /\ completed' \subseteq Ids /\ queue' \subseteq Ids
        /\ trail' \in Seq(Ids)
    BY <1>1 DEF TypeOK
  <2> QED
    BY <1>1, <1>2, <1>4, <2>1 DEF TypeOK
<1>6. ScanInv'
  BY <1>1, <1>3, <1>4 DEF ScanInv, IdsOf
<1>7. LinksInv'
  <2>1. invalid' \subseteq IdsOf(Rejected(candidates, NoId))
    BY <1>1, CycleRejected DEF LinksInv
  <2> QED
    BY <1>1, <1>3, <1>4, <2>1 DEF LinksInv, IdsOf
<1>8. TrailInv'
  <2>1. trail' = <<>> /\ Len(trail') = 0
    BY <1>1
  <2> QED
    BY <2>1 DEF TrailInv
<1>9. WalksInv'
  <2>1. \A i \in Contexts(candidates) \cap Walked' : candidates[i].id \in completed'
    BY <1>1, <1>4 DEF WalksInv, Here
  <2>2. ASSUME NEW id \in completed'
        PROVE  IsValidContext(id) /\ (IsValidContext(Follows(id)) => Follows(id) \in completed')
    <3>1. CASE id \in completed
      BY <1>1, <3>1 DEF WalksInv, Follows
    <3>2. CASE id \in Visited
      <4>1. PICK k \in 1 .. Len(trail) : id = trail[k]
        BY <3>2 DEF Visited
      <4>2. k < Len(trail) \/ k = Len(trail)
        BY <1>1
      <4>3. IsValidContext(Follows(id)) => Follows(id) \in completed \/ Follows(id) \in Visited
        BY <4>1, <4>2, TrailFollows DEF Visited
      <4> QED
        BY <1>1, <3>2, <4>3
    <3> QED
      BY <1>1, <3>1, <3>2
  <2>3. ASSUME NEW S \in SUBSET (completed' \ invalid'), S # {}
        PROVE  \E id \in S : Follows(id) \notin S
    BY <1>1, <2>3, NoCircleLeft
  <2>4. \A id : (IsValidContext(id)' <=> IsValidContext(id)) /\ ValidContext(id)' = ValidContext(id)
    BY <1>1, SameLookups
  <2>5. /\ \A id \in completed' : /\ IsValidContext(id)'
                                  /\ (IsValidContext(ValidContext(id).supersedes) =>
                                        ValidContext(id).supersedes \in completed)'
        /\ \A S \in SUBSET (completed' \ invalid') :
             S # {} => \E id \in S : (ValidContext(id).supersedes)' \notin S
    BY <1>1, <2>2, <2>3, <2>4 DEF Follows, IsValidContext
  <2> QED
    BY <1>1, <1>4, <2>1, <2>5 DEF WalksInv
<1>10. QueueInv'
  BY <1>1, <1>2, <1>4 DEF QueueInv
<1> QED
  BY <1>5, <1>6, <1>7, <1>8, <1>9, <1>10

-----------------------------------------------------------------------------
(* Propagation, and the end                                                *)

LEMMA PropagateStep ==
    ASSUME ManifestInv, Propagate
    PROVE  ManifestInv'
<1> USE DEF ManifestInv
<1>1. /\ phase = "propagate"
      /\ UNCHANGED <<candidates, phase, at, noteIds, identities, valid, replacements,
                     trail, completed>>
  BY DEF Propagate
<1>2. PICK id \in queue : /\ invalid' = invalid \cup (Predecessors(id) \ invalid)
                          /\ queue' = (queue \ {id}) \cup (Predecessors(id) \ invalid)
  BY DEF Propagate
<1>3. id \in invalid
  BY DEF QueueInv
<1>4. Scanned' = Scanned /\ Checked' = Checked /\ Walked' = Walked
  BY <1>1 DEF Scanned, Checked, Walked, Through, Positions
<1>5. Predecessors(id) \subseteq IdsOf(Rejected(candidates, NoId)) /\ Predecessors(id) \subseteq Ids
  <2>1. SUFFICES ASSUME NEW i \in valid, candidates[i].context, candidates[i].supersedes = id
                 PROVE  i \in Rejected(candidates, NoId) /\ candidates[i].id \in Ids
    BY DEF Predecessors, IdsOf
  <2>2. i \in Contexts(candidates) /\ candidates[i].id \in Ids
    BY <1>1, <2>1, AfterScan
  <2>3. PICK j \in Rejected(candidates, NoId) : candidates[j].id = id
    BY <1>3 DEF LinksInv, IdsOf
  <2>4. j \in Contexts(candidates)
    BY RejectedFacts
  <2>5. j \in Target(candidates, i)
    BY <2>1, <2>3, <2>4 DEF Target
  <2> QED
    BY <2>2, <2>3, <2>5, RejectedFacts
<1>6. TypeOK'
  BY <1>1, <1>2, <1>5 DEF TypeOK, Positions
<1>7. ScanInv'
  BY <1>1, <1>4 DEF ScanInv, IdsOf
<1>8. LinksInv'
  <2>1. invalid' \subseteq IdsOf(Rejected(candidates, NoId)) /\ invalid \subseteq invalid'
    BY <1>2, <1>5 DEF LinksInv
  <2> QED
    BY <1>1, <1>4, <2>1 DEF LinksInv, IdsOf
<1>9. TrailInv'
  BY <1>1, SameLookups DEF TrailInv, Here
<1>10. WalksInv'
  <2>1. \A S \in SUBSET (completed \ invalid') : S \in SUBSET (completed \ invalid)
    BY <1>2
  <2> QED
    BY <1>1, <1>4, <2>1, SameLookups DEF WalksInv
<1>11. QueueInv'
  <2>1. queue' \subseteq invalid'
    BY <1>2 DEF QueueInv
  <2>2. \A x \in invalid' \ queue' : Predecessors(x) \subseteq invalid'
    BY <1>1, <1>2 DEF QueueInv
  <2> QED
    BY <1>1, <2>1, <2>2, SameLookups DEF QueueInv
<1> QED
  BY <1>6, <1>7, <1>8, <1>9, <1>10, <1>11

LEMMA FinishStep ==
    ASSUME ManifestInv, Finish
    PROVE  ManifestInv'
<1> USE DEF ManifestInv
<1>1. /\ phase' = "done" /\ Positions' = Positions
      /\ UNCHANGED <<candidates, at, noteIds, identities, valid, replacements,
                     invalid, trail, completed, queue>>
  BY DEF Finish, Positions
<1>2. Scanned' = Positions /\ Checked' = Positions /\ Walked' = Positions
  BY <1>1, PhaseFactsNext
<1>3. /\ Scanned = Positions /\ (Contexts(candidates) \cap Checked = Contexts(candidates) \cap Positions)
      /\ Contexts(candidates) \cap Walked = Contexts(candidates) \cap Positions
      /\ queue = {} /\ phase # "cycle"
      /\ \A id \in invalid : Predecessors(id) \subseteq invalid
  <2>1. CASE phase = "propagate" /\ queue = {}
    BY <2>1, PhaseFacts DEF QueueInv
  <2>2. CASE phase = "scan" /\ candidates = <<>>
    <3>1. at = 1 /\ Positions = {}
      BY <2>2 DEF TypeOK, Positions
    <3>2. Scanned = {} /\ Checked = {} /\ Walked = {}
      BY <2>2, <3>1, PhaseFacts
    <3>3. Contexts(candidates) = {} /\ valid = {}
      BY <3>1, ListFacts DEF ScanInv
    <3>4. invalid = {}
      BY <3>3, RejectedFacts DEF LinksInv, IdsOf
    <3> QED
      BY <2>2, <3>1, <3>2, <3>3, <3>4 DEF QueueInv
  <2> QED
    BY <2>1, <2>2 DEF Finish
<1>4. trail = <<>> /\ Len(trail) = 0
  BY <1>3 DEF TrailInv
<1>5. TypeOK' /\ ScanInv' /\ LinksInv'
  BY <1>1, <1>2, <1>3 DEF TypeOK, ScanInv, LinksInv, IdsOf
<1>6. TrailInv'
  BY <1>1, <1>4 DEF TrailInv
<1>7. WalksInv' /\ QueueInv'
  BY <1>1, <1>2, <1>3, SameLookups DEF WalksInv, QueueInv
<1> QED
  BY <1>5, <1>6, <1>7

LEMMA ManifestInit == Init => ManifestInv
<1> SUFFICES ASSUME Init PROVE ManifestInv
  OBVIOUS
<1>1. /\ candidates \in Seq(Candidates) /\ phase = "scan" /\ at = 1
      /\ noteIds = {} /\ identities = {} /\ valid = {} /\ replacements = {} /\ invalid = {}
      /\ trail = <<>> /\ completed = {} /\ queue = {}
  BY ManifestsAssumption DEF Init
<1>2. at \in Positions \/ (candidates = <<>> /\ at = 1)
  BY <1>1 DEF Positions
<1>3. TypeOK
  BY <1>1, <1>2 DEF TypeOK
<1>4. Scanned = {} /\ Checked = {} /\ Walked = {}
  BY <1>1, PhaseFacts
<1>5. ScanInv /\ LinksInv
  BY <1>1, <1>4 DEF ScanInv, LinksInv, IdsOf
<1>6. TrailInv /\ WalksInv /\ QueueInv
  BY <1>1, <1>4 DEF TrailInv, WalksInv, QueueInv
<1> QED
  BY <1>3, <1>5, <1>6 DEF ManifestInv

LEMMA ManifestStutter ==
    ASSUME ManifestInv, UNCHANGED vars
    PROVE  ManifestInv'
<1>1. UNCHANGED <<candidates, phase, at, noteIds, identities, valid, replacements,
                  invalid, trail, completed, queue>>
  BY DEF vars
<1>2. Scanned' = Scanned /\ Checked' = Checked /\ Walked' = Walked /\ Positions' = Positions
  BY <1>1 DEF Scanned, Checked, Walked, Through, Positions
<1>3. (TypeOK /\ ScanInv /\ LinksInv)'
  BY <1>1, <1>2 DEF ManifestInv, TypeOK, ScanInv, LinksInv, IdsOf
<1>4. (TrailInv /\ WalksInv /\ QueueInv)'
  BY <1>1, <1>2, SameLookups DEF ManifestInv, TrailInv, WalksInv, QueueInv, Here
<1> QED
  BY <1>3, <1>4 DEF ManifestInv

\* What the loops have established holds throughout, for every list.
THEOREM ManifestInvariant == Spec => []ManifestInv
<1>1. ManifestInv /\ [Next \/ Done]_vars => ManifestInv'
  BY ScanStep, CheckStep, WalkOnStep, WalkEndsStep, PropagateStep, FinishStep, ManifestStutter
     DEF Next, Done
<1> QED
  BY <1>1, ManifestInit, PTL DEF Spec

\* The indices, maps and sets of the loops keep their types; in particular no
\* loop looks at a position outside of the list.
THEOREM ManifestTypeOK == Spec => []TypeOK
<1>1. ManifestInv => TypeOK
  BY DEF ManifestInv
<1> QED
  BY <1>1, ManifestInvariant, PTL

-----------------------------------------------------------------------------
(* What is accepted                                                        *)

\* Who is left at the end has no broken link, supersedes someone who is left,
\* and is in no circle.
LEMMA AtTheEnd ==
    ASSUME ManifestInv, phase = "done"
    PROVE  /\ valid = ValidNotes(candidates) /\ Accepted \subseteq ValidNotes(candidates)
           /\ \A i \in Contexts(candidates) : candidates[i].id \notin invalid =>
                /\ ~LinksBroken(candidates, NoId, i)
                /\ \A j \in Target(candidates, i) : candidates[j].id \notin invalid
           /\ \A S \in SUBSET {i \in Contexts(candidates) : candidates[i].id \notin invalid} :
                S # {} => \E i \in S : \A j \in S : candidates[j].id # candidates[i].supersedes
           /\ \A i \in ValidNotes(candidates) \ Contexts(candidates) : candidates[i].id \notin invalid
<1> USE DEF ManifestInv
<1> DEFINE CC == Contexts(candidates)
<1>1. /\ valid = ValidNotes(candidates) /\ CC = {i \in valid : candidates[i].context}
      /\ \A i \in CC : /\ i \in Positions /\ IsValidContext(candidates[i].id)
                       /\ ValidContext(candidates[i].id) = candidates[i]
  BY AfterScan
<1>2. Checked = Positions /\ Walked = Positions
  BY PhaseFacts
<1>3. ASSUME NEW i \in CC, candidates[i].id \notin invalid
      PROVE  /\ ~LinksBroken(candidates, NoId, i)
             /\ \A j \in Target(candidates, i) : candidates[j].id \notin invalid
  <2>1. ~LinksBroken(candidates, NoId, i)
    BY <1>1, <1>2, <1>3 DEF LinksInv
  <2>2. ASSUME NEW j \in Target(candidates, i), candidates[j].id \in invalid
        PROVE  FALSE
    <3>1. j \in CC /\ candidates[j].id = candidates[i].supersedes
      BY <2>2 DEF Target
    <3>2. candidates[i].id \in Predecessors(candidates[j].id)
      BY <1>1, <3>1 DEF Predecessors
    <3> QED
      BY <1>3, <2>2, <3>2 DEF QueueInv
  <2> QED
    BY <2>1, <2>2
<1>4. ASSUME NEW S \in SUBSET {i \in CC : candidates[i].id \notin invalid}, S # {}
      PROVE  \E i \in S : \A j \in S : candidates[j].id # candidates[i].supersedes
  <2> DEFINE D == {candidates[i].id : i \in S}
  <2>1. D \in SUBSET (completed \ invalid) /\ D # {}
    BY <1>1, <1>2, <1>4 DEF WalksInv
  <2>2. PICK id \in D : ValidContext(id).supersedes \notin D
    BY <2>1 DEF WalksInv
  <2>3. PICK i \in S : id = candidates[i].id
    OBVIOUS
  <2>4. ValidContext(id) = candidates[i]
    BY <1>1, <2>3
  <2> QED
    BY <2>2, <2>3, <2>4
<1>5. ASSUME NEW i \in ValidNotes(candidates) \ CC
      PROVE  candidates[i].id \notin invalid
  <2>1. \A j \in Rejected(candidates, NoId) : j \in CC
    BY RejectedFacts
  <2>2. \A j \in CC : candidates[j].id # candidates[i].id
    BY <1>1, UniqueId
  <2> QED
    BY <2>1, <2>2 DEF LinksInv, IdsOf
<1> QED
  BY <1>1, <1>3, <1>4, <1>5 DEF Accepted

\* No list, whatever its circles, clashes and dangling references, gets a note
\* accepted whose supersede history the index cannot honour.
THEOREM ManifestAcceptedSound == Spec => []AcceptedSound
<1>1. ASSUME ManifestInv, phase = "done"
      PROVE  AcceptedSound
  <2> USE <1>1
  <2> DEFINE CC == Contexts(candidates)
             VN == ValidNotes(candidates)
  <2>1. /\ valid = VN /\ Accepted \subseteq VN
        /\ \A i \in CC : candidates[i].id \notin invalid =>
             /\ ~LinksBroken(candidates, NoId, i)
             /\ \A j \in Target(candidates, i) : candidates[j].id \notin invalid
        /\ \A S \in SUBSET {i \in CC : candidates[i].id \notin invalid} :
             S # {} => \E i \in S : \A j \in S : candidates[j].id # candidates[i].supersedes
    BY AtTheEnd
  <2>2. /\ VN \subseteq Positions /\ DOMAIN candidates = Positions /\ Positions \in SUBSET Nat
        /\ CC = {i \in VN : candidates[i].context}
    BY ListFacts DEF ManifestInv, Contexts
  <2>3. \A i \in Accepted : /\ i \in VN /\ i \in Nat /\ i \in DOMAIN candidates
                            /\ candidates[i].id \notin invalid
    BY <2>1, <2>2 DEF Accepted
  <2>4. ASSUME NEW i \in Accepted, candidates[i].context, candidates[i].supersedes # NoId
        PROVE  ClaimStands(candidates, NoId, i)
    BY <2>1, <2>2, <2>3, <2>4 DEF LinksBroken
  <2>5. ASSUME NEW i \in Accepted, NEW j \in Accepted, i < j
        PROVE  /\ candidates[i].id # candidates[j].id
               /\ candidates[i].path # candidates[j].path
               /\ ~(/\ candidates[i].context /\ candidates[j].context
                    /\ \/ candidates[i].identity = candidates[j].identity
                       \/ /\ candidates[i].supersedes # NoId
                          /\ candidates[i].supersedes = candidates[j].supersedes)
    <3>1. /\ i \in VN /\ j \in VN /\ i \in DOMAIN candidates /\ j \in DOMAIN candidates
          /\ i \in Nat /\ j \in Nat
      BY <2>3
    <3>2. candidates[i].id # candidates[j].id
      BY <2>5, <3>1 DEF ValidNotes, FirstId
    <3>3. candidates[i].path # candidates[j].path
      BY <2>5, <3>1 DEF ValidNotes, OwnPath
    <3>4. ~(candidates[i].context /\ candidates[j].context
            /\ candidates[i].identity = candidates[j].identity)
      BY <2>5, <3>1 DEF ValidNotes, FirstContent
    <3>5. ASSUME candidates[i].context, candidates[j].context, candidates[i].supersedes # NoId,
                 candidates[i].supersedes = candidates[j].supersedes
          PROVE  FALSE
      <4>1. ClaimFits(candidates, NoId, i)
        BY <2>4, <3>5 DEF ClaimStands
      <4>2. ClaimStands(candidates, NoId, j)
        BY <2>4, <3>5
      <4>3. i \in CC
        BY <2>2, <3>1, <3>5
      <4> QED
        BY <2>5, <3>5, <4>1, <4>2, <4>3 DEF ClaimStands
    <3> QED
      BY <3>2, <3>3, <3>4, <3>5
  <2>6. \A i, j \in Accepted :
          i # j => /\ candidates[i].id # candidates[j].id
                   /\ candidates[i].path # candidates[j].path
                   /\ ~(/\ candidates[i].context /\ candidates[j].context
                        /\ \/ candidates[i].identity = candidates[j].identity
                           \/ /\ candidates[i].supersedes # NoId
                              /\ candidates[i].supersedes = candidates[j].supersedes)
    <3>1. SUFFICES ASSUME NEW i \in Accepted, NEW j \in Accepted, i # j
                   PROVE  /\ candidates[i].id # candidates[j].id
                          /\ candidates[i].path # candidates[j].path
                          /\ ~(/\ candidates[i].context /\ candidates[j].context
                               /\ \/ candidates[i].identity = candidates[j].identity
                                  \/ /\ candidates[i].supersedes # NoId
                                     /\ candidates[i].supersedes = candidates[j].supersedes)
      OBVIOUS
    <3>2. i < j \/ j < i
      BY <2>3, <3>1
    <3> QED
      BY <2>5, <3>2
  <2>7. ASSUME NEW i \in Accepted, candidates[i].context, candidates[i].supersedes # NoId
        PROVE  \E j \in Accepted \cap Named(candidates[i].supersedes) :
                 candidates[j].supersededBy \in {NoId, candidates[i].id}
    <3>1. PICK j \in Target(candidates, i) : candidates[j].supersededBy \in {NoId, candidates[i].id}
      BY <2>4, <2>7 DEF ClaimStands, ClaimFits
    <3>2. j \in CC /\ candidates[j].id = candidates[i].supersedes
      BY DEF Target
    <3>3. candidates[j].id \notin invalid
      BY <2>1, <2>2, <2>3, <2>7
    <3> QED
      BY <2>1, <2>2, <3>1, <3>2, <3>3 DEF Accepted, Named
  <2>8. ASSUME NEW S \in (SUBSET {i \in Accepted : candidates[i].context}) \ {{}}
        PROVE  \E i \in S : \A j \in S : candidates[j].id # candidates[i].supersedes
    <3>1. S # {} /\ \A i \in S : i \in Accepted /\ candidates[i].context
      BY <2>8
    <3>2. \A i \in S : i \in CC /\ candidates[i].id \notin invalid
      BY <2>2, <2>3, <3>1
    <3>3. S \in SUBSET {i \in CC : candidates[i].id \notin invalid}
      BY <3>2
    <3> QED
      BY <2>1, <3>1, <3>3
  <2> QED
    BY <2>6, <2>7, <2>8 DEF AcceptedSound
<1>2. ManifestInv => AcceptedSound
  BY <1>1 DEF AcceptedSound
<1> QED
  BY <1>2, ManifestInvariant, PTL

\* The four loops accept exactly the notes that the rules accept, on every list
\* and in whatever order the queue is emptied.
THEOREM ManifestLoopsComputeRules == Spec => []LoopsComputeRules
<1>1. ASSUME ManifestInv, phase = "done"
      PROVE  Accepted = AcceptedNotes(candidates, NoId)
  <2> USE <1>1
  <2> DEFINE CC == Contexts(candidates)
             VN == ValidNotes(candidates)
             I == {i \in CC : candidates[i].id \in invalid}
  <2>1. /\ valid = VN
        /\ \A i \in CC : candidates[i].id \notin invalid =>
             /\ ~LinksBroken(candidates, NoId, i)
             /\ \A j \in Target(candidates, i) : candidates[j].id \notin invalid
        /\ \A S \in SUBSET {i \in CC : candidates[i].id \notin invalid} :
             S # {} => \E i \in S : \A j \in S : candidates[j].id # candidates[i].supersedes
        /\ \A i \in VN \ CC : candidates[i].id \notin invalid
    BY AtTheEnd
  <2>2. Rejected(candidates, NoId) \subseteq I
    <3>1. \A i \in CC : LinksBroken(candidates, NoId, i) => i \in I
      BY <2>1
    <3>2. \A i \in CC : Target(candidates, i) \cap I # {} => i \in I
      BY <2>1
    <3>3. ASSUME NEW C \in SUBSET CC, Circular(candidates, C)
          PROVE  C \subseteq I
      <4> DEFINE S == C \ I
      <4>1. S \in SUBSET {i \in CC : candidates[i].id \notin invalid}
        OBVIOUS
      <4>2. \A i \in S : Target(candidates, i) \cap S # {}
        BY <3>2, <3>3 DEF Circular
      <4>3. \A i \in S : \E j \in S : candidates[j].id = candidates[i].supersedes
        BY <4>2 DEF Target
      <4>4. S = {}
        BY <2>1, <4>1, <4>3
      <4> QED
        BY <4>4
    <3>4. I \in SUBSET CC
      OBVIOUS
    <3> QED
      BY <3>1, <3>2, <3>3, <3>4, RejectedLeast
  <2>3. I \subseteq Rejected(candidates, NoId)
    <3>1. ASSUME NEW i \in I
          PROVE  i \in Rejected(candidates, NoId)
      <4>1. PICK j \in Rejected(candidates, NoId) : candidates[j].id = candidates[i].id
        BY DEF ManifestInv, LinksInv, IdsOf
      <4>2. i \in VN /\ j \in VN
        BY RejectedFacts, ListFacts DEF ManifestInv
      <4>3. i = j
        BY <4>1, <4>2, UniqueId DEF ManifestInv
      <4> QED
        BY <4>3
    <3> QED
      BY <3>1
  <2>4. \A i \in VN : candidates[i].id \in invalid <=> i \in I
    BY <2>1
  <2> QED
    BY <2>1, <2>2, <2>3, <2>4 DEF Accepted, AcceptedNotes
<1>2. ManifestInv => LoopsComputeRules
  BY <1>1 DEF LoopsComputeRules
<1> QED
  BY <1>2, ManifestInvariant, PTL
=============================================================================
