---------------------------- MODULE ManifestRules ----------------------------
(***************************************************************************)
(* Which of the notes a reindex found may enter the index, as rules rather *)
(* than loops.  The notes are a function from their position in the list   *)
(* (a number) to a record of the fields validation looks at.               *)
(***************************************************************************)
EXTENDS Naturals, FiniteSets

\* A note has its path to itself.
OwnPath(notes, i) ==
    \A j \in DOMAIN notes : notes[j].path = notes[i].path => j = i

\* ... is the first to declare its id,
FirstId(notes, i) ==
    \A j \in DOMAIN notes :
        j < i /\ OwnPath(notes, j) => notes[j].id # notes[i].id

\* ... and, if it is a Context, the first with its scope identity and content.
FirstContent(notes, i) ==
    \A j \in DOMAIN notes :
        /\ j < i /\ OwnPath(notes, j) /\ FirstId(notes, j)
        /\ notes[i].context /\ notes[j].context
        => notes[j].identity # notes[i].identity

ValidNotes(notes) ==
    {i \in DOMAIN notes : /\ OwnPath(notes, i)
                          /\ FirstId(notes, i)
                          /\ FirstContent(notes, i)}

Contexts(notes) == {i \in ValidNotes(notes) : notes[i].context}

\* The valid Contexts that i names as the one it supersedes, or is replaced by.
Target(notes, i) == {j \in Contexts(notes) : notes[j].id = notes[i].supersedes}

Replacement(notes, i) == {j \in Contexts(notes) : notes[j].id = notes[i].supersededBy}

\* Nothing contradicts the claim of i to supersede its target.
ClaimFits(notes, none, i) ==
    \E j \in Target(notes, i) : notes[j].supersededBy \in {none, notes[i].id}

\* i is the first whose claim on that target fits.
ClaimStands(notes, none, i) ==
    /\ ClaimFits(notes, none, i)
    /\ \A k \in Contexts(notes) :
         k < i /\ notes[k].supersedes = notes[i].supersedes => ~ClaimFits(notes, none, k)

LinksBroken(notes, none, i) ==
    \/ notes[i].supersedes # none /\ ~ClaimStands(notes, none, i)
    \/ /\ notes[i].supersededBy # none
       /\ ~\E j \in Replacement(notes, i) : notes[j].supersedes = notes[i].id

\* A set of Contexts each of which supersedes one of the set holds a circle.
Circular(notes, S) == \A i \in S : Target(notes, i) \cap S # {}

\* Contexts whose chain of targets reaches a broken link or a circle: the least
\* set that holds those and everyone who supersedes a member.
Rejected(notes, none) ==
    LET broken == {i \in Contexts(notes) : LinksBroken(notes, none, i)}
        circles == UNION {S \in SUBSET Contexts(notes) : Circular(notes, S)}
        Closed(S) == \A i \in Contexts(notes) : Target(notes, i) \cap S # {} => i \in S
    IN {i \in Contexts(notes) :
          \A S \in SUBSET Contexts(notes) :
              broken \cup circles \subseteq S /\ Closed(S) => i \in S}

AcceptedNotes(notes, none) == ValidNotes(notes) \ Rejected(notes, none)

=============================================================================
