------------------------- MODULE ReaderWriterLease -------------------------
(***************************************************************************)
(* What the index maintenance lane promises to the code that runs inside   *)
(* it, whatever process that code runs in: any number of short writers, or *)
(* one maintenance operation alone.  IndexMaintenance implements this.     *)
(***************************************************************************)
CONSTANT Tasks

VARIABLE holds      \* holds[t]: the mode in which task t runs its body

Modes == {"shared", "exclusive"}

TypeOK == holds \in [Tasks -> Modes \cup {"none"}]

Init == holds = [t \in Tasks |-> "none"]

GrantShared(t) ==
    /\ holds[t] = "none"
    /\ \A u \in Tasks : holds[u] # "exclusive"
    /\ holds' = [holds EXCEPT ![t] = "shared"]

GrantExclusive(t) ==
    /\ \A u \in Tasks : holds[u] = "none"
    /\ holds' = [holds EXCEPT ![t] = "exclusive"]

\* A set of tasks leaves: one that finished, or all those of a dead process.
Leave(S) ==
    holds' = [t \in Tasks |-> IF t \in S THEN "none" ELSE holds[t]]

Next ==
    \/ \E t \in Tasks : GrantShared(t) \/ GrantExclusive(t)
    \/ \E S \in SUBSET Tasks : Leave(S)

Spec == Init /\ [][Next]_holds

=============================================================================
