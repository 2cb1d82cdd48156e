--------------------------- MODULE MCManagedSpecs ---------------------------
(* Instances of ManagedSpecs for TLC.                                      *)
EXTENDS ManagedSpecs, TLC

\* The outputs of managed specifications name their envelope.
Provenances == Envelopes \cup {Plain}

Symmetry == Permutations(Prepares) \cup Permutations(Bodies)
=============================================================================
