------------------------- MODULE MCVerifiedWrites -------------------------
(* Instances of VerifiedWrites for TLC.                                    *)
EXTENDS VerifiedWrites, TLC

Symmetry == Permutations(Keys) \cup Permutations(RelateKeys) \cup Permutations(Bodies)
=============================================================================
