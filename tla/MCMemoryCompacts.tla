-------------------------- MODULE MCMemoryCompacts --------------------------
(* Instance of MemoryCompacts for TLC.                                     *)
EXTENDS MemoryCompacts, TLC

Symmetry == Permutations(Requests) \cup Permutations(Drafts)
                                   \cup Permutations(RequestIds)
=============================================================================
