------------------------- MODULE MCMaintenanceQueue -------------------------
(* Instances of MaintenanceQueue for TLC. *)
EXTENDS MaintenanceQueue, TLC

CONSTANTS batch, reindex, j1, j2, j3, c1, c2

\* Jobs and consumers are interchangeable.
Symmetry == Permutations(Jobs) \cup Permutations(Consumers)
=============================================================================
