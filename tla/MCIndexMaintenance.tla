------------------------ MODULE MCIndexMaintenance ------------------------
(* Instances of IndexMaintenance for TLC. *)
EXTENDS IndexMaintenance, TLC

CONSTANTS api, worker, m1, m2, w1, w2

\* The API process runs one maintenance operation and two short writers, the
\* maintenance worker process one operation.
TwoProcesses == m1 :> api @@ w1 :> api @@ w2 :> api @@ m2 :> worker

\* One process: one maintenance operation against two writers that never stop.
OneProcess == m1 :> api @@ w1 :> api @@ w2 :> api

\* Maintenance in the worker process against two writers in the API process.
WritersElsewhere == m1 :> worker @@ w1 :> api @@ w2 :> api
=============================================================================
