---------------------------- MODULE MCNoteWrite ----------------------------
(* Instances of NoteWrite for TLC.                                         *)
EXTENDS NoteWrite

CONSTANT Mixes    \* the workloads of the run, by name

Workload(commands, requests, initial, removable, overlap, crashes) ==
    [commands |-> commands, requests |-> requests, initial |-> initial,
     removable |-> removable, overlap |-> overlap, crashes |-> crashes]

Named ==
  [cas |-> Workload({SaveIf(1, b, t, NoId) : b, t \in {1, 3}}
                    \cup {SaveIf(2, 4, 2, 1), Reindex},
                    3, {1, 2}, {}, TRUE, TRUE),
   casArchive |-> Workload({SaveIf(1, 2, 1, NoId), Archive(1)}, 2, {1}, {}, TRUE, FALSE),
   saves |-> Workload({Save(1, 1, NoId), Save(1, 2, NoId)}, 2, {1}, {}, TRUE, FALSE),
   late |-> Workload({Save(1, 1, NoId), Save(1, 2, NoId), Reindex}, 3, {1}, {}, TRUE, FALSE),
   replace |-> Workload({Save(2, 3, 1), Save(3, 4, 1)}, 2, {1}, {}, TRUE, FALSE),
   heal |-> Workload({Save(2, 3, 1), Save(2, 4, NoId), Repair(1, 4), Archive(NewId(1)),
                      Supersede(1, NewId(1)), Reindex},
                     3, {1}, {1, 2}, FALSE, TRUE),
   archive |-> Workload({Save(2, 3, 1), Archive(NewId(1)), Reindex}, 3, {1}, {}, FALSE, TRUE),
   finish |-> Workload({Save(1, 3, 2), Save(2, 4, 1), SaveIf(1, 3, 1, NoId), Archive(1),
                        Supersede(1, 2), Repair(2, 4), Reindex}, 2, {1, 2}, {1}, TRUE, FALSE),
   error |-> Workload({Save(1, 2, NoId), Save(2, 2, NoId), Save(2, 3, NoId), Reindex},
                      4, {1}, {}, FALSE, TRUE)]

MCWorkloads == {Named[m] : m \in Mixes}

=============================================================================
