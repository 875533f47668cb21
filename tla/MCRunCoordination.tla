------------------------ MODULE MCRunCoordination ------------------------
(* Two workers, two shards: the smallest run with a sibling. *)
EXTENDS RunCoordination, TLC

CONSTANTS w1, w2

MCWorkers == {w1, w2}
WorkerSymmetry == Permutations(MCWorkers)
=============================================================================
