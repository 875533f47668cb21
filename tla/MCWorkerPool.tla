--------------------------- MODULE MCWorkerPool ---------------------------
(* Two pool workers and two launches, the least that can collide. *)
EXTENDS WorkerPool, TLC

CONSTANTS w1, w2, r1, r2

MCWorkers    == {w1, w2}
MCRuns       == {r1, r2}
PoolSymmetry == Permutations(MCWorkers) \cup Permutations(MCRuns)
=============================================================================
