------------------------- MODULE MCWorkerRegistry --------------------------
(* Instances of WorkerRegistry for TLC. *)
EXTENDS WorkerRegistry, TLC

CONSTANTS w1, w2

OneWorker == {w1}
TwoWorkers == {w1, w2}
WorkerSymmetry == Permutations(TwoWorkers)
=============================================================================
