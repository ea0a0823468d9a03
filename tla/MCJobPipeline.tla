--------------------------- MODULE MCJobPipeline ---------------------------
(* JobPipeline on small instances. *)
EXTENDS JobPipeline, TLC

CONSTANTS w1, w2

OneWorker == {w1}
TwoWorkers == {w1, w2}
WorkerSymmetry == Permutations(TwoWorkers)

\* Warm-up and full run only, with workers that need no scaling: the interplay of
\* two benchmarks.
BenchmarkPlan == <<"Partial1", "Full">>

\* Scaling and one benchmark: everything the handler does.
TinyPlan == <<"Scaling", "Full">>

============================================================================
