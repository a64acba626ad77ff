--------------------------- MODULE MCJobPipeline ---------------------------
(* JobPipeline on a small instance; the worker goroutines are interchangeable. *)
EXTENDS JobPipeline, TLC

WorkerSymmetry == Permutations(Workers)
=============================================================================
