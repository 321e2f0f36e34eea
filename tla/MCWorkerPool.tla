---------------------------- MODULE MCWorkerPool ----------------------------
(* Instances of WorkerPool for TLC: the workers are interchangeable.       *)
EXTENDS WorkerPool, TLC

ThreadSymmetry == Permutations(Threads)
=============================================================================
