-------------------------- MODULE MCDownloadClient --------------------------
(* Instances of DownloadClient for TLC: the workers are interchangeable.   *)
EXTENDS DownloadClient, TLC

ThreadSymmetry == Permutations(Threads)
=============================================================================
