--------------------------- MODULE MCWorkerManager ---------------------------
(* Bounded instances of WorkerManager. *)
EXTENDS WorkerManager, TLC

\* Tasks are interchangeable; only runs without liveness use it.
TaskSymmetry == Permutations(Tasks)
=============================================================================
