----------------------------- MODULE MCWorkQueue -----------------------------
(* Instances of WorkQueue for TLC.                                         *)
EXTENDS WorkQueue, TLC

WorkerSymmetry == Permutations(Worker)
=============================================================================
