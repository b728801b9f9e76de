--------------------------- MODULE MCWorkerCluster ---------------------------
EXTENDS WorkerCluster, TLC

CONSTANTS w1, w2, w3, t1, t2

(* Workers are interchangeable in the runs that check only safety. *)
Symmetric == Permutations(Workers)
=============================================================================
