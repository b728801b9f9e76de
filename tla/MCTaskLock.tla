----------------------------- MODULE MCTaskLock -----------------------------
(* Three workers that compete for one task; w3's renewals may get lost. *)
EXTENDS TaskLock, TLC

CONSTANTS a1, a2, a3, w1, w2, w3, k1

MCAttempts == {a1, a2, a3}
MCKeyOf == [a \in MCAttempts |-> k1]
MCWorkerOf == (a1 :> w1) @@ (a2 :> w2) @@ (a3 :> w3)
=============================================================================
