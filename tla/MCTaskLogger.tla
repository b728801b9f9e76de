---------------------------- MODULE MCTaskLogger ----------------------------
(* As many batches as logs: the loop never runs out of identities for the
   batches it allocates, even if every timer closes a batch of one. *)
EXTENDS TaskLogger

CONSTANTS l1, l2, l3, l4, b1, b2, b3, b4
=============================================================================
