------------------------------- MODULE MCSync -------------------------------
(* Sync with two locks and one condition variable on the first.            *)
EXTENDS Sync

CONSTANTS l1, l2, c1

LockOfMC == (c1 :> l1)

=============================================================================
