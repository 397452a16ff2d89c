--------------------------- MODULE MCThreadQueues ---------------------------
(* ThreadQueues with the threads, and the lists, interchangeable.          *)
EXTENDS ThreadQueues, TLC

Symmetry == Permutations(Thread) \cup Permutations(WaitQueue)

=============================================================================
