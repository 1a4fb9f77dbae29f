------------------------------ MODULE MCRWLock ------------------------------
(* Instances of RWLock for TLC: a few threads, all alike. *)
EXTENDS RWLock, TLC

ThreadSymmetry == Permutations(Threads)

=============================================================================
