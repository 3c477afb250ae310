---------------------------- MODULE MCRunQueues ----------------------------
EXTENDS RunQueues, TLC

(* The workers are interchangeable. *)
Perms == Permutations(Threads)
=============================================================================
