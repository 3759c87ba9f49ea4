-------------------------- MODULE MCManagedRepository --------------------------
(* TLC instances of ManagedRepository: see the .cfg files. *)
EXTENDS ManagedRepository, TLC

Symmetric == Permutations(Proc) \cup Permutations(Change)
=============================================================================
