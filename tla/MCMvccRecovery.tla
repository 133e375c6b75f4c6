-------------------------- MODULE MCMvccRecovery ---------------------------
(* Model-checking instance of MvccRecovery. *)
EXTENDS MvccRecovery, TLC

Symmetry == Permutations(Trxs) \cup Permutations(Rids)
=============================================================================
