----------------------------- MODULE MCMvccTrx -----------------------------
(* Model-checking instance of MvccTrx: interchangeable objects and slots. *)
EXTENDS MvccTrx, TLC

Symmetry == Permutations(Trxs) \cup Permutations(Rids)
=============================================================================
