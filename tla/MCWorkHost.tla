------------------------------ MODULE MCWorkHost ------------------------------
(* Small instances of WorkHost. *)
EXTENDS WorkHost, TLC

Symmetry == Permutations(Ids)
=============================================================================
