------------------------------ MODULE MCPromise ------------------------------
(* Small instances of Promise. *)
EXTENDS Promise, TLC

PromisesOrValues == {"value"} \cup Promises

(* Sound where every promise starts bare: no Scheduled, Cooperative ... *)
Symmetry == Permutations(Continuations) \cup Permutations(Promises)
=============================================================================
