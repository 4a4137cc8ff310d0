------------------------------ MODULE MCSessions ------------------------------
(* Sessions on a small instance: the callers are interchangeable. *)
EXTENDS Sessions, TLC

Symmetry == Permutations(Caller)
===============================================================================
