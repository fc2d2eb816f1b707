----------------------------- MODULE MCCoalesce -----------------------------
(* Coalesce for TLC: the constants are model values given in the cfg files. *)
EXTENDS Coalesce, TLC

Symmetry == Permutations(Tasks) \cup Permutations(Callers)
=============================================================================
