---------------------------- MODULE MCPowerEvents ----------------------------
(* PowerEvents for TLC.                                                     *)
EXTENDS PowerEvents, TLC

Symmetry == Permutations(Handlers) \cup Permutations(Inhibitors)
=============================================================================
