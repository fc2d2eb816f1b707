---------------------------- MODULE MCSsapClient ----------------------------
(* SsapClient for TLC.                                                      *)
EXTENDS SsapClient, TLC

Symmetry == Permutations(Callers)
=============================================================================
