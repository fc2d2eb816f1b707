------------------------------ MODULE MCInputs ------------------------------
(* Inputs for TLC.                                                          *)
EXTENDS Inputs

CONSTANTS a, b
=============================================================================
