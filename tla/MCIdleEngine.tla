----------------------------- MODULE MCIdleEngine -----------------------------
(* IdleEngine for TLC.                                                       *)
EXTENDS IdleEngine

MCWakers == {"w1"}
MCCallers == MCWakers \cup {"loop", "ipc"}
=============================================================================
