----------------------------- MODULE MCTopology -----------------------------
(* Topology for TLC: two TVs, of which one or both drop hot-plug.           *)
EXTENDS Topology
CONSTANTS a, b
TwoTvs == <<a, b>>
=============================================================================
