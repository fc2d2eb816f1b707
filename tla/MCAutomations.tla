---------------------------- MODULE MCAutomations ----------------------------
(* Automations for TLC: two televisions, and the configurations in question. *)
EXTENDS Automations, TLC

CONSTANTS a, b

MCOrder == <<a, b>>
MCCallers == Handlers \cup (Wakers \X Devices)

\* Streams that meet the screen lock.
Locks == {[connect |-> "blank", disconnect |-> "restore", lock |-> "power_off",
           unlock |-> "power_on", wake |-> FALSE, cooldown |-> TRUE],
          [connect |-> "blank", disconnect |-> "on", lock |-> "blank",
           unlock |-> "none", wake |-> FALSE, cooldown |-> TRUE]}

\* Streams that meet key presses.
Keys == {[connect |-> "power_off", disconnect |-> "restore", lock |-> "none",
          unlock |-> "none", wake |-> TRUE, cooldown |-> TRUE]}

\* Key presses with no cooldown and nothing else.
Storm == {[connect |-> "none", disconnect |-> "keep_off", lock |-> "none", unlock |-> "none",
           wake |-> TRUE, cooldown |-> FALSE]}

MCConfigs == Locks \cup Keys \cup Storm

Symmetry == Permutations(Handlers) \cup Permutations(Wakers)
=============================================================================
