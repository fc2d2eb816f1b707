-------------------------------- MODULE TvOps --------------------------------
(***************************************************************************)
(* What a DeviceSession promises its callers, for each television: the     *)
(* abstract sessions that the daemon's automations are modelled over.      *)
(*                                                                         *)
(* power_on and unblank share the slot "on", power_off and blank the slot  *)
(* "off".  A call starts its operation or joins the one in its slot and is *)
(* answered with that one's result, whatever it asked for itself.  The two *)
(* slots run side by side: their effects on the panel come in any order.   *)
(***************************************************************************)
EXTENDS FiniteSets

CONSTANTS
  Devices,   \* the managed televisions
  Callers    \* the tasks of the daemon that call their sessions

VARIABLES
  panel,     \* each screen: "lit", "dark" (blanked) or "off" (standby)
  slot,      \* the operation in each slot and, once it has acted, its result
  call       \* what each caller awaits and, once answered, the result

tvVars == <<panel, slot, call>>

Panels == {"lit", "dark", "off"}
Ops == {"power_on", "unblank", "power_off", "blank"}
Slots == {"on", "off"}

\* "nothing" stands for "already-off" and "refused-wrong-input": no TV was found
\* at the other end, or it shows another input than this PC's.
Results == {"on", "off", "blanked", "nothing", "error"}

SlotOf(op) == IF op \in {"power_on", "unblank"} THEN "on" ELSE "off"

Free == [op |-> "none", res |-> "none"]
NotCalling == [to |-> {}, key |-> "none", res |-> "none"]

Calling(c) == call[c] # NotCalling
Waiting(c) == Calling(c) /\ call[c].res = "none"
Answered(c) == call[c].res # "none"

\* c awaits the operation in slot k of device d.
Joined(c, d, k) == Waiting(c) /\ call[c].to = {d} /\ call[c].key = k

\* DeviceSession.busy
busy(d) == \E k \in Slots : slot[d][k] # Free

TvInit ==
  /\ panel \in [Devices -> Panels]
  /\ slot = [d \in Devices |-> [k \in Slots |-> Free]]
  /\ call = [c \in Callers |-> NotCalling]

\* c calls op on d: it starts, or c joins what runs in the slot.
Calls(c, d, op) ==
  LET k == SlotOf(op) IN
  /\ slot' = IF slot[d][k] = Free THEN [slot EXCEPT ![d][k].op = op] ELSE slot
  /\ call' = [call EXCEPT ![c] = [to |-> {d}, key |-> k, res |-> "none"]]
  /\ panel' = panel

\* What an operation may do to a panel p, and what it then returns.  A TV that
\* does not answer counts as off; an error may come after the TV has acted; a TV
\* in standby may acknowledge a wake-up without coming on.  A TV whose power state
\* is not recognised is not blanked, though the answer says so, and turnOff, a
\* toggle, wakes it if it is in standby.
Outcomes(op, p) ==
  {<<p, "error">>} \cup
  CASE op \in {"power_on", "unblank"} ->
         {<<"lit", "on">>, <<"lit", "error">>}
           \cup (IF p = "off" THEN {<<p, "on">>} ELSE {})
    [] op = "blank" ->
         {<<p, "blanked">>, <<p, "nothing">>}
           \cup (IF p = "lit" THEN {<<"dark", "blanked">>, <<"dark", "error">>} ELSE {})
    [] op = "power_off" ->
         {<<"off", "off">>, <<"off", "error">>, <<p, "nothing">>}
           \cup (IF p = "off" THEN {<<"lit", "off">>, <<"lit", "error">>} ELSE {})

\* The operation in slot k reaches the TV, or finds that it cannot.
Acts(d, k) ==
  /\ slot[d][k].op # "none" /\ slot[d][k].res = "none"
  /\ \E o \in Outcomes(slot[d][k].op, panel[d]) :
       /\ panel' = [panel EXCEPT ![d] = o[1]]
       /\ slot' = [slot EXCEPT ![d][k].res = o[2]]
  /\ call' = call

\* This is a step at which the operation in slot k fails, or leaves the panel other
\* than it is meant to, whatever it answers.
Fails(d, k) ==
  /\ slot[d][k].res = "none" /\ slot'[d][k].res # "none"
  /\ slot'[d][k].res = "error" \/ (panel'[d] = "lit" <=> k = "off")

\* It ends, and every caller that awaits it is answered.
Ends(d, k) ==
  /\ slot[d][k].res # "none"
  /\ slot' = [slot EXCEPT ![d][k] = Free]
  /\ call' = [c \in Callers |-> IF Joined(c, d, k)
                                THEN [call[c] EXCEPT !.res = slot[d][k].res] ELSE call[c]]
  /\ panel' = panel

\* c goes on with the result.
Returns(c) == call' = [call EXCEPT ![c] = NotCalling] /\ UNCHANGED <<panel, slot>>

\* c is cancelled while it awaits: so is the operation, for all who await it.
Cancels(c) ==
  /\ slot' = [d \in Devices |-> [k \in Slots |->
                IF Joined(c, d, k) THEN Free ELSE slot[d][k]]]
  /\ call' = [b \in Callers |->
                CASE b = c -> NotCalling
                  [] b # c /\ Waiting(b) /\ call[b] = call[c] ->
                       [call[b] EXCEPT !.res = "cancelled"]
                  [] OTHER -> call[b]]
  /\ panel' = panel

TvSteps == \E d \in Devices, k \in Slots : Acts(d, k) \/ Ends(d, k)

\* Nothing runs on d's session, and nobody has an answer from it to take.
Settled(d) == ~busy(d) /\ \A c \in Callers : d \notin call[c].to

TvTypeOK ==
  /\ panel \in [Devices -> Panels]
  /\ slot \in [Devices -> [Slots -> [op : Ops \cup {"none"}, res : Results \cup {"none"}]]]
  /\ call \in [Callers -> [to : SUBSET Devices, key : Slots \cup {"none"},
                           res : Results \cup {"none", "cancelled"}]]
=============================================================================
