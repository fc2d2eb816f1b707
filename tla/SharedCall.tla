----------------------------- MODULE SharedCall -----------------------------
(***************************************************************************)
(* What DeviceSession._coalesce promises to those who call a session: each *)
(* slot runs one operation at a time, whoever calls while it runs shares   *)
(* it, all of them get its one outcome, at once, and only a cancellation   *)
(* of one of them cancels it.                                              *)
(***************************************************************************)
CONSTANTS
  Callers,   \* the coroutines that drive one session
  Slots,     \* the keys of operations that are shared
  Ops,       \* the operations
  SlotOf(_)  \* the key of each

VARIABLES
  running,  \* the operation in each slot, or "none"
  doomed,   \* one of those who share the slot's operation has been cancelled
  call      \* for which slot each caller waits, and what it is answered

sharedVars == <<running, doomed, call>>

NoCall == [key |-> "none", res |-> "none"]
WaitsFor(k) == [key |-> k, res |-> "none"]
Outcomes == {"ok", "error", "cancelled"}

Init ==
  /\ running = [k \in Slots |-> "none"] /\ doomed = [k \in Slots |-> FALSE]
  /\ call = [c \in Callers |-> NoCall]

\* c shares what runs in the slot, even if that is not what it asks for.
Shares(c, op) ==
  /\ call[c] = NoCall /\ running[SlotOf(op)] # "none"
  /\ call' = [call EXCEPT ![c] = WaitsFor(SlotOf(op))]
  /\ UNCHANGED <<running, doomed>>

Starts(c, op) ==
  /\ call[c] = NoCall /\ running[SlotOf(op)] = "none"
  /\ call' = [call EXCEPT ![c] = WaitsFor(SlotOf(op))]
  /\ running' = [running EXCEPT ![SlotOf(op)] = op]
  /\ UNCHANGED doomed

\* The operation ends, and with it the waiting of all who share it.
Ends(k, out) ==
  /\ running[k] # "none" /\ (out = "cancelled") = doomed[k]
  /\ running' = [running EXCEPT ![k] = "none"] /\ doomed' = [doomed EXCEPT ![k] = FALSE]
  /\ call' = [c \in Callers |-> IF call[c] = WaitsFor(k) THEN [key |-> k, res |-> out] ELSE call[c]]

\* c is cancelled while it waits: so is the operation, as soon as it can end.
Dooms(c, k) ==
  /\ call[c] = WaitsFor(k) /\ doomed' = [doomed EXCEPT ![k] = TRUE]
  /\ UNCHANGED <<running, call>>

\* c is cancelled between the outcome and its own next step.
CancelledLate(c) ==
  /\ call[c].res # "none" /\ call' = [call EXCEPT ![c].res = "cancelled"]
  /\ UNCHANGED <<running, doomed>>

Returns(c) ==
  /\ call[c].res # "none" /\ call' = [call EXCEPT ![c] = NoCall]
  /\ UNCHANGED <<running, doomed>>

Next ==
  \/ \E c \in Callers, op \in Ops : Shares(c, op) \/ Starts(c, op)
  \/ \E c \in Callers : CancelledLate(c) \/ Returns(c) \/ \E k \in Slots : Dooms(c, k)
  \/ \E k \in Slots, out \in Outcomes : Ends(k, out)
=============================================================================
