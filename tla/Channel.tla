------------------------------- MODULE Channel -------------------------------
(***************************************************************************)
(* What ssap/client.py promises to its callers: a connection that is       *)
(* opened once and never comes back, over which each request ends once,    *)
(* with the television's answer to this very request or with an error.     *)
(***************************************************************************)
CONSTANT Callers

VARIABLES
  phase,  \* "new", "up" or "down": what SsapClient.connected tells
  call    \* what has become of each caller's latest request

cvars == <<phase, call>>

Calls == {"new", "asked", "handled", "answered", "failed"}

ChannelTypeOK == phase \in {"new", "up", "down"} /\ call \in [Callers -> Calls]

Asking(c) == call[c] \in {"asked", "handled"}

Init == phase = "new" /\ call = [c \in Callers |-> "new"]

Opens == phase = "new" /\ phase' = "up" /\ UNCHANGED call

GoesDown == phase' = "down" /\ UNCHANGED call

Asks(c) ==
  /\ phase = "up" /\ ~Asking(c)
  /\ call' = [call EXCEPT ![c] = "asked"]
  /\ UNCHANGED phase

\* The television has answered; the caller does not know it yet.
Handles(c) ==
  /\ call[c] = "asked" /\ call' = [call EXCEPT ![c] = "handled"]
  /\ UNCHANGED phase

Answers(c) ==
  /\ call[c] = "handled" /\ call' = [call EXCEPT ![c] = "answered"]
  /\ UNCHANGED phase

\* A request that is refused at once, that times out or whose connection is lost.
Fails(c) == call' = [call EXCEPT ![c] = "failed"] /\ UNCHANGED phase

Next == Opens \/ GoesDown \/ \E c \in Callers : Asks(c) \/ Handles(c) \/ Answers(c) \/ Fails(c)

Spec == Init /\ [][Next]_cvars
=============================================================================
