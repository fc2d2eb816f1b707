---------------------------- MODULE DeviceSession ----------------------------
(***************************************************************************)
(* One television's session in the daemon: DeviceSession (devices.py), the *)
(* power state machine it runs (ssap/power.py), and the part of SsapClient *)
(* it depends on: when a client counts as connected and what happens to    *)
(* requests in flight when it is closed.                                   *)
(*                                                                         *)
(* The processes are the coroutines that use the session at one time: the  *)
(* operation in the "on" slot (power_on, unblank), the one in the "off"    *)
(* slot (power_off, blank), a command being executed, the wake-on-input    *)
(* probe and the keepalive task.  A step runs a coroutine from one await   *)
(* to the next.  A second call for a taken slot joins it and changes       *)
(* nothing here; how callers share a slot is the subject of Coalesce.      *)
(***************************************************************************)
EXTENDS Naturals, Sequences

CONSTANTS
  Clients,    \* identities of SsapClient objects, reused when unreferenced
  NoClient,   \* a coroutine that uses no client
  Attempts,   \* cfg.retry_attempts
  Polls,      \* how often power_on polls before its timeout (bound)
  Modes,      \* the values persistent_connection takes over reloads
  Scenarios   \* which of the coroutines below are in use together

ASSUME SessionAssumption ==
  /\ Clients \subseteq Nat /\ NoClient \notin Clients
  /\ Attempts \in Nat \ {0} /\ Polls \in Nat \ {0}
  /\ Modes \subseteq {"off", "keep_open", "keepalive"}
  /\ Scenarios \subseteq SUBSET {"on", "off", "exec", "probe", "reload"}

Procs == {"on", "off", "exec", "probe", "keepalive"}
Connecting == {"on", "off", "exec"}      \* those that call connect()
PowerStates == {"Active", "Screen Off", "Active Standby"}

VARIABLES
  tv,           \* the television's power state ("Off": no network)
  magic,        \* a Wake-on-LAN packet is on its way
  users,        \* the features in use: who calls the session in this behaviour
  mode,         \* cfg.persistent_connection, hot-applied by reload
  ws,           \* each client's socket: what SsapClient._ws refers to
  cur,          \* DeviceSession.client
  lock,         \* DeviceSession._lock: its holder, then its waiters in order
  proc          \* each coroutine: where it is and what it holds

vars == <<tv, magic, users, mode, ws, cur, lock, proc>>

-----------------------------------------------------------------------------
(* A coroutine: its await, its operation, the client it captured, its      *)
(* retry or poll count, its request's progress and the last answer.        *)
Idle == [at |-> "idle", op |-> "none", cl |-> NoClient, n |-> 0,
         req |-> "none", seen |-> "none"]

\* SsapClient.connected: true from the handshake on, so also while registering.
connected(c) == ws[c] # "none"

Busy(p) == proc[p].at # "idle"

\* DeviceSession.busy
busy == Busy("on") \/ Busy("off")

wakes(p) == p = "on"

attempts(p) == IF p = "off" THEN 1 ELSE Attempts

\* The client that _new_client returns: one that nothing refers to.
Unused(c) == c # cur /\ ws[c] = "none" /\ \A p \in Procs : proc[p].cl # c

NewClients == {c \in Clients : Unused(c) /\ \A d \in Clients : Unused(d) => c <= d}

\* The reader's exit: every request waiting on the client's socket fails.  A
\* client that is still registering has no reader, and nobody fails those.
Lost(f, closed) ==
  [p \in Procs |-> IF /\ f[p].cl \in closed /\ ws[f[p].cl] = "open"
                      /\ f[p].req \in {"sent", "handled"}
                   THEN [f[p] EXCEPT !.req = "broken"] ELSE f[p]]

\* The loop runs what is ready before a network round trip completes.
Settled == \A p \in Procs : proc[p].req # "broken"

\* p's coroutine goes on to await the answer to request `ask` on client c.
Asks(p, c, ask) ==
  [proc[p] EXCEPT !.at = ask, !.cl = c,
                  !.req = IF connected(c) THEN "sent" ELSE "broken",
                  !.seen = "none"]

Init ==
  /\ tv \in PowerStates \cup {"Off"}
  /\ magic = FALSE
  /\ users \in Scenarios
  /\ mode \in Modes
  /\ ws = [c \in Clients |-> "none"]
  /\ cur \in Clients /\ \A c \in Clients : cur <= c
  /\ lock = <<>>
  /\ proc = [p \in Procs |-> Idle]

-----------------------------------------------------------------------------
(* The television and the network                                          *)

\* What the TV does with a request.  turnOff is a toggle in Active Standby.
Effect(ask) ==
  CASE ask \in {"toggle", "turnOff"} ->
         IF tv = "Active Standby" THEN "Active" ELSE "Active Standby"
    [] ask \in {"screenOn", "unblank"} /\ tv = "Screen Off" -> "Active"
    [] ask = "screenOff" /\ tv = "Active" -> "Screen Off"
    [] OTHER -> tv

\* What it answers: getPowerState may name a state the code does not know, and
\* the foreground app is the PC's input or another.
Answers(ask) ==
  CASE ask \in {"getState", "reread", "poll", "ping", "ask"} -> {tv, "Unknown"}
    [] ask = "guard" -> {"pc", "other"}
    [] OTHER -> {"done"}

TvHandles(p) ==
  /\ proc[p].req = "sent" /\ ws[proc[p].cl] = "open" /\ tv # "Off"
  /\ tv' = Effect(proc[p].at)
  /\ \E v \in Answers(proc[p].at) :
       proc' = [proc EXCEPT ![p].req = "handled",
                            ![p].seen = IF v = "done" THEN @ ELSE v]
  /\ UNCHANGED <<magic, users, mode, ws, cur, lock>>

\* A magic packet wakes a TV that listens for one, or is lost.
MagicArrives ==
  /\ magic /\ magic' = FALSE
  /\ \/ tv \in {"Off", "Active Standby"} /\ tv' = "Active"
     \/ tv' = tv
  /\ UNCHANGED <<users, mode, ws, cur, lock, proc>>

\* The user's remote, and the TV's own deep standby.
Remote ==
  /\ \/ tv' \in {"Active", "Active Standby"}
     \/ tv = "Active Standby" /\ tv' = "Off"
  /\ UNCHANGED <<magic, users, mode, ws, cur, lock, proc>>

\* A registered connection is lost: the reader ends (_read_loop's finally).
Drop(c) ==
  /\ ws[c] = "open" /\ Settled
  /\ ws' = [ws EXCEPT ![c] = "none"]
  /\ proc' = Lost(proc, {c})
  /\ UNCHANGED <<tv, magic, users, mode, cur, lock>>

-----------------------------------------------------------------------------
(* How an operation leaves the session                                     *)

Without(p) == [proc EXCEPT ![p] = Idle]

\* SsapClient.close on the session's current client, f being the coroutines.
ClosesCurrent(f) ==
  /\ ws' = [ws EXCEPT ![cur] = "none"]
  /\ proc' = Lost(f, {cur})

\* disconnect(): the keepalive task is cancelled, then the client closed.
Disconnects(p) == ClosesCurrent([Without(p) EXCEPT !["keepalive"] = Idle])

StartsKeepalive(p) ==
  /\ ws' = ws
  /\ proc' = IF Busy("keepalive") THEN Without(p)
             ELSE [Without(p) EXCEPT !["keepalive"].at = "sleep"]

\* Mutant of Settles: every operation ends by disconnecting.
SettlesByDisconnecting(p) == Disconnects(p)

\* settle(): the persistent-connection policy.
Settles(p) ==
  CASE mode = "off" -> Disconnects(p)
    [] mode = "keepalive" -> StartsKeepalive(p)
    [] mode = "keep_open" -> ws' = ws /\ proc' = Without(p)

\* An exception leaves the operation: only a command's `finally` settles.
Raises(p) == IF p = "exec" THEN Settles(p) ELSE ws' = ws /\ proc' = Without(p)

-----------------------------------------------------------------------------
(* connect(): the lock, the attempts, Wake-on-LAN, the registration        *)

Start(p, op) ==
  /\ p \in users /\ ~Busy(p)
  /\ proc' = [proc EXCEPT ![p].at = "lock", ![p].op = op]
  /\ lock' = Append(lock, p)
  /\ UNCHANGED <<tv, magic, users, mode, ws, cur>>

Request ==
  \/ \E op \in {"power_on", "unblank"} : Start("on", op)
  \/ \E op \in {"power_off", "blank"} : Start("off", op)
  \/ Start("exec", "request")

\* What the operation asks first, once connected.
FirstAsk(p) == CASE proc[p].op = "unblank" -> "unblank"
                 [] proc[p].op = "request" -> "request"
                 [] OTHER -> "getState"

Holds(p) == lock # <<>> /\ Head(lock) = p

\* The lock is free for p and the session is connected already.
Reuses(p) ==
  /\ proc[p].at = "lock" /\ Holds(p)
  /\ connected(cur)
  /\ lock' = Tail(lock)
  /\ proc' = [proc EXCEPT ![p] = Asks(p, cur, FirstAsk(p))]
  /\ UNCHANGED <<tv, magic, users, mode, ws, cur>>

\* Mutant of MayDial: a connected session dials again.
MayDialAlways(p) == proc[p].at = "lock"

MayDial(p) == proc[p].at = "lock" /\ ~connected(cur)

\* An attempt: a new client object replaces the session's, and dials.
Dials(p, c, n) ==
  /\ cur' = c
  /\ proc' = [proc EXCEPT ![p].at = "dial", ![p].cl = c, ![p].n = n]

FirstAttempt(p, c) ==
  /\ Holds(p) /\ MayDial(p)
  /\ Dials(p, c, 1)
  /\ magic' = (magic \/ wakes(p))
  /\ UNCHANGED <<tv, users, mode, ws, lock>>

NextAttempt(p, c) ==
  /\ proc[p].at = "backoff"
  /\ Dials(p, c, proc[p].n + 1)
  /\ UNCHANGED <<tv, magic, users, mode, ws, lock>>

\* The transport is up: from here on the client counts as connected.
DialOk(p) ==
  /\ proc[p].at = "dial" /\ tv # "Off" /\ Settled
  /\ ws' = [ws EXCEPT ![proc[p].cl] = "registering"]
  /\ proc' = [proc EXCEPT ![p].at = "register"]
  /\ UNCHANGED <<tv, magic, users, mode, cur, lock>>

\* The TV accepts the key: connect() returns and the operation begins.
RegisterOk(p) ==
  LET c == proc[p].cl IN
  /\ proc[p].at = "register" /\ tv # "Off" /\ Settled
  /\ ws[c] = "registering"
  /\ ws' = [ws EXCEPT ![c] = "open"]
  /\ lock' = Tail(lock)
  /\ proc' = [proc EXCEPT ![p] = [Asks(p, c, FirstAsk(p)) EXCEPT !.n = 0]]
  /\ UNCHANGED <<tv, magic, users, mode, cur>>

\* The attempt failed (refused, timed out, the standby close, or the client
\* was closed meanwhile): back off and try again, or give up.
AttemptFails(p) ==
  LET last == proc[p].n >= attempts(p) IN
  /\ proc[p].at \in {"dial", "register"}
  /\ ws' = [ws EXCEPT ![proc[p].cl] = "none"]
  /\ proc' = IF last THEN Without(p)
             ELSE [proc EXCEPT ![p].at = "backoff", ![p].cl = NoClient]
  /\ lock' = IF last THEN Tail(lock) ELSE lock
  /\ magic' = (magic \/ (~last /\ wakes(p) /\ proc[p].n % 2 = 1))
  /\ UNCHANGED <<tv, users, mode, cur>>

\* The TV prompts although a key was sent, or refuses: KeyRejected, no retry.
KeyRejected(p) ==
  /\ proc[p].at = "register" /\ ws[proc[p].cl] = "registering"
  /\ ws' = [ws EXCEPT ![proc[p].cl] = "none"]
  /\ proc' = Without(p)
  /\ lock' = Tail(lock)
  /\ UNCHANGED <<tv, magic, users, mode, cur>>

-----------------------------------------------------------------------------
(* The operations, once connected                                          *)

\* p goes on to its next request; its client is the one it captured.
Continues(p, ask) ==
  /\ ws' = ws
  /\ proc' = [proc EXCEPT ![p] = Asks(p, proc[p].cl, ask)]

\* _power_on's and _unblank's answers.
OnAnswered ==
  LET s == proc["on"].seen IN
  /\ proc["on"].req = "handled"
  /\ \/ /\ proc["on"].at = "getState"
        /\ Continues("on", CASE s = "Active" -> "launch"
                             [] s = "Active Standby" -> "toggle"
                             [] OTHER -> "screenOn")
     \/ /\ proc["on"].at = "screenOn" /\ Continues("on", "reread")
     \/ /\ \/ proc["on"].at = "toggle"
           \/ proc["on"].at = "poll" /\ s # "Active" /\ proc["on"].n < Polls
        /\ proc' = [proc EXCEPT !["on"].at = "pollWait", !["on"].req = "none",
                                 !["on"].seen = "none"]
        /\ ws' = ws
     \/ /\ \/ proc["on"].at = "reread"
           \/ proc["on"].at = "poll" /\ (s = "Active" \/ proc["on"].n >= Polls)
        /\ Continues("on", "launch")
     \/ /\ proc["on"].at \in {"launch", "unblank"}
        /\ Settles("on")
  /\ UNCHANGED <<tv, magic, users, mode, cur, lock>>

\* Mutant of PollAgain: the poll has no deadline.
PollAgainUncounted ==
  /\ proc["on"].at = "pollWait"
  /\ proc' = [proc EXCEPT !["on"] = Asks("on", proc["on"].cl, "poll")]
  /\ UNCHANGED <<tv, magic, users, mode, ws, cur, lock>>

PollAgain ==
  /\ proc["on"].at = "pollWait"
  /\ proc' = [proc EXCEPT !["on"] = [Asks("on", proc["on"].cl, "poll")
                                      EXCEPT !.n = @ + 1]]
  /\ UNCHANGED <<tv, magic, users, mode, ws, cur, lock>>

\* The request that darkens the TV, once state and guard allow it.
Darkens(op) == IF op = "power_off" THEN "turnOff" ELSE "screenOff"

\* power_off ends by disconnecting, blank by settling.
OffEnds(op) == IF op = "power_off" THEN Disconnects("off") ELSE Settles("off")

\* Nothing to do: a TV already dark enough counts as done.
DarkEnough(op, s) ==
  IF op = "power_off" THEN s = "Active Standby" ELSE s # "Active"

\* _power_off's and _blank's answers.
OffAnswered ==
  LET op == proc["off"].op
      s == proc["off"].seen IN
  /\ proc["off"].req = "handled"
  /\ \/ /\ proc["off"].at = "getState" /\ DarkEnough(op, s)
        /\ OffEnds(op)
     \/ /\ proc["off"].at = "getState" /\ ~DarkEnough(op, s)
        /\ Continues("off", "guard")
     \/ /\ proc["off"].at = "guard" /\ s = "pc"
        /\ Continues("off", Darkens(op))
     \/ /\ \/ proc["off"].at = "guard" /\ s # "pc"    \* refused-wrong-input
           \/ proc["off"].at \in {"turnOff", "screenOff"}
        /\ OffEnds(op)
  /\ UNCHANGED <<tv, magic, users, mode, cur, lock>>

ExecAnswered ==
  /\ proc["exec"].req = "handled"
  /\ Settles("exec")
  /\ UNCHANGED <<tv, magic, users, mode, cur, lock>>

\* A request of an operation times out or its connection is lost.  A failed
\* foreground query counts as "unknown" and lets the guard pass.
OperationFails(p) ==
  /\ proc[p].req # "none"
  /\ IF proc[p].at = "guard" THEN Continues(p, Darkens(proc[p].op)) ELSE Raises(p)
  /\ UNCHANGED <<tv, magic, users, mode, cur, lock>>

\* p gives up the lock, or its place in the lock's queue, if it has one.
LeavesLock(p) ==
  IF \E i \in 1..Len(lock) : lock[i] = p
  THEN LET at == CHOOSE i \in 1..Len(lock) : lock[i] = p
       IN lock' = [i \in 1..(Len(lock) - 1) |-> IF i < at THEN lock[i] ELSE lock[i + 1]]
  ELSE lock' = lock

\* Mutant of Cancelled: a cancelled connect() keeps the lock.
CancelledKeepingLock(p) ==
  /\ Busy(p)
  /\ ws' = IF proc[p].at = "register" THEN [ws EXCEPT ![proc[p].cl] = "none"] ELSE ws
  /\ proc' = Without(p)
  /\ UNCHANGED <<tv, magic, users, mode, cur, lock>>

\* The operation's task is cancelled (through one of its callers): the lock,
\* or the place in its queue, is given up; a registration in progress is closed.
Cancelled(p) ==
  /\ Busy(p)
  /\ ws' = IF proc[p].at = "register" THEN [ws EXCEPT ![proc[p].cl] = "none"] ELSE ws
  /\ proc' = Without(p)
  /\ LeavesLock(p)
  /\ UNCHANGED <<tv, magic, users, mode, cur>>

-----------------------------------------------------------------------------
(* The keepalive task and the wake-on-input probe                          *)

KeepaliveTick ==
  /\ proc["keepalive"].at = "sleep"
  /\ IF connected(cur)
     THEN proc' = [proc EXCEPT !["keepalive"] = Asks("keepalive", cur, "ping")]
     ELSE proc' = Without("keepalive")
  /\ UNCHANGED <<tv, magic, users, mode, ws, cur, lock>>

KeepaliveAnswered ==
  /\ proc["keepalive"].req = "handled"
  /\ proc' = [proc EXCEPT !["keepalive"] = [Idle EXCEPT !.at = "sleep"]]
  /\ UNCHANGED <<tv, magic, users, mode, ws, cur, lock>>

\* The ping failed: the session's client, whichever it is by now, is closed.
KeepaliveFails ==
  /\ proc["keepalive"].req # "none"
  /\ ClosesCurrent(Without("keepalive"))
  /\ UNCHANGED <<tv, magic, users, mode, cur, lock>>

\* _wake_if_tv_off picks the session when no operation runs on it; the probe
\* itself is a task of its own and starts on a later turn of the loop.
ProbeStarts ==
  /\ "probe" \in users /\ ~busy /\ ~Busy("probe")
  /\ proc' = [proc EXCEPT !["probe"].at = "start"]
  /\ UNCHANGED <<tv, magic, users, mode, ws, cur, lock>>

ProbeLooks ==
  /\ proc["probe"].at = "start"
  /\ proc' = [proc EXCEPT !["probe"] = IF connected(cur) THEN Asks("probe", cur, "ask")
                                       ELSE [@ EXCEPT !.at = "throwaway"]]
  /\ UNCHANGED <<tv, magic, users, mode, ws, cur, lock>>

NoWakeStates == {"Active", "KeyRejected"}

\* The probe's verdict: power the TV on, or join the operation already doing so.
Verdict(f, st) ==
  IF st \in NoWakeStates \/ Busy("on") THEN proc' = f /\ lock' = lock
  ELSE /\ proc' = [f EXCEPT !["on"] = [Idle EXCEPT !.at = "lock", !.op = "power_on"]]
       /\ lock' = Append(lock, "on")

ProbeAnswered ==
  /\ proc["probe"].req = "handled"
  /\ Verdict(Without("probe"), proc["probe"].seen)
  /\ UNCHANGED <<tv, magic, users, mode, ws, cur>>

\* No answer within PROBE_TIMEOUT, or the connection was lost.
ProbeFails ==
  /\ proc["probe"].req # "none"
  /\ ws' = [ws EXCEPT ![cur] = "none"]
  /\ Verdict(Lost(Without("probe"), {cur}), "Unreachable")
  /\ UNCHANGED <<tv, magic, users, mode, cur>>

\* The probe of a session that is not connected, on a client of its own.
ProbeThrowaway ==
  /\ proc["probe"].at = "throwaway"
  /\ \/ \E st \in {"Unreachable", "KeyRejected"} : Verdict(Without("probe"), st)
     \/ tv # "Off" /\ Verdict(Without("probe"), tv)
  /\ UNCHANGED <<tv, magic, users, mode, ws, cur>>

\* reload() hot-applies persistent_connection.
Reload ==
  /\ "reload" \in users
  /\ \E m \in Modes : m # mode /\ mode' = m
  /\ UNCHANGED <<tv, magic, users, ws, cur, lock, proc>>

-----------------------------------------------------------------------------
Connects(p) ==
  \/ Reuses(p) \/ DialOk(p) \/ RegisterOk(p) \/ AttemptFails(p) \/ KeyRejected(p)
  \/ \E c \in NewClients : FirstAttempt(p, c) \/ NextAttempt(p, c)

Environment == MagicArrives \/ Remote \/ Reload \/ \E c \in Clients : Drop(c)

OnSteps == Connects("on") \/ OperationFails("on") \/ OnAnswered \/ PollAgain
OffSteps == Connects("off") \/ OperationFails("off") \/ OffAnswered
ExecSteps == Connects("exec") \/ OperationFails("exec") \/ ExecAnswered
KeepaliveSteps == KeepaliveTick \/ KeepaliveAnswered \/ KeepaliveFails
ProbeSteps == ProbeLooks \/ ProbeAnswered \/ ProbeFails \/ ProbeThrowaway

Next ==
  \/ Request \/ ProbeStarts \/ Environment
  \/ \E p \in Procs : TvHandles(p)
  \/ OnSteps \/ OffSteps \/ ExecSteps \/ KeepaliveSteps \/ ProbeSteps
  \/ \E p \in {"on", "off"} : Cancelled(p)

Spec == Init /\ [][Next]_vars

\* Each await ends: by what was awaited or by its timeout.  Nobody has to call
\* the session, the TV has to answer nothing, and no connection has to last.
Fairness == WF_vars(OnSteps) /\ WF_vars(OffSteps) /\ WF_vars(ExecSteps)
              /\ WF_vars(ProbeSteps)

FairSpec == Spec /\ Fairness

-----------------------------------------------------------------------------
Awaits == {"idle", "lock", "dial", "register", "backoff", "pollWait", "sleep",
           "start", "throwaway", "getState", "screenOn", "toggle", "poll",
           "reread", "launch", "unblank", "guard", "turnOff", "screenOff",
           "request", "ping", "ask"}

ProcState ==
  [at : Awaits,
   op : {"none", "power_on", "unblank", "power_off", "blank", "request"},
   cl : Clients \cup {NoClient}, n : 0..Attempts \cup 0..Polls,
   req : {"none", "sent", "handled", "broken"},
   seen : PowerStates \cup {"none", "Unknown", "pc", "other"}]

\* The types, and the bound on the retries and polls one operation makes.
TypeOK ==
  /\ users \in Scenarios
  /\ tv \in PowerStates \cup {"Off"}
  /\ magic \in BOOLEAN
  /\ mode \in Modes
  /\ ws \in [Clients -> {"none", "registering", "open"}]
  /\ cur \in Clients
  /\ lock \in Seq(Connecting)
  /\ proc \in [Procs -> ProcState]

\* The session never loses track of a socket: whatever is retried, cancelled,
\* settled or closed by another coroutine, only the current client can have one.
OneSocket == \A c \in Clients : connected(c) => c = cur

\* The lock's queue is exactly the coroutines inside connect(), each once,
\* however they get there and leave it (a result, an exception, a cancellation),
\* and only its head dials or registers, on the session's own client.
InConnect == {"lock", "dial", "register", "backoff"}

LockProtectsConnect ==
  /\ \A p \in Procs : proc[p].at \in InConnect <=> \E i \in 1..Len(lock) : lock[i] = p
  /\ \A i, j \in 1..Len(lock) : lock[i] = lock[j] => i = j
  /\ \A p \in Procs :
       /\ proc[p].at \in {"dial", "register", "backoff"} => Holds(p)
       /\ proc[p].at \in {"dial", "register"} => proc[p].cl = cur

\* Types, and the lock that survives every way out of connect().
Inv == TypeOK /\ LockProtectsConnect

\* A request in flight is cut short by another coroutine only under the "off"
\* policy, by a power_off that disconnects, or by a ping or probe that failed:
\* no other operation that ends takes a connection away from one still running.
RequestsKeepConnection ==
  [][ (\E p \in Procs : proc[p].req \in {"sent", "handled"} /\ proc'[p].req = "broken")
        => \/ mode = "off"
           \/ \E c \in Clients : Drop(c)
           \/ proc["off"].op = "power_off" /\ OffAnswered
           \/ KeepaliveFails \/ ProbeFails ]_vars

\* The docstring of probe_power_state: "side-effect-free (a concurrent
\* connect()/keepalive is undisturbed)".  The code does not keep it.
ProbeUndisturbing ==
  [][ ProbeSteps => \A p \in Connecting :
        proc[p].at = "register" /\ connected(proc[p].cl) => ws'[proc[p].cl] # "none" ]_vars

\* Every operation of the session and every probe ends, whatever the television
\* and the network do.
OperationsEnd == \A p \in {"on", "off", "exec", "probe"} : Busy(p) ~> ~Busy(p)
=============================================================================
