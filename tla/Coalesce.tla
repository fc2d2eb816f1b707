------------------------------- MODULE Coalesce -------------------------------
(***************************************************************************)
(* DeviceSession._coalesce: concurrent calls of power_on, unblank,         *)
(* power_off and blank on one television share a task per slot.            *)
(*                                                                         *)
(* The module works at the grain at which asyncio schedules callbacks: the *)
(* event loop's ready queue is a FIFO of handles and one step runs the     *)
(* handle at its head to the next suspension.  A task that finishes puts   *)
(* its done-callbacks on the queue in the order they were registered: the  *)
(* one that clears the slot first, then one wake-up per awaiting caller.   *)
(* Between a task's last step and its callbacks the loop may run handles   *)
(* that were already queued, and those may call the session again.         *)
(***************************************************************************)
EXTENDS Naturals, Sequences, FiniteSets

CONSTANTS
  Callers,   \* the coroutines that drive one session (IPC, idle, streams, ...)
  Tasks,     \* identities for the tasks _coalesce creates, reused when free
  NoTask     \* an empty slot, a caller that awaits nothing

ASSUME CoalesceAssumption == NoTask \notin Tasks

Ops == {"power_on", "unblank", "power_off", "blank"}
Slots == {"on", "off"}

\* The key each operation passes to _coalesce.
SlotOf(op) == IF op \in {"power_on", "unblank"} THEN "on" ELSE "off"

VARIABLES
  inflight,  \* DeviceSession._inflight: the task registered under each key
  task,      \* what each task runs and how far it is
  caller,    \* what each caller does
  ready,     \* the event loop's ready queue
  raced      \* history: the keys under which a finished task was overwritten

vars == <<inflight, task, caller, ready, raced>>

-----------------------------------------------------------------------------
Handle == [kind : {"call", "step", "pop", "wake"}, who : Callers \cup Tasks]

CallHandle(c) == [kind |-> "call", who |-> c]
StepHandle(t) == [kind |-> "step", who |-> t]
PopHandle(t)  == [kind |-> "pop", who |-> t]
WakeHandle(c) == [kind |-> "wake", who |-> c]

Queued(h) == \E i \in 1..Len(ready) : ready[i] = h

\* The handle at the head of the queue is h, and this step consumes it.
Runs(h) == ready # <<>> /\ Head(ready) = h

Live(t) == task[t].phase \in {"scheduled", "suspended"}
Done(t) == task[t].phase = "done"

\* No task object: the identity can be used for a new one.
Unborn == [phase |-> "unborn", op |-> "none", cancel |-> FALSE, out |-> "none",
           joined |-> <<>>]

AtRest == [phase |-> "idle", op |-> "none", on |-> NoTask, cancel |-> FALSE]

\* DeviceSession.busy
busy == \E k \in Slots : inflight[k] # NoTask

-----------------------------------------------------------------------------
Init ==
  /\ inflight = [k \in Slots |-> NoTask]
  /\ task = [t \in Tasks |-> Unborn]
  /\ caller = [c \in Callers |-> AtRest]
  /\ ready = <<>>
  /\ raced = {}

\* Something outside (a frame, a signal, a timer) makes coroutine c runnable,
\* and the first thing c will do is call op on the session.
Arrive(c, op) ==
  /\ caller[c].phase = "idle"
  /\ caller' = [caller EXCEPT ![c] = [@ EXCEPT !.phase = "calling", !.op = op]]
  /\ ready' = Append(ready, CallHandle(c))
  /\ UNCHANGED <<inflight, task, raced>>

\* c's `await self._coalesce(...)` on task t: c is a done-callback of t.
Awaits(c, t) == caller' = [caller EXCEPT ![c] = [@ EXCEPT !.phase = "awaiting", !.on = t]]

\* Mutant of Registered: every call starts a task of its own.
NeverRegistered(k) == FALSE

\* A task runs under the key.
Registered(k) == inflight[k] # NoTask /\ ~Done(inflight[k])

\* The key still holds a finished task: its callback has not run yet.
Stale(k) == inflight[k] # NoTask /\ Done(inflight[k])

\* _coalesce with a task running under the key: join it.
Join(c) ==
  LET k == SlotOf(caller[c].op) IN
  /\ Runs(CallHandle(c))
  /\ Registered(k)
  /\ task' = [task EXCEPT ![inflight[k]].joined = Append(@, c)]
  /\ Awaits(c, inflight[k])
  /\ ready' = Tail(ready)
  /\ UNCHANGED <<inflight, raced>>

\* _coalesce with no task, or a finished one, under the key: start another.
Launch(c, t) ==
  LET k == SlotOf(caller[c].op) IN
  /\ Runs(CallHandle(c))
  /\ ~Registered(k)
  /\ task[t] = Unborn
  /\ task' = [task EXCEPT ![t] = [phase |-> "scheduled", op |-> caller[c].op,
                                  cancel |-> FALSE, out |-> "none",
                                  joined |-> <<c>>]]
  /\ inflight' = [inflight EXCEPT ![k] = t]
  /\ Awaits(c, t)
  /\ ready' = Append(Tail(ready), StepHandle(t))
  /\ raced' = IF Stale(k) THEN raced \cup {k} ELSE raced

\* One step of the operation's coroutine that ends in an await on the network,
\* a lock or a timer (also while a cancelled coroutine cleans up).
Suspend(t) ==
  /\ Runs(StepHandle(t))
  /\ task' = [task EXCEPT ![t].phase = "suspended"]
  /\ ready' = Tail(ready)
  /\ UNCHANGED <<inflight, caller, raced>>

Callbacks(t) ==
  <<PopHandle(t)>>
    \o [i \in 1..Len(task[t].joined) |-> WakeHandle(task[t].joined[i])]

\* Mutant of Finish: a cancelled task never ends.
FinishUnlessCancelled(t, out) ==
  /\ Runs(StepHandle(t))
  /\ ~task[t].cancel /\ out # "cancelled"
  /\ task' = [task EXCEPT ![t] = [@ EXCEPT !.phase = "done", !.out = out]]
  /\ ready' = Tail(ready) \o Callbacks(t)
  /\ UNCHANGED <<inflight, caller, raced>>

\* The step on which the coroutine returns or raises: its done-callbacks are
\* scheduled, in the order they were added.
Finish(t, out) ==
  /\ Runs(StepHandle(t))
  /\ (out = "cancelled") = task[t].cancel
  /\ task' = [task EXCEPT ![t] = [@ EXCEPT !.phase = "done", !.out = out]]
  /\ ready' = Tail(ready) \o Callbacks(t)
  /\ UNCHANGED <<inflight, caller, raced>>

\* What the operation awaited has come: a reply, a timeout, the lock.
Resume(t) ==
  /\ task[t].phase = "suspended"
  /\ task' = [task EXCEPT ![t].phase = "scheduled"]
  /\ ready' = Append(ready, StepHandle(t))
  /\ UNCHANGED <<inflight, caller, raced>>

\* Mutant of Popped: the slot is cleared only after a success.
PoppedOnSuccess(t) == IF task[t].out = "ok"
                      THEN [inflight EXCEPT ![SlotOf(task[t].op)] = NoTask]
                      ELSE inflight

\* The slot-clearing callback removes whatever is registered under the key.
Popped(t) == [inflight EXCEPT ![SlotOf(task[t].op)] = NoTask]

ClearSlot(t) ==
  /\ Runs(PopHandle(t))
  /\ inflight' = Popped(t)
  /\ ready' = Tail(ready)
  /\ UNCHANGED <<task, caller, raced>>

\* c resumes with the outcome of the task it awaited, or with its own
\* cancellation.  The last to resume drops the last reference to the task.
Wake(c) ==
  LET t == caller[c].on IN
  /\ Runs(WakeHandle(c))
  /\ caller' = [caller EXCEPT ![c] = AtRest]
  /\ task' = IF \E d \in Callers \ {c} : caller[d].on = t
             THEN task ELSE [task EXCEPT ![t] = Unborn]
  /\ ready' = Tail(ready)
  /\ UNCHANGED <<inflight, raced>>

\* c's own task is cancelled (reload() and stop() cancel the idle loop, the
\* topology loop): cancelling a task that awaits another cancels the other.
Cancel(c) ==
  LET t == caller[c].on IN
  /\ caller[c].phase = "awaiting"
  /\ IF Done(t)
     THEN /\ ~caller[c].cancel
          /\ caller' = [caller EXCEPT ![c].cancel = TRUE]
          /\ UNCHANGED <<task, ready>>
     ELSE /\ ~task[t].cancel
          /\ task' = [task EXCEPT ![t] = [@ EXCEPT !.phase = "scheduled", !.cancel = TRUE]]
          /\ ready' = IF task[t].phase = "suspended"
                      THEN Append(ready, StepHandle(t)) ELSE ready
          /\ UNCHANGED caller
  /\ UNCHANGED <<inflight, raced>>

RunCall(c) == Join(c) \/ \E t \in Tasks : Launch(c, t)

RunStep(t) == Suspend(t) \/ \E out \in {"ok", "error", "cancelled"} : Finish(t, out)

Next ==
  \/ \E c \in Callers, op \in Ops : Arrive(c, op)
  \/ \E c \in Callers : RunCall(c) \/ Wake(c) \/ Cancel(c)
  \/ \E t \in Tasks : RunStep(t) \/ Resume(t) \/ ClearSlot(t)

\* The loop runs what is ready; whatever a task awaits comes or times out; and
\* an operation awaits finitely often (its attempts and polls are bounded).
Fairness ==
  /\ \A c \in Callers : WF_vars(RunCall(c)) /\ WF_vars(Wake(c))
  /\ \A t \in Tasks : /\ WF_vars(RunStep(t)) /\ WF_vars(ClearSlot(t))
                      /\ WF_vars(Resume(t))
                      /\ SF_vars(\E out \in {"ok", "error", "cancelled"} : Finish(t, out))

Spec == Init /\ [][Next]_vars

FairSpec == Spec /\ Fairness

-----------------------------------------------------------------------------
TaskState == [phase : {"unborn", "scheduled", "suspended", "done"},
              op : Ops \cup {"none"}, cancel : BOOLEAN,
              out : {"none", "ok", "error", "cancelled"}, joined : Seq(Callers)]

CallerState == [phase : {"idle", "calling", "awaiting"}, op : Ops \cup {"none"},
                on : Tasks \cup {NoTask}, cancel : BOOLEAN]

\* The types, and what the records mean: who awaits which task (a caller that
\* awaits nothing could never be resumed), and that only a finished task has
\* an outcome.
TypeOK ==
  /\ inflight \in [Slots -> Tasks \cup {NoTask}]
  /\ task \in [Tasks -> TaskState]
  /\ caller \in [Callers -> CallerState]
  /\ ready \in Seq(Handle)
  /\ raced \in SUBSET Slots
  /\ \A c \in Callers : /\ caller[c].phase = "awaiting" <=> caller[c].on # NoTask
                        /\ caller[c].phase = "idle" => caller[c] = AtRest
  /\ \A t \in Tasks : Done(t) <=> task[t].out # "none"

\* What the comment in DeviceSession.__init__ promises: a second call never
\* runs beside the first.  The code does not keep it (see the README).
SingleFlight ==
  \A t, u \in Tasks :
    Live(t) /\ Live(u) /\ SlotOf(task[t].op) = SlotOf(task[u].op) => t = u

\* The exact extent of the promise: as long as no call has come between a
\* task's last step and its callback, the one running task of a key is the one
\* registered under it, so that later calls join it and `busy` covers it.
SingleFlightUnlessRaced ==
  \A t \in Tasks :
    Live(t) /\ SlotOf(task[t].op) \notin raced => inflight[SlotOf(task[t].op)] = t

\* A finished task is registered only until its callback runs: a key is never
\* left holding a task nobody will remove.
NoWedgedSlot ==
  \A k \in Slots :
    inflight[k] # NoTask /\ Done(inflight[k]) =>
      \E t \in Tasks : SlotOf(task[t].op) = k /\ Queued(PopHandle(t))

\* Types; no key held by a task that has ended, so that a failed or cancelled operation
\* does not answer the calls to come; and later calls join what runs but for that race.
Inv == TypeOK /\ NoWedgedSlot /\ SingleFlightUnlessRaced

\* Every call of the session's operations returns or raises.
EveryCallAnswered ==
  \A c \in Callers : (caller[c].phase # "idle") ~> (caller[c].phase = "idle")

\* The session does not stay busy on its own: a wake on input, which is skipped
\* while any key is taken, is not locked out.
BusyEnds == busy ~> (~busy \/ \E c \in Callers : caller[c].phase = "calling")

-----------------------------------------------------------------------------
(* What callers see                                                        *)

RunningIn(k) == IF Registered(k) THEN task[inflight[k]].op ELSE "none"
DoomedIn(k) == Registered(k) /\ task[inflight[k]].cancel

\* A caller is answered as soon as its task is done, or when it is cancelled after that.
Seen(c) ==
  IF caller[c].phase # "awaiting" THEN [key |-> "none", res |-> "none"]
  ELSE [key |-> SlotOf(task[caller[c].on].op),
        res |-> IF caller[c].cancel THEN "cancelled" ELSE task[caller[c].on].out]

RunningSeen == [k \in Slots |-> RunningIn(k)]
DoomedSeen == [k \in Slots |-> DoomedIn(k)]
CallSeen == [c \in Callers |-> Seen(c)]

Promise == INSTANCE SharedCall WITH running <- RunningSeen, doomed <- DoomedSeen, call <- CallSeen

\* _coalesce keeps the promise of SharedCall as long as no call has come between a
\* task's last step and its callback: the callers of a slot share one operation and its
\* one outcome, whatever joins, failures and cancellations there are.
KeepsPromise ==
  Promise!Init /\ [][raced' = {} => [Promise!Next]_(Promise!sharedVars)]_vars
=============================================================================
