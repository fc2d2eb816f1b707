------------------------------ MODULE Automations ------------------------------
(***************************************************************************)
(* The daemon's reactions to what the session agent and scripts report:    *)
(* a remote stream that starts or ends (daemon/streams.py), the screen     *)
(* lock (daemon/main.py: _on_lock), and a key press while the TV may be    *)
(* off (daemon/wake.py, main.py: _wake_if_tv_off), over several abstract   *)
(* televisions.                                                            *)
(*                                                                         *)
(* Every report starts a task of its own.  A stream's or a lock's task     *)
(* goes through the televisions one after another and waits for each; a    *)
(* wake-up probes all of them at once and then wakes those that need it.   *)
(* Nothing keeps the tasks apart: they meet in the televisions' slots.     *)
(***************************************************************************)
EXTENDS Naturals, Sequences, SequencesExt, TvOps

CONSTANTS
  Order,      \* the managed televisions, one at least, in the configuration's order
  Handlers,   \* the tasks of streams and locks that run at a time (bound)
  Wakers,     \* the wake-up tasks that exist at a time (bound)
  Configs     \* the configurations: what each report does, if anything

ASSUME AutomationsAssumption ==
  /\ Order \in Seq(Devices) /\ ToSet(Order) = Devices /\ IsInjective(Order)
  /\ Order # <<>>
  /\ Callers = Handlers \cup (Wakers \X Devices)
  /\ Handlers \cap (Wakers \X Devices) = {}
  /\ Configs \subseteq [connect : {"none", "blank", "power_off"},
                        disconnect : {"on", "keep_off", "restore"},
                        lock : {"none", "blank", "power_off"},
                        unlock : {"none", "power_on"},
                        wake : BOOLEAN, cooldown : BOOLEAN]

VARIABLES
  conf,                 \* the configuration
  streaming, touched,   \* StreamController.streaming, ._touched
  locked,               \* what the agent last reported of the screen lock
  handler,              \* each stream's or lock's task: its kind, what is left
  waker,                \* each wake-up task: where it is, what it has seen
  wish,                 \* history: the last decision about each TV, lit or not
  changed,              \* history: the lit TVs that this stream was told it darkened
  excuse                \* history: what may keep the last decision from winning

control == <<streaming, touched, locked, handler>>
history == <<wish, changed, excuse>>
vars == <<tvVars, conf, control, waker, history>>

-----------------------------------------------------------------------------
NoTask == [kind |-> "none", todo |-> <<>>, lit |-> FALSE]
NoWake == [at |-> "none", seen |-> [d \in Devices |-> "none"]]

Active(h) == handler[h] # NoTask
Wakes(w) == waker[w] # NoWake

Darkening == {"connect", "lock"}
Lighting == {"disconnect", "unlock", "wake"}

\* Something runs that works in the opposite direction.
Opposed(kind) ==
  \/ \E h \in Handlers : Active(h) /\
       (handler[h].kind \in Darkening <=> kind \in Lighting)
  \/ kind \in Darkening /\ \E w \in Wakers : Wakes(w)

Quiet ==
  /\ \A h \in Handlers : ~Active(h)
  /\ \A w \in Wakers : ~Wakes(w)
  /\ \A d \in Devices : Settled(d)

\* All is quiet and nothing that went wrong is still to show: the next event
\* starts from the televisions as they are.
Fresh == Quiet /\ (streaming => touched = changed)

\* Bound: once the last decision may not win, no event comes until all is quiet.
MayHappen == excuse = {} \/ Quiet

Lit(d) == IF panel[d] = "lit" THEN "lit" ELSE "dark"

\* An event of this kind: from now on the televisions in ds should be p.
Decides(kind, ds, p) ==
  /\ wish' = [d \in Devices |-> IF d \in ds THEN p ELSE IF Fresh THEN Lit(d) ELSE wish[d]]
  /\ excuse' = (IF Fresh THEN {} ELSE excuse)
                 \cup (IF Opposed(kind) THEN {"crossed"} ELSE {})

Init ==
  /\ TvInit
  /\ conf \in Configs
  /\ streaming = FALSE /\ touched = {} /\ locked = FALSE
  /\ handler = [h \in Handlers |-> NoTask]
  /\ waker = [w \in Wakers |-> NoWake]
  /\ wish = [d \in Devices |-> Lit(d)]
  /\ changed = {} /\ excuse = {}

\* The televisions do what was asked of them, refuse it, fail, or say that they did.
TvStep ==
  /\ TvSteps
  /\ excuse' = excuse \cup
       (IF \E d \in Devices, k \in Slots : Fails(d, k) THEN {"failure"} ELSE {})
  /\ UNCHANGED <<conf, control, waker, wish, changed>>

-----------------------------------------------------------------------------
(* A task that goes through the televisions                                *)

\* An event that is about the televisions in ds starts a task.
Spawns(h, kind, ds) ==
  /\ handler' = [handler EXCEPT ![h] = [kind |-> kind, todo |-> Order, lit |-> FALSE]]
  /\ Decides(kind, ds, IF kind \in Darkening THEN "dark" ELSE "lit")

\* The operation that h's task asks of each television.
OpOf(h) ==
  CASE handler[h].kind = "connect" -> conf.connect
    [] handler[h].kind = "lock" -> conf.lock
    [] handler[h].kind \in Lighting -> "power_on"

\* Mutant of Changing: the two results are mixed up.
ChangingSwapped(op) == IF op = "power_off" THEN "blanked" ELSE "off"

\* What the operation returns when it counts as a change made by the stream.
Changing(op) == IF op = "power_off" THEN "off" ELSE "blanked"

\* The stream left this television alone.
Untouched(h, d) ==
  handler[h].kind = "disconnect" /\ conf.disconnect = "restore" /\ d \notin touched

CallsNext(h) ==
  LET d == Head(handler[h].todo) IN
  /\ Active(h) /\ ~Calling(h) /\ ~Untouched(h, d)
  /\ Calls(h, d, OpOf(h))
  /\ handler' = [handler EXCEPT ![h].lit = (panel[d] = "lit")]
  /\ excuse' = excuse \cup
       (IF slot[d][SlotOf(OpOf(h))].op \notin {"none", OpOf(h)} THEN {"joined"} ELSE {})
  /\ UNCHANGED <<conf, streaming, touched, locked, waker, wish, changed>>

\* h's task goes on to the next television or ends; t is what _touched is by now.
Advances(h, t) ==
  LET todo == Tail(handler[h].todo) IN
  /\ handler' = [handler EXCEPT ![h] = IF todo = <<>> THEN NoTask
                                       ELSE [@ EXCEPT !.todo = todo]]
  /\ touched' = IF todo = <<>> /\ handler[h].kind = "disconnect" THEN {} ELSE t

SkipsUntouched(h) ==
  /\ Active(h) /\ ~Calling(h) /\ Untouched(h, Head(handler[h].todo))
  /\ Advances(h, touched)
  /\ UNCHANGED <<tvVars, conf, streaming, locked, waker, history>>

\* Mutant of Touches: whatever the operation returned.
TouchesAll(h) == touched \cup {Head(handler[h].todo)}

\* on_connect notes a television as changed if the operation returned so.
Touches(h) ==
  IF handler[h].kind = "connect" /\ call[h].res = Changing(OpOf(h))
  THEN touched \cup {Head(handler[h].todo)} ELSE touched

\* The answer: a result, or an error that is logged.
TakesAnswer(h) ==
  LET d == Head(handler[h].todo)
      r == call[h].res
      stream == handler[h].kind = "connect" IN
  /\ Answered(h) /\ Returns(h)
  /\ Advances(h, Touches(h))
  /\ changed' = IF stream /\ r \in {"off", "blanked"} /\ handler[h].lit
                THEN changed \cup {d} ELSE changed
  /\ excuse' = excuse \cup
       (IF stream /\ r = Changing(OpOf(h)) /\ ~handler[h].lit THEN {"already dark"} ELSE {})
  /\ UNCHANGED <<conf, streaming, locked, waker, wish>>

-----------------------------------------------------------------------------
(* Reports of the agent, and scripts                                       *)

StreamConnects(h) ==
  /\ MayHappen /\ ~streaming /\ ~Active(h)
  /\ streaming' = TRUE /\ touched' = {} /\ changed' = {}
  /\ IF conf.connect = "none"       \* remote_stream.enabled is false
     THEN UNCHANGED <<handler, wish, excuse>>
     ELSE Spawns(h, "connect", Devices)
  /\ UNCHANGED <<tvVars, conf, locked, waker>>

StreamDisconnects(h) ==
  /\ MayHappen /\ streaming /\ ~Active(h)
  /\ streaming' = FALSE /\ changed' = {}
  /\ IF conf.connect = "none" \/ conf.disconnect = "keep_off"
     THEN UNCHANGED <<handler, wish, excuse>>
     ELSE Spawns(h, "disconnect", IF conf.disconnect = "restore" THEN changed ELSE Devices)
  /\ UNCHANGED <<tvVars, conf, touched, locked, waker>>

LockChanges(h) ==
  /\ MayHappen /\ ~Active(h)
  /\ locked' = ~locked
  /\ IF (IF locked' THEN conf.lock ELSE conf.unlock) = "none"
     THEN UNCHANGED <<handler, wish, excuse>>
     ELSE Spawns(h, IF locked' THEN "lock" ELSE "unlock", Devices)
  /\ UNCHANGED <<tvVars, conf, streaming, touched, waker, changed>>

-----------------------------------------------------------------------------
(* Wake on input                                                           *)

\* WakeOnInput._busy: set by the task itself, once it runs.
WakeBusy == \E w \in Wakers : waker[w].at = "probing"

\* _on_report passes on a key press only between streams and operations.
ReportWakes == ~streaming /\ \A d \in Devices : ~busy(d)

\* The last attempt is cooldown_s ago: never before its task has run, unless the
\* cooldown is zero; at any time after that.
Cooled == conf.cooldown => \A w \in Wakers : waker[w].at # "spawned"

\* Mutant of MayNotify: no single flight.
MayNotifyOnceCooled == Cooled

\* notify_input's own gate.
MayNotify == Cooled /\ ~WakeBusy

\* A key press, reported by the agent or seen by the daemon's own monitor
\* (_on_event, which asks nobody).
KeyPress(w, source) ==
  /\ MayHappen /\ conf.wake /\ ~Wakes(w) /\ MayNotify
  /\ source = "agent" => ReportWakes
  /\ waker' = [waker EXCEPT ![w].at = "spawned"]
  /\ Decides("wake", {}, "lit")
  /\ UNCHANGED <<tvVars, conf, control, changed>>

\* _wake_if_tv_off: the televisions that no operation runs on are probed.
WakeStarts(w) ==
  /\ waker[w].at = "spawned"
  /\ waker' = [waker EXCEPT ![w] =
       IF \A d \in Devices : busy(d) THEN NoWake
       ELSE [at |-> "probing",
             seen |-> [d \in Devices |-> IF busy(d) THEN "spared" ELSE "probed"]]]
  /\ UNCHANGED <<tvVars, conf, control, history>>

\* A television found to be Active, or with a rejected key, is spared; one that
\* does not answer in time is not.
ProbeAnswers(w, d) ==
  /\ waker[w].seen[d] = "probed"
  /\ \E v \in {"spared", "needed"} :
       /\ waker' = [waker EXCEPT ![w].seen[d] = v]
       /\ excuse' = excuse \cup
            (IF v = "spared" <=> panel[d] # "lit" THEN {"failure"} ELSE {})
  /\ UNCHANGED <<tvVars, conf, control, wish, changed>>

WakeCalls(w, d) ==
  /\ waker[w].seen[d] = "needed"
  /\ \A e \in Devices : waker[w].seen[e] # "probed"
  /\ Calls(<<w, d>>, d, "power_on")
  /\ waker' = [waker EXCEPT ![w].seen[d] = "called"]
  /\ wish' = [wish EXCEPT ![d] = "lit"]
  /\ UNCHANGED <<conf, control, changed, excuse>>

WakeAnswered(w, d) ==
  /\ Answered(<<w, d>>) /\ Returns(<<w, d>>)
  /\ waker' = [waker EXCEPT ![w].seen[d] = "spared"]
  /\ UNCHANGED <<conf, control, history>>

WakeEnds(w) ==
  /\ waker[w].at = "probing" /\ \A d \in Devices : waker[w].seen[d] = "spared"
  /\ waker' = [waker EXCEPT ![w] = NoWake]
  /\ UNCHANGED <<tvVars, conf, control, history>>

-----------------------------------------------------------------------------
HandlerSteps(h) == CallsNext(h) \/ SkipsUntouched(h) \/ TakesAnswer(h)

WakerSteps(w) ==
  \/ WakeStarts(w) \/ WakeEnds(w)
  \/ \E d \in Devices : ProbeAnswers(w, d) \/ WakeCalls(w, d) \/ WakeAnswered(w, d)

Next ==
  \/ TvStep
  \/ \E h \in Handlers : HandlerSteps(h) \/ StreamConnects(h) \/ StreamDisconnects(h)
                           \/ LockChanges(h)
  \/ \E w \in Wakers : WakerSteps(w) \/ \E s \in {"agent", "local"} : KeyPress(w, s)

Spec == Init /\ [][Next]_vars

-----------------------------------------------------------------------------
TypeOK ==
  /\ TvTypeOK /\ conf \in Configs
  /\ streaming \in BOOLEAN /\ touched \subseteq Devices /\ locked \in BOOLEAN
  /\ changed \subseteq Devices
  /\ handler \in [Handlers -> [kind : {"none"} \cup Darkening \cup Lighting,
                               todo : Seq(Devices), lit : BOOLEAN]]
  /\ waker \in [Wakers -> [at : {"none", "spawned", "probing"},
        seen : [Devices -> {"none", "probed", "spared", "needed", "called"}]]]
  /\ wish \in [Devices -> {"lit", "dark"}]
  /\ excuse \subseteq {"crossed", "failure", "joined", "already dark"}
  /\ \A h \in Handlers : /\ Active(h) <=> handler[h].todo # <<>>
                         /\ Calling(h) => Active(h)
  /\ \A w \in Wakers, d \in Devices : Calling(<<w, d>>) <=> waker[w].seen[d] = "called"

\* Once all is quiet, each television is as the last event meant it to be,
\* unless an operation failed or left the panel other than it answered, or tasks
\* working in opposite directions overlapped, or one was answered with another's
\* result, or the stream found it dark.
LastWordWins ==
  Quiet => \A d \in Devices :
             (panel[d] = "lit" <=> wish[d] = "lit")
               \/ excuse \cap {"crossed", "failure", "joined", "already dark"} # {}

\* What the stream was told it has darkened it will light again: it is remembered
\* until the stream ends.  An earlier stream's end, still under way, forgets it, and
\* so does a result meant for the lock's other operation in the same slot.
RestoreRemembers ==
  Quiet /\ streaming /\ conf.lock \in {"none", conf.connect} =>
    changed \subseteq touched \/ "crossed" \in excuse

\* One wake-up at a time: no television is probed and woken by two at once.  A
\* cooldown of zero does not keep that: the flag is set only when the task runs.
OneWakeAtATime ==
  \A v, w \in Wakers : Wakes(v) /\ Wakes(w) => v = w \/ ~conf.cooldown

\* Types, who is operating on which TV, and one wake-up at a time.
Inv == TypeOK /\ OneWakeAtATime

\* docs/external-api.md: "While a stream is connected, wake-on-input is suspended".
\* The daemon's own monitor does not know of the stream.
WakeSuspended ==
  [][ \A w \in Wakers : Wakes(w)' /\ ~Wakes(w) => ~streaming ]_vars
=============================================================================
