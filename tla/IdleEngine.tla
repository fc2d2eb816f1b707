------------------------------ MODULE IdleEngine ------------------------------
(***************************************************************************)
(* The idle engine (daemon/idle.py) with its vetoes (daemon/vetoes.py), the *)
(* blank and unblank actions it drives (daemon/main.py) and what the       *)
(* session agent reports to it, over one abstract television.              *)
(*                                                                         *)
(* The processes are the engine's loop, the tasks that notify_activity     *)
(* spawns, and an IPC handler running userIdle, userBusy or reload.  Time  *)
(* is counted in ticks: how long the user has been quiet, and how old the  *)
(* last session report is.                                                 *)
(***************************************************************************)
EXTENDS Naturals, TvOps

CONSTANTS
  Tv,           \* the television
  Wakers,       \* the tasks notify_activity has running at a time (bound: one)
  Timeout,      \* the idle timeout, in ticks
  Ttl           \* AGENT_REPORT_TTL, in ticks

ASSUME IdleAssumption ==
  /\ Devices = {Tv}
  /\ Timeout \in Nat \ {0} /\ Ttl \in Nat \ {0}
  /\ Callers = Wakers \cup {"loop", "ipc"} /\ {"loop", "ipc"} \cap Wakers = {}

VARIABLES
  is_idle, forced,   \* IdleEngine.is_idle, ._forced_idle
  quiet,             \* ticks since ._last_activity
  loop,              \* where the engine's loop task is
  waker,             \* where each _go_busy task is
  heard, age,        \* VetoEngine._agent_state, ticks since ._agent_stamp
  rest,              \* history: ticks since the user last stirred or was woken for
  during,            \* history: what came in while the vetoes were being checked
  excuse             \* history: what may leave the panel dark with nobody idle

engine == <<is_idle, forced, quiet, loop, waker>>
report == <<heard, age>>
history == <<rest, during, excuse>>
vars == <<tvVars, engine, report, history>>

-----------------------------------------------------------------------------
Fresh == age <= Ttl

\* VetoEngine.check as far as the agent's report goes.
Vetoed == Fresh /\ heard

Init ==
  /\ TvInit /\ panel[Tv] = "lit"
  /\ is_idle = FALSE /\ forced = FALSE /\ quiet = 0
  /\ loop = "sleep" /\ waker = [w \in Wakers |-> "none"]
  /\ heard = FALSE /\ age = Ttl + 1
  /\ rest = 0 /\ during = {} /\ excuse = {}

Tick ==
  /\ quiet' = IF quiet < Timeout THEN quiet + 1 ELSE quiet
  /\ age' = IF age <= Ttl THEN age + 1 ELSE age
  /\ rest' = IF rest < Timeout THEN rest + 1 ELSE rest
  /\ UNCHANGED <<tvVars, is_idle, forced, loop, waker, heard, during, excuse>>

-----------------------------------------------------------------------------
(* The television, as far as the engine is concerned                       *)

\* The two slots run at once.
Overlap == \A k \in Slots : slot[Tv][k] # Free

TvStep ==
  /\ TvSteps
  /\ excuse' = excuse \cup (IF Overlap THEN {"overlap"} ELSE {})
                      \cup (IF \E k \in Slots : slot'[Tv][k].res = "error"
                            THEN {"failure"} ELSE {})
  /\ UNCHANGED <<engine, report, rest, during>>

-----------------------------------------------------------------------------
(* The engine                                                              *)

\* Its _go_idle: nothing if idle already, else the TV is blanked.
GoIdle(c) ==
  IF is_idle THEN UNCHANGED <<tvVars, is_idle>>
  ELSE is_idle' = TRUE /\ Calls(c, Tv, "blank")

\* The user stirs, or the TV is lit for the user.
Stirred == rest' = 0 /\ during' = during \cup {"stirred"}

\* Mutant of GoBusy: waking does not restart the timer.
GoBusyKeepingTimer(c) ==
  IF is_idle THEN is_idle' = FALSE /\ quiet' = quiet /\ Stirred /\ Calls(c, Tv, "unblank")
  ELSE UNCHANGED <<tvVars, is_idle, quiet, rest, during>>

\* Its _go_busy: nothing if not idle, else the timer restarts and the TV is lit.
GoBusy(c) ==
  IF is_idle THEN is_idle' = FALSE /\ quiet' = 0 /\ Stirred /\ Calls(c, Tv, "unblank")
  ELSE UNCHANGED <<tvVars, is_idle, quiet, rest, during>>

\* The timer has run out and the agent reports nothing: the loop asks logind.
LoopChecks ==
  /\ loop = "sleep" /\ ~is_idle /\ quiet >= Timeout /\ ~Vetoed
  /\ loop' = "checking" /\ during' = {}
  /\ UNCHANGED <<tvVars, is_idle, forced, quiet, waker, report, rest, excuse>>

\* Another process holds an idle inhibitor: try again in a minute.
LoopInhibited ==
  /\ loop = "checking" /\ loop' = "sleep"
  /\ UNCHANGED <<tvVars, is_idle, forced, quiet, waker, report, history>>

LoopGoesIdle ==
  /\ loop = "checking"
  /\ GoIdle("loop")
  /\ loop' = IF is_idle THEN "sleep" ELSE "blanking"
  /\ UNCHANGED <<forced, quiet, waker, report, history>>

\* Mutant of LoopReturns: an error in on_idle ends the loop.
LoopReturnsUnlessError ==
  /\ loop = "blanking" /\ Answered("loop") /\ call["loop"].res # "error"
  /\ Returns("loop") /\ loop' = "sleep"
  /\ UNCHANGED <<is_idle, forced, quiet, waker, report, history>>

\* on_idle has returned, or raised and been logged.
LoopReturns ==
  /\ loop = "blanking" /\ Answered("loop")
  /\ Returns("loop") /\ loop' = "sleep"
  /\ UNCHANGED <<is_idle, forced, quiet, waker, report, history>>

\* Mutant of Spawns: activity ends a forced idle.
SpawnsAlways(w) == is_idle

Spawns(w) == is_idle /\ ~forced

\* notify_activity: restarts the timer, and spawns _go_busy while idle.
Activity(w) ==
  /\ waker[w] = "none"
  /\ quiet' = 0 /\ Stirred
  /\ waker' = IF Spawns(w) THEN [waker EXCEPT ![w] = "ready"] ELSE waker
  /\ UNCHANGED <<tvVars, is_idle, forced, loop, report, excuse>>

WakerRuns(w) ==
  /\ waker[w] = "ready"
  /\ GoBusy(w)
  /\ waker' = [waker EXCEPT ![w] = IF is_idle THEN "unblanking" ELSE "none"]
  /\ UNCHANGED <<forced, loop, report, excuse>>

\* A waker of an engine that reload has replaced: the old engine was idle.
OrphanRuns(w) ==
  /\ waker[w] = "orphan"
  /\ Calls(w, Tv, "unblank")
  /\ waker' = [waker EXCEPT ![w] = "unblanking"]
  /\ UNCHANGED <<is_idle, forced, quiet, loop, report, history>>

WakerReturns(w) ==
  /\ waker[w] = "unblanking" /\ Answered(w)
  /\ Returns(w) /\ waker' = [waker EXCEPT ![w] = "none"]
  /\ UNCHANGED <<is_idle, forced, quiet, loop, report, history>>

-----------------------------------------------------------------------------
(* Commands over IPC                                                       *)

\* userIdle
ForceIdle ==
  /\ ~Calling("ipc")
  /\ forced' = TRUE
  /\ GoIdle("ipc")
  /\ excuse' = excuse \cup (IF \E w \in Wakers : waker[w] = "ready" THEN {"crossed"} ELSE {})
  /\ UNCHANGED <<quiet, loop, waker, report, rest, during>>

\* Mutant of ForceUnidle: userBusy only clears the flags.
ForceUnidleTooEarly ==
  /\ ~Calling("ipc")
  /\ forced' = FALSE /\ is_idle' = FALSE
  /\ UNCHANGED <<tvVars, quiet, loop, waker, report, history>>

\* userBusy
ForceUnidle ==
  /\ ~Calling("ipc")
  /\ forced' = FALSE
  /\ GoBusy("ipc")
  /\ UNCHANGED <<loop, waker, report, excuse>>

IpcReturns ==
  /\ Answered("ipc") /\ Returns("ipc")
  /\ UNCHANGED <<engine, report, history>>

\* reload() replaces the engine: the loop, and what it awaits, is cancelled.
Reload ==
  /\ IF Waiting("loop") THEN Cancels("loop")
     ELSE Returns("loop")
  /\ is_idle' = FALSE /\ forced' = FALSE /\ quiet' = 0 /\ rest' = 0
  /\ loop' = "sleep"
  /\ waker' = [w \in Wakers |-> CASE waker[w] = "ready" /\ is_idle -> "orphan"
                                  [] waker[w] = "ready" /\ ~is_idle -> "none"
                                  [] OTHER -> waker[w]]
  /\ excuse' = excuse \cup (IF is_idle \/ Waiting("loop") THEN {"reload"} ELSE {})
  /\ UNCHANGED <<report, during>>

-----------------------------------------------------------------------------
(* The session and its agent                                               *)

\* The agent's state loop reports a film that starts or ends, once, and the
\* daemon takes the report (update_agent_state).
AgentReports ==
  /\ heard' = ~heard /\ age' = 0
  /\ during' = during \cup {"report"}
  /\ UNCHANGED <<tvVars, engine, rest, excuse>>

\* On connecting again, the agent sends the state it last saw.
AgentReconnects ==
  /\ age' = 0
  /\ during' = during \cup {"report"}
  /\ UNCHANGED <<tvVars, engine, heard, rest, excuse>>

-----------------------------------------------------------------------------
LoopSteps == LoopChecks \/ LoopInhibited \/ LoopGoesIdle \/ LoopReturns

WakerSteps(w) == WakerRuns(w) \/ OrphanRuns(w) \/ WakerReturns(w)

Next ==
  \/ Tick \/ TvStep \/ LoopSteps
  \/ \E w \in Wakers : Activity(w) \/ WakerSteps(w)
  \/ ForceIdle \/ ForceUnidle \/ IpcReturns \/ Reload
  \/ AgentReports \/ AgentReconnects

Spec == Init /\ [][Next]_vars

\* The event loop runs ready tasks, and operations on the TV end (Coalesce and
\* DeviceSession check that they do).
Fairness ==
  /\ WF_vars(LoopSteps) /\ WF_vars(TvStep) /\ WF_vars(IpcReturns)
  /\ \A w \in Wakers : WF_vars(WakerSteps(w))

FairSpec == Spec /\ Fairness

-----------------------------------------------------------------------------
TypeOK ==
  /\ TvTypeOK
  /\ is_idle \in BOOLEAN /\ forced \in BOOLEAN /\ quiet \in 0..Timeout
  /\ loop \in {"sleep", "checking", "blanking"}
  /\ waker \in [Wakers -> {"none", "ready", "orphan", "unblanking"}]
  /\ heard \in BOOLEAN /\ age \in 0..(Ttl + 1)
  /\ rest \in 0..Timeout
  /\ during \subseteq {"stirred", "report"}
  /\ excuse \subseteq {"overlap", "failure", "reload", "crossed"}
  /\ loop = "blanking" <=> Calling("loop")
  /\ \A w \in Wakers : waker[w] = "unblanking" <=> Calling(w)

\* When nothing runs on the TV and the panel is still blanked, the engine knows
\* it: activity will light it again.
DarkIsIdle == Settled(Tv) /\ panel[Tv] = "dark" => is_idle

\* The exact extent of that: what can break it is a blank and an unblank running
\* side by side, a failed operation, or a reload while idle.
DarkIsIdleUnlessExcused == Settled(Tv) /\ panel[Tv] = "dark" => is_idle \/ excuse \ {"crossed"} # {}

\* The overlap alone breaks it: no failure and no reload is needed.  The
\* module's docstring promises that any activity while idle unblanks.
OverlapHarmless == excuse \subseteq {"overlap"} => DarkIsIdle

\* A forced idle holds until it is released, whatever the user does, unless a
\* wake-up was already on its way when it was forced.
ForcedIdleHolds == forced => is_idle \/ "crossed" \in excuse

\* Types, who is operating on the TV, and the forced idle that activity cannot end.
Inv == TypeOK /\ ForcedIdleHolds

\* The loop blanks only after the whole timeout since the user last stirred or
\* was woken for, and only when no fresh report vetoes it, except for what
\* came in while it was waiting for logind's answer.
BlanksOnlyWhenJustified ==
  [][ LoopGoesIdle /\ ~is_idle =>
        /\ rest >= Timeout \/ "stirred" \in during
        /\ ~Vetoed \/ "report" \in during ]_vars

\* Whatever the TV answers, the loop gets back to watching the user.
EngineKeepsWatching == []<>(loop = "sleep")

\* The README: the TV is not blanked while a film plays full-screen.  The
\* agent has reported the film before the vetoes were checked and nothing since.
FilmNotBlanked ==
  [][ LoopGoesIdle /\ ~is_idle => ~heard \/ "report" \in during ]_vars
=============================================================================
