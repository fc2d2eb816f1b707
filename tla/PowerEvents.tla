----------------------------- MODULE PowerEvents -----------------------------
(***************************************************************************)
(* In-daemon power events (daemon/power_events.py) with the actions the    *)
(* daemon hangs on them (daemon/main.py: _power_all, on_resume) and the    *)
(* wait for the network (common/network.py), over one abstract TV.         *)
(*                                                                         *)
(* logind signals that the machine is about to sleep or to halt, and waits *)
(* for the daemon's delay inhibitor, a systemd-inhibit child process, but  *)
(* no longer than InhibitDelayMaxSec.  While the machine sleeps nothing of *)
(* the daemon runs; what was in flight goes on after the resume.           *)
(***************************************************************************)
EXTENDS Naturals, Sequences, SequencesExt, TvOps

CONSTANTS
  Tv,           \* the television
  Handlers,     \* the tasks the signal handlers have running at a time (bound)
  Inhibitors,   \* identities for the inhibitor processes, reused when dead
  NoInhibitor,
  Sleeps        \* how often the machine is put to sleep or gives up a halt (bound)

ASSUME PowerEventsAssumption ==
  /\ Devices = {Tv} /\ Callers = Handlers
  /\ NoInhibitor \notin Inhibitors
  /\ Sleeps \in Nat

VARIABLES
  machine,      \* what logind is doing
  newer,        \* its systemd sends PrepareForShutdownWithMetadata too
  slept,        \* how often it was told to sleep or gave up a halt
  signals,      \* D-Bus signals on their way to the daemon
  net,          \* there is a route to the TV
  handler,      \* where each signal handler's task is
  inhibitor,    \* PowerEvents._inhibitor
  live,         \* the inhibitor processes that run
  sawMetadata,  \* PowerEvents._saw_metadata
  excuse        \* history: what may leave the TV or the inhibitor wrong

system == <<machine, newer, slept, signals, net>>
events == <<handler, inhibitor, live, sawMetadata>>
vars == <<tvVars, system, events, excuse>>

-----------------------------------------------------------------------------
\* The daemon runs: not while the machine sleeps, nor once it or the daemon is
\* gone.
Runs == machine \in {"awake", "preparing", "halting", "rebooting"}

Resting == \A h \in Handlers : handler[h] = "none"

Init ==
  /\ TvInit
  /\ machine = "awake" /\ newer \in BOOLEAN /\ slept = 0 /\ signals = <<>> /\ net \in BOOLEAN
  /\ \/ handler = [h \in Handlers |-> "none"] /\ panel[Tv] = "lit"
     \/ \E b \in Handlers :      \* on_boot, which ends as on_resume does
          handler = [h \in Handlers |-> IF h = b THEN "waiting" ELSE "none"]
  /\ \E i \in Inhibitors : inhibitor = i /\ live = {i}
  /\ sawMetadata = FALSE /\ excuse = {}

-----------------------------------------------------------------------------
(* logind and the machine                                                  *)

PreparesSleep ==
  /\ machine = "awake" /\ slept < Sleeps
  /\ machine' = "preparing" /\ slept' = slept + 1
  /\ signals' = Append(signals, "sleep")
  /\ excuse' = excuse \cup (IF live = {} THEN {"unarmed"} ELSE {})
  /\ UNCHANGED <<tvVars, newer, net, events>>

\* A command that the daemon owes to what was announced is not over yet.
Unfinished ==
  \/ ToSet(signals) \cap {"sleep", "poweroff"} # {}
  \/ "shutdown" \in ToSet(signals) /\ ~newer
  \/ \E h \in Handlers : handler[h] \in {"suspend", "shutdown", "poweringOff"}

\* Something that lets the inhibitor go is still to come.
Releasing ==
  \/ Unfinished \/ "reboot" \in ToSet(signals)
  \/ \E h \in Handlers : handler[h] = "noop"

\* The delay is over: the inhibitors are gone, or logind has lost patience.
GoesDown(patient) ==
  /\ machine \in {"preparing", "halting", "rebooting"}
  /\ patient <=> live = {}
  /\ machine' = IF machine = "preparing" THEN "asleep" ELSE "halted"
  /\ net' = FALSE
  /\ excuse' = excuse \cup (IF Unfinished THEN {"late"} ELSE {})
  /\ UNCHANGED <<tvVars, newer, slept, signals, events>>

WakesUp ==
  /\ machine = "asleep" /\ machine' = "awake"
  /\ signals' = Append(signals, "resume") /\ excuse' = excuse \ {"aborted"}
  /\ UNCHANGED <<tvVars, newer, slept, net, events>>

NetworkReturns ==
  /\ Runs /\ ~net /\ net' = TRUE
  /\ UNCHANGED <<tvVars, machine, newer, slept, signals, events, excuse>>

\* PrepareForShutdown, preceded by the form that tells a reboot from a power-off
\* where systemd has it.
PreparesHalt ==
  /\ machine = "awake"
  /\ \/ ~newer /\ machine' = "halting" /\ signals' = Append(signals, "shutdown")
     \/ newer /\ machine' = "halting" /\ signals' = signals \o <<"poweroff", "shutdown">>
     \/ newer /\ machine' = "rebooting" /\ signals' = signals \o <<"reboot", "shutdown">>
  /\ excuse' = excuse \cup (IF live = {} THEN {"unarmed"} ELSE {})
  /\ UNCHANGED <<tvVars, newer, slept, net, events>>

\* The halt comes to nothing, and PrepareForShutdown(False), in both forms, says so.
\* What was done for it is not undone before the next resume.
AbortsHalt ==
  /\ machine \in {"halting", "rebooting"} /\ slept < Sleeps
  /\ machine' = "awake" /\ slept' = slept + 1
  /\ signals' = Append(signals, "cancelled")
  /\ excuse' = excuse \cup {"aborted"} \cup (IF Releasing THEN {"late", "outlived"} ELSE {})
  /\ UNCHANGED <<tvVars, newer, net, events>>

-----------------------------------------------------------------------------
(* The signal handlers                                                     *)

\* What the handler of each signal starts: a task, or nothing at all.
Starts(signal) ==
  CASE signal = "sleep" -> "suspend"
    [] signal = "resume" -> "resume"
    [] signal = "poweroff" -> "shutdown"
    [] signal = "reboot" -> "noop"
    [] signal = "cancelled" -> "none"
    [] signal = "shutdown" -> IF sawMetadata THEN "none" ELSE "shutdown"

\* Mutant of SignalArrives: the newer signal is not remembered.
SignalArrivesUnremembered(h) ==
  /\ Runs /\ signals # <<>> /\ handler[h] = "none"
  /\ handler' = [handler EXCEPT ![h] = Starts(Head(signals))]
  /\ signals' = Tail(signals)
  /\ UNCHANGED <<tvVars, machine, newer, slept, net, inhibitor, live, sawMetadata, excuse>>

\* logind's signals reach the daemon in order; it remembers having seen the newer
\* form (which came before any "cancelled").
SignalArrives(h) ==
  /\ Runs /\ signals # <<>> /\ handler[h] = "none"
  /\ handler' = [handler EXCEPT ![h] = Starts(Head(signals))]
  /\ signals' = Tail(signals)
  /\ sawMetadata' = (sawMetadata \/ Head(signals) \in {"poweroff", "reboot"})
  /\ UNCHANGED <<tvVars, machine, newer, slept, net, inhibitor, live, excuse>>

\* _release_inhibitor
Releases == inhibitor' = NoInhibitor /\ live' = live \ {inhibitor}

\* Mutant of PowersOff: the inhibitor goes before the command.
PowersOffReleasingFirst(h) ==
  /\ Runs /\ handler[h] \in {"suspend", "shutdown"}
  /\ Calls(h, Tv, "power_off")
  /\ handler' = [handler EXCEPT ![h] = "poweringOff"]
  /\ Releases
  /\ UNCHANGED <<system, sawMetadata, excuse>>

\* on_suspend and on_shutdown: power the TV off.
PowersOff(h) ==
  /\ Runs /\ handler[h] \in {"suspend", "shutdown"}
  /\ Calls(h, Tv, "power_off")
  /\ handler' = [handler EXCEPT ![h] = "poweringOff"]
  /\ UNCHANGED <<system, inhibitor, live, sawMetadata, excuse>>

\* Mutant of ReleasesInhibitor: an error keeps the inhibitor.
ReleasesOnSuccess(h) ==
  /\ Runs
  /\ \/ handler[h] = "poweringOff" /\ Answered(h) /\ Returns(h)
     \/ handler[h] = "noop" /\ UNCHANGED tvVars
  /\ IF call[h].res = "error" THEN UNCHANGED <<inhibitor, live>> ELSE Releases
  /\ handler' = [handler EXCEPT ![h] = "none"]
  /\ UNCHANGED <<system, sawMetadata, excuse>>

\* The command is over, well or badly, or (on_reboot) there was none to run.
ReleasesInhibitor(h) ==
  /\ Runs
  /\ \/ handler[h] = "poweringOff" /\ Answered(h) /\ Returns(h)
     \/ handler[h] = "noop" /\ UNCHANGED tvVars
  /\ Releases
  /\ handler' = [handler EXCEPT ![h] = "none"]
  /\ UNCHANGED <<system, sawMetadata, excuse>>

\* Mutant of HoldsInhibitor: a new inhibitor is taken every time.
HoldsNever == FALSE

\* The inhibitor taken before still runs.
HoldsInhibitor == inhibitor \in live

\* Mutant of TakesInhibitor: no inhibitor is taken on resume.
TakesNoInhibitor(h) ==
  /\ Runs /\ handler[h] = "resume"
  /\ handler' = [handler EXCEPT ![h] = "waiting"]
  /\ UNCHANGED <<tvVars, system, inhibitor, live, sawMetadata, excuse>>

\* _take_inhibitor, up to the start of the child process.
TakesInhibitor(h) ==
  /\ Runs /\ handler[h] = "resume"
  /\ handler' = [handler EXCEPT ![h] = IF HoldsInhibitor THEN "waiting" ELSE "spawning"]
  /\ excuse' = excuse \cup
       (IF \E g \in Handlers : handler[g] = "spawning" THEN {"twice"} ELSE {})
  /\ UNCHANGED <<tvVars, system, inhibitor, live, sawMetadata>>

\* The child runs, or could not be started; logind refuses new inhibitors once
\* it has announced what they would delay.
Spawned(h) ==
  /\ Runs /\ handler[h] = "spawning"
  /\ handler' = [handler EXCEPT ![h] = "waiting"]
  /\ \/ machine = "awake" /\ \E i \in Inhibitors \ live :
          inhibitor' = i /\ live' = live \cup {i} /\ UNCHANGED excuse
     \/ UNCHANGED <<inhibitor, live>> /\ excuse' = excuse \cup {"no inhibitor"}
  /\ UNCHANGED <<tvVars, system, sawMetadata>>

\* on_resume: when there is a route, or half a minute has passed, power on.
PowersOn(h) ==
  /\ Runs /\ handler[h] = "waiting"
  /\ Calls(h, Tv, "power_on")
  /\ handler' = [handler EXCEPT ![h] = "poweringOn"]
  /\ UNCHANGED <<system, inhibitor, live, sawMetadata, excuse>>

ResumeReturns(h) ==
  /\ Runs /\ handler[h] = "poweringOn" /\ Answered(h) /\ Returns(h)
  /\ handler' = [handler EXCEPT ![h] = "none"]
  /\ UNCHANGED <<system, inhibitor, live, sawMetadata, excuse>>

\* The service is stopped: the TV is left as it is.
ServiceStops ==
  /\ machine = "awake" /\ machine' = "stopped"
  /\ Releases
  /\ handler' = [h \in Handlers |-> "none"]
  /\ slot' = [slot EXCEPT ![Tv] = [k \in Slots |-> Free]]
  /\ call' = [h \in Handlers |-> NotCalling]
  /\ UNCHANGED <<panel, newer, slept, signals, net, sawMetadata, excuse>>

\* The TV acts only if it can be reached, and may fail all the same.  A power-off
\* crosses a wake-up that has done its work and is still there to be joined.
TvStep ==
  /\ Runs /\ TvSteps
  /\ net \/ panel' = panel
  /\ excuse' = excuse
       \cup (IF \E k \in Slots : Fails(Tv, k) THEN {"failure"} ELSE {})
       \cup (IF slot[Tv]["on"].res # "none" /\ panel' # panel THEN {"crossed"} ELSE {})
  /\ UNCHANGED <<system, events>>

-----------------------------------------------------------------------------
Machine == PreparesSleep \/ WakesUp \/ NetworkReturns
             \/ (\E patient \in BOOLEAN : GoesDown(patient))
             \/ PreparesHalt \/ AbortsHalt

HandlerSteps(h) ==
  \/ SignalArrives(h) \/ PowersOff(h) \/ ReleasesInhibitor(h)
  \/ TakesInhibitor(h) \/ Spawned(h) \/ PowersOn(h) \/ ResumeReturns(h)

Next == Machine \/ TvStep \/ ServiceStops \/ \E h \in Handlers : HandlerSteps(h)

Spec == Init /\ [][Next]_vars

-----------------------------------------------------------------------------
Excuses == {"late", "unarmed", "twice", "no inhibitor", "failure", "crossed",
            "aborted", "outlived"}

TypeOK ==
  /\ TvTypeOK
  /\ machine \in {"awake", "preparing", "asleep", "halting", "rebooting",
                 "halted", "stopped"}
  /\ newer \in BOOLEAN /\ slept \in 0..Sleeps /\ net \in BOOLEAN /\ sawMetadata \in BOOLEAN
  /\ signals \in Seq({"sleep", "resume", "poweroff", "reboot", "shutdown", "cancelled"})
  /\ handler \in [Handlers -> {"none", "suspend", "shutdown", "noop", "poweringOff",
                               "resume", "spawning", "waiting", "poweringOn"}]
  /\ inhibitor \in Inhibitors \cup {NoInhibitor} /\ live \subseteq Inhibitors
  /\ excuse \subseteq Excuses
  /\ \A h \in Handlers : Calling(h) <=> handler[h] \in {"poweringOff", "poweringOn"}

\* The daemon has dealt with everything that logind announced.
Quiet == machine = "awake" /\ signals = <<>> /\ Resting

\* The module's docstring: TV commands finish before the network drops.  If the
\* inhibitor ran when the sleep or the halt was announced, the machine goes down
\* with the command unfinished only when logind has lost patience.
CommandsFinishFirst ==
  [][ GoesDown(TRUE) => ~Unfinished \/ excuse \cap {"unarmed", "late"} # {} ]_vars

\* The daemon loses track of no inhibitor process (it would delay every sleep to
\* come), unless two resumes were taking one at once.
NoStrayInhibitor == live \subseteq {inhibitor} \/ "twice" \in excuse

\* Types, who is operating on the TV, and no inhibitor that nobody can let go.
Inv == TypeOK /\ NoStrayInhibitor

\* A reboot that says so leaves the TV alone, whichever of its two signals the
\* daemon has dealt with, unless a halt was given up before the daemon was done with it.
RebootSparesTv ==
  [][ machine = "rebooting" /\ "outlived" \notin excuse => \A h \in Handlers :
        handler'[h] = "shutdown" => handler[h] = "shutdown" ]_vars

\* Once all is quiet the next sleep is guarded again, unless the inhibitor could
\* not be had, or a command outlived the sleep that it belonged to, or a halt was
\* given up and the machine has not slept since.
GuardedWhenQuiet ==
  Quiet => inhibitor \in live \/ excuse \cap {"late", "no inhibitor", "aborted"} # {}

\* The README: the TV follows the PC.  Once all is quiet it is on, unless a
\* command failed or outlived its sleep, or crossed a wake-up that the resume then
\* joined, or a halt was given up since the last sleep.
OnWhenQuiet ==
  Quiet => panel[Tv] = "lit" \/ excuse \cap {"late", "failure", "crossed", "aborted"} # {}

\* Once all is quiet the machine is ready for the next sleep, and the user has a picture.
ReadyWhenQuiet == GuardedWhenQuiet /\ OnWhenQuiet

\* No sleep or halt is left to wait for logind's patience: while an inhibitor
\* delays it, a handler runs that will let go, or the signal for one is on its way.
SomeoneLetsGo ==
  machine \in {"preparing", "halting", "rebooting"} /\ live # {} =>
    Releasing \/ "twice" \in excuse
=============================================================================
