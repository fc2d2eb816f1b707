# lgtv-companion: a TLA+ model of the daemon and what surrounds it

lgtv-companion keeps LG webOS televisions in step with a Linux PC: a daemon
turns them off, blanks them and wakes them as the PC suspends, goes idle, is
locked or streams to another device; a session agent reports what only the
user's session knows; a CLI, a tray and an MQTT bridge talk to the daemon over
a Unix socket. This directory holds TLA+ modules that model their
behaviour, TLC configurations that check them, and proofs checked by TLAPS.
Paths below are relative to `src/lgtvcompanion/`.

    tlasany M.tla                        parse
    tlc -workers 2 -config X.cfg M       check a run
    tlapm MProofs.tla                    check the proofs about M

`PROJECT.json` lists the runs, the code lines each definition stands for, the
hazards and the findings.

## 1. The system

| Component | State it keeps | Operations | Whom it talks to |
|---|---|---|---|
| `DeviceSession` (daemon/devices.py) | current client, connect lock, keepalive task, in-flight task per slot | power_on, unblank, power_off, blank, execute, probe_power_state, disconnect | SsapClient, the power state machine, Wake-on-LAN |
| Power state machine (ssap/power.py) | none | power_on, power_off, blank_screen, unblank_screen, HDMI guard | SsapClient.request |
| `SsapClient` (ssap/client.py) | socket, reader task, pending requests, subscriptions | connect/register, request, subscribe, close | the TV (WebSocket) |
| Idle engine (daemon/idle.py) | `is_idle`, `_forced_idle`, `_last_activity`, loop task | notify_activity, force_idle, force_unidle, loop, stop | Daemon's blank and unblank, vetoes |
| Vetoes (daemon/vetoes.py) | last agent report and its stamp | update_agent_state, check | logind, the process list |
| Power events (daemon/power_events.py) | inhibitor process, `_saw_metadata` | handlers of PrepareForSleep, PrepareForShutdown(WithMetadata), stop | logind, Daemon's power actions |
| Streams (daemon/streams.py) | `streaming`, `_touched` | on_connect, on_disconnect | sessions |
| Wake on input (daemon/wake.py) | `_last_attempt`, `_busy` | notify_input | Daemon `_wake_if_tv_off` |
| Daemon (daemon/main.py) | config, sessions, topology flags, `_locked` | dispatch, reports, lock, power on all/off all, reload, boot | everything above |
| Topology (daemon/topology.py) | last seen displays, `topology.json` | poll, handle a change, save, restore at boot | sessions |
| IPC (daemon/server.py, ipc.py) | subscribers, one request at a time per client | serve, broadcast, stop; request, events | CLI, agent, tray, MQTT bridge |
| Agent (agent/) | report queue, last state, activity throttle, stream watchers | report loop, state loop, watchers | IPC |
| MQTT bridge (mqtt/) | published cache, shared IPC client, retained topics | announce, poll, command, publish | IPC, broker |
| Input monitors (daemon/inputdev.py, hidraw.py) | open devices, marks of synthetic ones, timers | scan, open, accept, hot-plug, read, stop | idle engine, wake on input, agent |
| Input decoders (steamcontroller.py, activity.py) | averages, last reports | feed | input monitors |
| Config and keys (config.py, ssap/keys.py) | files | load, validate, save, imports | all |
| Setup commands and dialog (cli/setup_cmds.py, tray/settings.py) | a loaded copy of the configuration | install, map, edit, import, migrate, rollback | config, systemd, IPC |
| CLI and commands (cli/, ssap/commands.py) | none | parse, format, send | IPC |

Everything in the daemon runs on one asyncio event loop. There are no data
races inside a step, but every `await` lets another coroutine in, and most of
the daemon's state is read before an await and used after it. That is where its
hard behaviour is:

* two operation slots per TV run side by side and share a socket and a lock;
* a call may come between a task's last step and the callback that forgets it;
* operations retry, poll and back off; the TV and the network answer late or never;
* `turnOff` is a toggle in standby: what it does depends on a state read earlier;
* the idle engine notes its new state before the TV has acted, and reload replaces it;
* logind waits for a suspend command, but not for ever; what is late ends after the resume;
* streams, locks and key presses start tasks that walk over the TVs uncoordinated;
* agent, bridge and daemon are processes of their own: each is restarted alone, and
  what was sent to the other before is lost or comes late;
* the kernel replaces input devices while they are opened; TVs change the displays
  the daemon watches; several programs write one configuration file in place.

What makes each component correct, in the order the plan takes them:

1. *Coalescing*: at most one operation per slot; every caller is answered; a
   slot never stays taken.
2. *Session*: no socket is lost; the connect lock is always given back; nobody
   cuts short another's request but by policy; every operation ends.
3. *Idle*: the panel is dark only while the engine knows it; forced idle holds;
   it blanks only after the timeout and without a veto; it keeps watching.
4. *Power events*: the command is over before the machine goes down; the
   inhibitor is let go and taken again; the TV follows the PC; a reboot spares it.
5. *Automations*: each TV ends as the last event meant it; what a stream
   darkened is restored; wake-ups do not pile up.
6. *Client*: a request is answered with its own answer or fails; a lost connection
   is noticed; no socket is forgotten.
7. *Reports*: what the daemon believes of the user's session is what the agent knows.
8. *Bridge*: retained topics show the TV; commands arrive in order; who is gone is not
   shown online.
9. *Topology*: the TVs follow the displays and come to rest; the saved topology is
   what was applied last.
10. *Input monitors*: exactly the right devices are watched; a remote player is never
    taken for somebody at the TV; a stopped monitor holds nothing open.
11. *Setup*: the file stays loadable, no edit is lost, reload tells the truth, old and
    new stack never run together.

## 2. The modules

| Module | Models | Built on |
|---|---|---|
| `SharedCall` | what `_coalesce` promises those who call a session: shared operations | |
| `Coalesce` | `DeviceSession._coalesce`, at the grain of the event loop's ready queue; it implements `SharedCall` | |
| `CoalesceProofs` | proofs about it, the refinement of `SharedCall` among them | `Coalesce` |
| `DeviceSession` | the session, the power state machine and the part of `SsapClient` they need, with the TV and the network | |
| `DeviceSessionProofs` | proofs about it | `DeviceSession` |
| `TvOps` | what sessions promise their callers: the abstract sessions | |
| `IdleEngine` | idle engine, vetoes, what the agent reports of films | `TvOps` |
| `IdleEngineProofs` | proofs about it | `IdleEngine` |
| `PowerEvents` | logind's signals, the inhibitor, suspend, resume, boot, halt | `TvOps` |
| `PowerEventsProofs` | proofs about it | `PowerEvents` |
| `Automations` | streams, screen lock, wake on input | `TvOps` |
| `AutomationsProofs` | proofs about it | `Automations` |
| `Channel` | what a client promises its callers: the abstract connection | |
| `SsapClient` | one client: registration, reader, requests, close; it implements `Channel` | |
| `SsapClientProofs` | proofs about it, the refinement of `Channel` among them | `SsapClient` |
| `StreamWatch` | the agent's two stream watchers, with Sunshine's log | |
| `Reports` | the agent's queue and connection, and what the daemon believes | `StreamWatch` |
| `IpcClient` | an IPC client shared by two coroutines | |
| `Bridge` | the MQTT bridge, its broker and its daemon | `IpcClient` |
| `Topology` | the display watcher, the handling of a change, the restore at boot | |
| `Inputs` | a monitor of input devices beside the kernel | |
| `SurroundingsProofs` | proofs about what surrounds a TV and what others are told of it | `Topology`, `Inputs`, `Bridge`, `Reports` |
| `Setup` | the configuration file, those who share it, the change-over of units | |
| `SetupProofs` | proofs about it | `Setup` |
| `MC*` | constants and symmetry for TLC | the module named |

`Topology`, `Inputs`, `Bridge` and `Reports` are independent of each other, but
`SurroundingsProofs` extends them all. Their `Init`, `Next`, `Spec`, `TypeOK`, `Inv` and
`vars` therefore bear the module's name (`BridgeSpec`, `bridgeVars`), and no other name
is declared in two of them.

An operator preceded by a comment `Mutant of X` is not part of a
specification: it is X with a plausible bug, and `PROJECT.json` names the run
and the property that find it when it takes X's place. Each property of each
passing run has one.

### Coalesce

State: `_inflight` (`inflight`), asyncio tasks (`task`: the step they are at,
whether a cancellation is pending, who awaits them in which order), callers,
and the loop's `ready` queue of handles. Handles are of four kinds: a caller
that is about to call, a task's next step, the done-callback that pops the slot
(devices.py:59), the wake-up of a caller. `Join` and `Launch` are the two
branches of lines 54-60; `Finish` is the operation's last step, after which the
callback that was registered first, the pop, is queued before the callers'
wake-ups. `Cancel` is asyncio's: cancelling a caller that awaits the shared task
cancels that task.

`SharedCall` knows nothing of tasks, callbacks and queues. A slot runs one operation;
who calls while it runs shares it (`Shares`), even if it is not what was asked for;
when it ends, all who share it have its one outcome in the same step (`Ends`); it ends
as cancelled exactly if one of them was cancelled before (`Dooms`). `Coalesce` implements
it under the mapping at its end: a slot's operation is that of the task registered there
unless done, and a caller is answered when its task is done, which is before it is woken
and before the slot is cleared. `KeepsPromise` asks this of every step up to the first
call that comes between a task's last step and its callback (`raced`); from then on
the code does not keep the promise (finding 1). `TvOps`, over which the other modules run,
tells the same at a coarser grain: there a cancelled operation ends at once, here it ends
when its clean-up does, and whoever calls until then is cancelled with it.

### DeviceSession

One session and its TV. Each coroutine (`proc`) is at one of its awaits; a step
runs it to the next. `lock` is `DeviceSession._lock` with its FIFO of waiters,
`ws` what each client's `_ws` is: none, open but still registering (when
`connected` is true already), or registered and read by a reader. `connect()`
is `Reuses`, `FirstAttempt`, `NextAttempt`, `DialOk`, `RegisterOk`,
`AttemptFails`, `KeyRejected`; the operations are `OnAnswered`, `OffAnswered`,
`PollAgain`, `ExecAnswered`, `OperationFails`; how they leave the session is
`Settles`, `OffEnds`, `Raises`. `Drop` is the reader's exit; it fails every
pending request of its client (client.py:178-184), while the requests of a
client that is closed before its reader runs only time out.

Abstractions: the TV has the four power states the code tells apart and may
report one it does not know; the foreground input is the PC's or another,
chosen at each query; `power_state`, which is only reported, the `dry_run` and
`force` switches and the state "Suspend" are left out, and `set_hdmi_input` is
configured. A second call of a taken slot joins it, which is `Coalesce`'s
subject, and so nothing here. A request cut off before the TV handled it is
not handled later. `Settled` says that the loop runs a handle that is ready
(a coroutine whose request has just failed) before a network round trip ends.
Closing a socket is one step. A command being executed is not cancelled: nobody
cancels the tasks of `dispatch`.

### TvOps

The sessions as the rest of the daemon sees them, one per TV: a call joins the
operation in its slot or starts it; the operation acts on the panel (`Acts`)
and ends (`Ends`), and every caller gets its result. The two slots' effects come
in any order, an operation may fail before or after the TV has acted, and
cancelling one caller ends the operation for all. It is deliberately weaker than
`DeviceSession`: it does not know why a session fails, and lets the panel end other than
the answer says wherever the code does: `turnOff` is a toggle and may wake a TV in
standby (power.py:125-132), a TV whose state is not recognised is "blanked" by doing
nothing (power.py:143-145), and one in standby may acknowledge a wake-up without coming
on. `Fails` names these steps beside the errors; they are the excuse "failure" of the
modules that run over `TvOps`.

### IdleEngine

`is_idle`, `forced`, `loop`, `waker` are the engine's fields and tasks; `quiet`
counts ticks since `_last_activity`; `heard` and `age` are the agent's report.
The loop's two awaits (logind, the blank) split it into `LoopChecks`,
`LoopInhibited`/`LoopGoesIdle`, `LoopReturns`. `_go_busy` runs in a task of its
own (`WakerRuns`), or in an IPC handler (`ForceUnidle`); `Reload` cancels the
loop and leaves a waker of the replaced engine running (`OrphanRuns`). Left
out: muting instead of blanking, the event broadcast, `power_off` as the idle
action, several TVs. The process list is one more reason for the answer that
`LoopInhibited` gives.

### PowerEvents

`machine` is what logind is doing, `signals` the D-Bus signals not yet handled,
`handler` the tasks they start, `inhibitor` and `live` the inhibitor the daemon
knows of and the processes that run. `GoesDown(TRUE)` is a machine that goes
down because nothing delays it any more, `GoesDown(FALSE)` one whose logind has
lost patience. While it sleeps no daemon step is enabled, and afterwards
everything goes on where it was. A missing or failing `systemd-inhibit` is
`Spawned` without a child; at the start of the daemon it is there. A halt may be given
up (`AbortsHalt`): `PrepareForShutdown` with `start` false arrives ("cancelled"), and the
handlers do nothing about it, so that until the next resume the TV stays off and no
inhibitor is held. A halt that is not given up is the end. `newer` is whether this
systemd sends the signal that tells a reboot from a power-off.

### Automations

Each report starts a task that walks over the TVs in `Order`: `CallsNext`,
`TakesAnswer`, `SkipsUntouched`; `touched` is `_touched`. `KeyPress` has the two
sources the code has: the agent's report, gated by `_on_report`, and the
daemon's own monitor. A wake-up probes the TVs that no operation runs on and
powers on those that need it, all at once. The cooldown is abstracted to what it
guarantees (`Cooled`). A report's handling is one step with the first step of
its task; which TVs are managed does not change, and one is at least (with none no
task has anything to do); display topology is left out.

### SsapClient and Channel

One client object, which `DeviceSession` makes anew for every attempt. `ws` is
whether `_ws` is set, `connector` where `connect()` is, `reader` where the task of
`_read_loop` is: a task that is cancelled before its first step never runs its
`finally`, so "created" and "running" differ. `pending` are the keys of `_pending`;
`caller` says for what each coroutine waits and whether its future is resolved,
because a future that is done is not yet a coroutine that has returned.
`RegisterReads` is the loop of `_register` frame by frame: it also swallows
answers to requests sent meanwhile. `Close` may come from any other coroutine at
any moment. The TV sends what it likes, late answers to requests given up included, and
frames that mean nothing: one that is not JSON is passed over, one that is JSON but no
object ends the reader ("raised"), which leaves the socket open.

`Channel` says what callers may rely on: the connection is up once and down for
good, and a request that returns successfully was answered itself. The mapping:
`phase` is `PhaseOf` (what `connected` tells, and whether `connect()` has begun),
`call` is `CallOf`, which is "handled" from when the TV has answered this very id.
`KeepsPromise` is `Channel`'s specification under this mapping. What frames
say, the TLS fallback and the ports are left out.

### StreamWatch and Reports

`hosting` and `log` are Sunshine's; `pos` and `sunshine` the watcher's. A poll reads
what the log has got since, from the beginning if the log has become shorter, and may
catch a line half written. The agent (`film`, `combined`, `queue`, `conn`) puts
reports into a bounded queue and sends them from one coroutine, which notices a dead
connection only by sending (`SendFails`: the report is lost, and perhaps one before
it). `Connects` sends the film state first. `belief` is the daemon's. Reports of
an event (input, lock) count only for the room they take. How the film state is found
over D-Bus is left out.

### IpcClient and Bridge

`IpcClient` is `request()` of two coroutines on one stream: a frame carries whether
its id is the latest, since this is all `request()` compares, and an answer is reduced
to what `request()` and its caller make of it: a state, "done", or old. `Bridge` adds
`mqtt/main.py`'s loop (`at`), the poller, the consumer of commands, a broker with retained
topics and a last will, and a daemon that ends at any moment.

The announcing coroutine runs first and waits for its answer (discovery is on, as by
default); the poller's first request follows before any pause, collides with it and
fails, at every start. That is one step (`RunBegins`), which leaves two requests at the daemon.
Later polls come ten seconds apart: time enough for a status request to be answered and
read, but not for a command, behind which polls pile up and meet its coroutine
(`PauseOver`).

When the bridge closes the connection, the daemon goes on with the command it is at
(`Going`, then `leftover`), which may fail like any other. Its answer, or that of a poll,
meets a closed socket and ends the handler, so the frames behind it are never read
(`Drops`). `leftover` is one command: a connection that would leave a second one before
the first is over is not explored. One device and one state topic; the discovery
messages' contents are left out.

### Topology

`last` is the watcher's memory, `jobs` the handlings under way, at most one of the
watcher and one of the boot, `file` the saved keys. `Tell` turns one TV, which may
fail. `Sleepy` TVs drop their display while off, so that telling a TV changes
`PresentPaths`, which the watcher polls. `Replugs` and `Turns` are people. A poll and
what it starts is one step up to the first await. A file that is missing, torn or
not of the right shape is the empty set.

### Inputs

`InputMonitor` and `HidrawMonitor` share their scan, and so the module: `class` tells
them apart. A scan is one synchronous piece of code, but the kernel does not wait: it is
split where the outcome depends on the kernel (`Looks`, `Opens`, `Accepts`), and no
other step of the loop comes between (`~scan.on`). `open` has the device behind each
descriptor, `node` the one that now has the name. `inotify` may be missing and may lose
what it had to tell. `heard` are the kinds of device taken for a person. What is a
movement and what noise (thresholds, averages) is left out.

### Setup

`copy` is what a writer has loaded and changed; `save()` truncates (`Truncates`) and
writes (`Writes`), and may end in between (`WriterDies`). Each writer writes from the
start of the file: who has truncated it before the other one wrote ("overlaying") puts its
text over the other's, which if longer leaves a rest behind it, and the file may not parse
(`Results`). If somebody truncates again before that, it is empty once more. The fields of a configuration
are grouped by what becomes of them on reload. The migration is its three `systemctl`
calls, of which the first ignores failure and the others do not. `eff` is what the
daemon works by. `DialogApplies` is the reload over IPC.

### Histories and excuses

`excuse` in several modules (`missed` in `Reports`, `unseen` in `StreamWatch`, `late` in
`Inputs`, "nobody" as the value of `told` in `Topology`) records what the code does not promise to survive: a
failed operation, two operations side by side, a command that outlived its
sleep, a halt that was given up, a report dropped at a full queue, a publish that failed,
a command dropped with its connection, two writers in one file. Properties say that all is well unless one of these has happened. They
say something because the set of excuses is short and each was found necessary
by TLC: dropping any one from the property that names it gives a counterexample.
An excused case is thus a weakness of the code that these runs found and do not catch
again: `PROJECT.json` says at each such hazard which excuse it is. An excuse is taken back
as soon as its effect is over: at the next resume, command, publish or whole text, for
example.
`Automations` starts again without excuses once all is quiet (`Fresh`).

## 3. What the runs check

In each module `Inv` (`ReportsInv`, `BridgeInv`, `TopologyInv`, `InputsInv`) is its type
invariant and one or two named conjuncts, given below in brackets.

| Run | Module, cfg | Shows |
|---|---|---|
| `coalesce` | MCCoalesce | `Inv` [`NoWedgedSlot`: no slot holds a finished task for ever; `SingleFlightUnlessRaced`: single flight but for the callback race]; `_coalesce` implements `SharedCall`; every call is answered; the session does not stay busy |
| `session` | MCDeviceSession | `Inv` [`LockProtectsConnect`]; `OneSocket`; `RequestsKeepConnection` |
| `session_ends` | MCSessionEnds | every operation and probe ends, whatever the TV does |
| `idle` | MCIdleEngine | `Inv` [`ForcedIdleHolds`]; the panel is dark only while idle; blanks are justified; the loop goes on |
| `power_events` | MCPowerEvents | `Inv` [`NoStrayInhibitor`]; when all is quiet the next sleep is guarded and the TV is on (`ReadyWhenQuiet`); somebody always lets go; commands before sleep; a reboot spares the TV |
| `automations` | MCAutomations | `Inv` [`OneWakeAtATime`]; last event wins; streams remember what they darkened |
| `ssap_client` | MCSsapClient | `Inv` [`ConnectedIsWatched`, `NoSocketForgotten`]; `LossIsNoticed`; the client implements `Channel` |
| `reports` | MCReports | `ReportsInv` [`SunshineFollows`]; `Informed`: the daemon believes what the agent knows; a full queue moves again |
| `bridge` | MCBridge | `BridgeInv` [`OfflineWhenGone`]; `CacheTrue`; `LastCommandWins`; `ComesToShow`: crossed answers do not stop the poller |
| `topology` | MCTopology | `TopologyInv` [`Follows`]; `AsSaved` across crashes; the feedback comes to rest |
| `setup` | MCSetup | `Inv` [`CutOver`]; `StaysLoadable`; `EditsKept`; `ReloadTruthful` |
| `inputs` | MCInputs | `InputsInv` [`Shut`, `MarksOpen`]; `NeverMistaken`; `WatchesAll` |

### Bounds

* `coalesce`: 2 callers and 2 tasks, over 4 operations. Two callers give every
  pair of join, race, cancel and finish in a slot and in both slots; the third
  caller and task are needed only for two operations at once in a slot (finding 1),
  and the theorems hold for any number.
* `session`: 2 attempts (a first one, a backoff and a last one), 1 poll after
  the wait, 6 clients (an unused one is always there: at most one per
  coroutine and the current one), three groups of features used together
  (`Together`): both slots; "on" with a command; a command with the probe, the
  power-on it starts, and reload. The keepalive task is in all of them. All
  values of `persistent_connection`.
* `session_ends`: both slots, and a command with the probe, which may close the client
  that the command is registering; the policies "off", under which the most connections
  are closed by the other side, and "keep_open". Under the default "keepalive" the liveness
  check of both slots is beyond what is practical: it adds a task that pings, which calls no
  operation, takes no lock and closes a connection only as the network may at any moment.
  The second group alone also passes with it (134,000 states).
* `idle`: one TV, one waker (a second one would find `is_idle` false, or do
  what the orphan does), `Timeout` 1 and `Ttl` 1 (the engine only compares).
* `power_events`: 2 sleeps or halts given up, so that a command of the first can end in
  the second, and one last halt; 3 handlers at once; 2 inhibitor processes, so that one can be lost.
* `automations`: 2 TVs, 2 handlers, 2 wakers, 4 configurations that combine
  what can meet. `MayHappen`: once a property is excused no event comes until all
  is quiet, which only prunes behaviours in which the property says nothing.
* `ssap_client`: 2 callers (one waits while the other asks, returns or closes), 3
  requests, so that a caller asks again while an answer to its first request
  comes; 2 frames on their way, so that an answer is behind another frame.
* `reports`: a log of 2 lines (a start and an end between two polls; rotation below,
  at and above the old position) and a queue of 2, so that it is full behind one report.
* `bridge`: 3 unhandled requests, since the two of the start may still wait when the next
  ones come, and a command may have a poll before it and another behind it; 1 command on
  its way, so that commands meet in the daemon, or through `leftover`.
* `topology`: 2 TVs, one of which drops its display in standby, 3 moves by people:
  a change before, during and after a handling.
* `setup`: 3 times that somebody takes up the file, so that two overlap and a third
  loads what they left. The run also passes with 4 (5.2 million states).
* `inputs`: 2 names and 2 devices: a device replaces another under its name or
  appears beside it. The run also passes with 3 (1.5 million states).

Symmetry is used only where no liveness is checked, over handlers, wakers,
inhibitors and callers, which no module orders.

### Fairness

`Coalesce`: the loop runs ready handles (weak fairness of each handle's step), what
a task awaits comes or times out (`Resume`), and an operation awaits finitely often,
since its attempts, polls and requests are bounded: strong fairness of `Finish`,
because a task alternates between suspended and scheduled. `session_ends` checks,
in `DeviceSession`, that this last assumption is what the code delivers.
`DeviceSession`: each coroutine's steps are weakly fair, since each await has a
timeout or is the lock, whose holder moves. The TV owes no answer, the network
no connection, users no calls; the keepalive task may sleep for ever.
`IdleEngine`: tasks run and operations on the TV end, which is what the two other
runs show. `SsapClient`: the reader runs when it is ready; no caller has to give up and
the TV has to do nothing. `Reports`: the agent's sending coroutine runs and systemd
restarts the daemon; `QueueMoves` asks for a daemon that is not down again and again.
`Bridge`: poller and consumer run, whose awaits have timeouts, and a daemon that is up
answers. `Topology`: the daemon's three tasks run; `Settles` supposes that people
stop moving things. `Inputs`: timers come due and a scan that has begun ends.
`PowerEvents`, `Automations` and `Setup` state no fairness: everything there is safety.

### Deadlock

Checked in `coalesce` and `idle`. The other runs have `CHECK_DEADLOCK FALSE`: a session
or a client no one calls any more rests, a machine that halted or a service that
stopped does nothing, a bridge that is told to stop ends, after an excused episode no
event need come, and when the bound on moves, edits, requests or devices is reached
nothing is left to happen. There the liveness properties and `SomeoneLetsGo` say what
must not get stuck.

## 4. What is proved

`CoalesceProofs` proves, for any sets of callers and tasks (with `NoTask` no
task), `Spec => []` of

* `TypeCorrect`: `TypeOK`, which includes who awaits whom;
* `SingleFlightHolds`: `SingleFlightUnlessRaced`;
* `NoWedgedSlotHolds`: `NoWedgedSlot`;
* `InvHolds`: `Inv`, the conjunction of these three, which the run checks;
* `CoalesceKeepsPromise`: `KeepsPromise`, the refinement of `SharedCall`.

None of the invariants is inductive. Whether a slot's task is the registered one depends
on what is queued: the pop callback of a finished task must still be queued if
the slot holds it, must be queued once, and must come before the wake-ups of the
task's callers, because the last caller to resume frees the task's identity
and a pop of a task that is no more would clear the wrong slot. `IInv` says,
besides `TypeOK` and `SingleFlightUnlessRaced` (`NoWedgedSlot` follows): no handle is queued twice; a queued
call, step, pop or wake-up belongs to a caller or task that is in the matching
phase (`CallsCalling`, `StepsScheduled`, `PopsDone`, `WakesDone`); the callers
recorded in a task are those that await it (`JoinedAwait`); an awaited task
exists (`AwaitedBorn`), and so does a registered one, in its own slot
(`RegisteredBorn`). The queue is handled by lemmas on appending, consuming and
joining sequences without duplicates, in terms of membership and order only; then
there is one lemma per action.

The refinement has one more lemma per action (`…Kept`): `Join` is `Shares`, `Launch` is
`Starts`, `Finish` is `Ends`, `Wake` is `Returns`, `Cancel` is `Dooms`, or `CancelledLate` if the
outcome is there already, and the others change nothing that callers see. What makes them hold is the
same `IInv`, with `Records` (what exists has an operation, and only a caller that has
its answer is cancelled by itself). That `Finish` answers *all* who wait for the slot, and
nobody else, needs `SingleFlightUnlessRaced`: two callers that wait for one slot
await one task. That `Launch` finds the slot empty for callers too is where `raced` enters.

`DeviceSessionProofs` proves, from `SessionAssumption` only (so for any number
of clients, attempts and polls, any subset of the policies and any groups of
features),

* `TypeCorrect`: `[]TypeOK`, with the bounds on attempts and polls;
* `OneSocketHolds` and `LockProtectsConnectHolds`: those invariants;
* `InvHolds`: `Inv`, which is `TypeOK` and `LockProtectsConnect`;
* `RequestsKeepConnectionHolds`: the action property.

`OneSocket` is not inductive: `connect()` replaces the current client, and the
old one must have no socket then. Before the first attempt the code looks; before
the next ones it relies on the failed attempt having closed its client, on the
lock keeping everybody else from dialling, and on nobody else's touching the
client meanwhile. `IInv` says so: the lock's queue is who is inside `connect()`
(`Queue`); while its head dials or backs off the session has no socket, and none
that is registered until it has registered (`Dialling`); a registering socket has a
coroutine registering it (`Registering`); no other coroutine uses the client
that dials (`Alone`). For the action property it also says that an answered
request, or an operation's request under way, has an open socket (`Asked`),
that the socket of a failed one stays closed (`Broken`), and that polling uses a
registered client (`Polling`). The bounds need what is left at each await
(`Counted`). Most actions neither enter nor leave `connect()` and only close
sockets: they are `Quieter`, and the lemma `Steady` covers them at once; each step
of `connect()` has a lemma of its own. `NextKeeps` then goes through the
actions for `RequestsKeepConnection`. TLC checked `IInv` itself on the instance
of the run `session` before it was proved.

`IdleEngineProofs` proves, for any number of wakers and any timeouts, `InvHolds` (`TypeOK`
and `ForcedIdleHolds`), `DarkIsIdleUnlessExcusedHolds` and the action property
`BlanksOnlyWhenJustifiedHolds`. A dark panel with `is_idle` false is only ever about to be
lit: `SlotsFollow` says what each slot's operation means for `is_idle` while the other
slot is free, and `OwnOps` that the engine does nothing but blank and unblank.
`ForcedIdleHolds` needs to know which wakers were on their way when idle was forced
(`WakersHeld`) and that a waker of a replaced engine is there only after a reload
(`OrphansOfReload`); blanking needs that what the loop found before it asked logind is
still so, but for what came in since (`Justified`), and that the engine's timer is the
user's rest (`TimerTrue`).

`PowerEventsProofs` proves, for any handlers, inhibitors and number of sleeps, the five
properties of the run: `InvHolds`, `ReadyWhenQuietHolds`, `SomeoneLetsGoHolds`,
`CommandsFinishFirstHolds` and `RebootSparesTvHolds`. The argument counts who still has
to do what, also across halts that are given up, after which only the next resume
owes an inhibitor and a picture. What is announced needs one command: a signal that will start it and a
handler that runs it are never there twice, and while it is not over an inhibitor
runs (`OneCommand`). A halt says once what it is, before it says that it is one (`Halts`).
The next sleep is guarded by an inhibitor, by a resume that takes one or by the signal of
that resume (`Guarded`, with `Spawning`: one resume takes at a time); the picture comes in
the same way (`PictureComes`, `WokenUp`, `Operations`).

`AutomationsProofs` proves `InvHolds`, `LastWordWinsHolds` and `RestoreRemembersHolds` from
`AutomationsAssumption`, for any televisions (one at least), tasks, wake-ups and configurations. That the last event
wins follows from `Agreed`: a television about which nothing is pending any more is as the
last decision wanted it. That is inductive together with: tasks that overlap without
excuse all work in one direction (`OneDirection`); whatever runs in a slot is awaited by
one of them (`Manned`, `Places`), so that it works in that direction too; an operation
that has ended without failure did what it is for (`Effective`); and what is under way is
what was decided last (`Wished`). For the stream's memory `Remembered` needs that a
stream's end is over before the next stream begins (`OneEnd`) and that a stream that
joins another's operation is answered with what its own can return (`OwnOps`, `Matched`,
`Truthful`), which is where the lock's use of the same slot comes in.

`SsapClientProofs` proves, for any callers and any numbers of requests and frames,
`InvHolds` and `ClientKeepsPromise`, `Spec => KeepsPromise`: that the client implements
`Channel`. Each step maps to a step of `Channel` or to a stutter, one lemma per action.
The mapping calls a request handled from when the television has answered this very id,
so the step at which a caller returns successfully needs `Resulted`: a future with a
result belongs to an id that is no longer asked. This rests on the ids: what is asked,
awaited or on its way as an answer was requested, and an answer on its way is no longer
asked (`Numbered`); no two callers wait for one id (`Own`). The invariant of the
run needs to know how far the reader's task is for each stage of `connect()` (`Stages`).

`SetupProofs` proves, however often the file is taken up, `InvHolds`, `StaysLoadableHolds`, `EditsKeptHolds` and
`ReloadTruthfulHolds`. Whoever has read the file and is going to write it differs from
what was last set only in the fields that are his to set (`Faithful`), and what he writes
is sound unless it was imported (`Sound`); a torn file has a writer at work, or one that
died or wrote over the other's text, and who still has a file open that the other one has
written finds it whole (`Emptied`). `CutOver` is split into what holds of the units at each
step of a migration (`Stacks`) and of the dry run after it (`Earnest`); `Tasks` says who is
where in which kind of installation. `ReloadTruthful` is inductive with these.

`SurroundingsProofs` proves the invariants of four modules, each from the assumptions on
its own constants.

*Topology*: `TopologyInvHolds` (`TopologyTypeOK` and `Follows`) and `AsSavedHolds`; the
managed TVs are a sequence without repetitions, whichever of
them drop hot-plug in standby. Neither property speaks of a handler in the midst of its
list of TVs, so the invariant does: the TVs that it has told and that nobody has turned
since are as its keys say (`Told`; `Agrees` is the exception clause both properties share).
At the end of the list this becomes `Noted`, what the watcher remembers it has applied, and
`Saved`, what a handler has saved it has applied until it begins the next time. That the
two handlers overlap does no harm to either, since a TV told by one no longer counts for
the other. A list stays a tail of the configured one, which is a lemma (`TodoFacts`).

*Inputs*: `InputsInvHolds` and `NeverMistakenHolds`. A descriptor outlives its node, and a
name gets a new node while the old one is open, so what the monitor knows of a name may be
about a device that is gone. The invariant goes by the number each device is born with
(`AllNumbered`): a descriptor of the device that still has the name is of that device's
kind, and unless it is marked the device is a hand (`Truthful`), also for the one that is
opened and not yet judged. `ScansAtRest` says which scans can come after `stop()`.

*Reports*: `ReportsInvHolds` and `InformedHolds`. `Reported` says of each kind, whatever is
queued and whether or not the connection is good: the last report of it that is queued
says what the agent knows, and if none is queued the daemon knows it already. A queue
that is full drops the last of several reports first, so a kind that is behind is in
`missed` until a report of it fits; a stream's report is in `missed` too when it is lost
with the connection. The calls that a poll of the log makes have to be
followed by the value the poll ends with: `FlipsAlternate` says that after n lines the value
differs from the first exactly if an odd number of lines changed it. This is an
induction over the lines, in the form that no least line fails it (`SetInduction`, from
the library's theorem that `<` on the naturals is well-founded), which needs no operator as a
parameter. For `SunshineFollows` the log ends with what is, and what has not been read of
it is there (`LogSeen`).

*Bridge*: `BridgeInvHolds`, `CacheTrueHolds` and `LastCommandWinsHolds`. The last of them
speaks of a daemon that has nothing to do; `CommandsLead` says how it gets there: of the
commands on this connection the last is the last that reached the bridge (`LastOrder`), and
then none of an earlier connection is still at work; if there is none on this one, the one
that is still at work is the last; if there is none at all, the TV is as it wants. A
connection that goes leaves the daemon the command it is at, which is the last unless one is
dropped (`LeadDrops`); the daemon takes the first (`TailOrders`); and a bridge that begins
anew asks for statuses only, since one that does not run has asked nothing (`Attached`).
`CacheTrue` needs that
the poller lives and dies with the connections (`Polling`). What `OfflineWhenGone` leaves out
(`"left"`) is the only way to go that neither retracts nor leaves the will to the broker.

Each of these inductive invariants was checked by TLC as an invariant of the instance of
its run before it was proved.

Every safety property of every run is proved. Only model-checked is
liveness, since TLAPS as used here has no ENABLED: `EveryCallAnswered`, `BusyEnds`,
`OperationsEnd`, `EngineKeepsWatching`, `LossIsNoticed`, `QueueMoves`, `ComesToShow`,
`Settles`, `WatchesAll`.

## 5. Findings

Quoted in full, with their lines, in `PROJECT.json`. The statements that the code refutes
are defined in the modules and no run checks them; put into a cfg in place of its
properties, TLC finds a counterexample.

| | Statement | In | What the code does |
|---|---|---|---|
| 1 | `SingleFlight` | `Coalesce`, with 3 callers and 3 tasks | devices.py:59: a call between a task's end and its callback starts a task that the callback forgets; the next call starts one beside it |
| 2 | `ProbeUndisturbing` | `DeviceSession` | devices.py:261: `client.connected` is true while registering; the probe queries and closes the client of a running connect() |
| 3 | `OverlapHarmless` | `IdleEngine` | idle.py:92: activity while the blank is under way; unblank overtakes it in the other slot, and the TV stays dark with `is_idle` false |
| 4 | `FilmNotBlanked` | `IdleEngine`, `Timeout` 2 and `Ttl` 1 | vetoes.py:41: the agent reports changes only, reports expire in 120 s |
| 5 | `WakeSuspended` | `Automations` | wake.py:42: the daemon's own monitor ignores a connected stream |
| 6 | `EntitiesGo` | `Bridge` | mqtt/bridge.py:113: the device's availability, which entities go by, is never retracted |
| 7 | `RestoreUndisturbed` | `Topology`, `Sleepy` both TVs, `MaxMoves` 0 | daemon/topology.py:79: the watcher turns off TVs that the restore at boot is turning on |

Others are the excuses that properties need, and name:

* devices.py:169: a power_off that joins a blank; main.py:109: virtual input wakes an
  idle TV; streams.py:62 and :24: crossings of a stream's start and end, a TV that was
  off before the stream is lit after it; power_events.py:144: a late suspend command
  releases the resume's inhibitor; power_events.py:134: nothing undoes what was done for a
  halt that is given up; ssap/power.py:144: a TV in an unrecognised state is "blanked".
* ssap/client.py:164: a frame that is not an object ends the reader and leaves the socket.
* server.py:87: requests that a closed connection leaves unread are dropped, commands
  among them; ipc.py:90: a shared client takes another's answer; mqtt/bridge.py:58: an error
  of the daemon leaves the broker in order, and "online" stays; mqtt/bridge.py:137: the
  cache is set before the publish.
* agent/main.py:204: a daemon that restarts during a stream does not learn of it;
  agent/main.py:79: one activity report a second, whichever comes first.
* inputdev.py:240: the delayed scan runs after stop() and opens everything again.
* config.py:241: save() truncates first, and two writers overlay each other; setup_cmds.py:331: imports are saved unvalidated;
  setup_cmds.py:346: the documented install never writes a configuration;
  setup_cmds.py:392: a migration that fails leaves neither stack enabled;
  main.py:322: fields that reload neither applies nor reports; tray/settings.py:212: a
  failed reload is shown as success.

## 6. Assumptions about what is outside

The event loop runs handles in FIFO order and `Task` callbacks in the order
added; cancelling a task that awaits another cancels the other (asyncio). A TV
handles `turnOff` in Active Standby as a toggle (the code's own comment). logind
sends signals in order, with the one that tells a reboot either always or never, and
refuses no inhibitor while awake. A broker publishes the will
of a client that is gone without saying so, and only then. A descriptor of a
device that is gone fails to read. systemd starts an enabled service again until it can
load its file.

## 7. Not modelled, and why

Wake-on-LAN (sends packets; whether one arrives is part of `DeviceSession`), the pairing
payload and the button socket (constants and a write), the parsing of commands and the
formatting of answers (no state), the tray's menu, update check and systemd
notification (I/O), packaging. In the IPC server: subscriptions, access control
and stop(), whose wait for its own subscribers is hazard and not yet property. In the
input monitors: the numeric detection of activity in steamcontroller.py and activity.py.
In the daemon: auto-enable, dispatch to several devices. Contents of commands
and answers are left out wherever no property tells them apart.

## 8. Plan

In order of importance to the system:

1. `TvOps` implemented by `SharedCall` for a session that is never cancelled, and its
   `Cancels` spread over the clean-up.
2. The IPC server's subscribers and stop().
3. What is left out of the modelled components: `power_off` as the idle action,
   muting, several TVs in `IdleEngine`; the state "Suspend" and the `dry_run`
   and `force` switches in `DeviceSession`.
4. The detectors of activity, against reference definitions.
