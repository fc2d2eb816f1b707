------------------------------- MODULE Bridge -------------------------------
(***************************************************************************)
(* The MQTT bridge (mqtt/bridge.py, mqtt/main.py) between a broker with    *)
(* retained topics and a last will, and the daemon behind one IpcClient    *)
(* that the poller shares with the coroutine that announces the devices    *)
(* and then serves commands.  One device, one state topic.                 *)
(***************************************************************************)
EXTENDS IpcClient

CONSTANTS
  Poller, Server,  \* the coroutines: _poll_loop, and _announce followed by _serve
  Nothing,         \* no value in a topic, a cache or a command
  MaxCommands      \* commands from Home Assistant under way (bound)

ASSUME BridgeAssumption ==
  /\ Coroutines = {Poller, Server} /\ Poller # Server
  /\ MaxCommands \in Nat
  /\ MaxFrames >= 2
  /\ Nothing \notin {"on", "off", "online"}

VARIABLES
  at,         \* where mqtt/main.py's _run and Bridge.run are
  stop,       \* the stop event is set
  published,  \* Bridge._published
  poll,       \* the poller: "none", "asleep", "asking" or "publishing"
  commands,   \* messages from the broker that the bridge has not handled
  mqtt,       \* the connection to the broker: "none", "up", or "lost" unnoticed
  available,  \* the retained topic of the bridge's availability
  usable,     \* the retained topic of the device's availability, which its entities go by
  shown,      \* the retained topic of the device's power
  alive,      \* the daemon's end of the IPC connection
  tv,         \* the power state that the daemon knows
  leftover,   \* the command of an earlier connection that the daemon is still at (bound:
              \* one at a time)
  asked,      \* history: the last command that reached the bridge
  excuse      \* history: what may leave a topic or the TV wrong

bridge == <<at, stop, published, poll, commands>>
broker == <<mqtt, available, usable, shown>>
daemonState == <<alive, tv, leftover>>
bridgeHistory == <<asked, excuse>>
bridgeVars == <<ipcVars, bridge, broker, daemonState, bridgeHistory>>

Powers == {"on", "off"}

BridgeTypeOK ==
  /\ IpcTypeOK
  /\ at \in {"offline", "announcing", "serving", "stopped"}
  /\ stop \in BOOLEAN /\ published \in Powers \cup {Nothing}
  /\ poll \in {"none", "asleep", "asking", "publishing"}
  /\ commands \in Seq(Powers) /\ Len(commands) <= MaxCommands
  /\ mqtt \in {"none", "up", "lost"} /\ available \in {"online", "offline", Nothing} /\ usable \in BOOLEAN
  /\ shown \in Powers \cup {Nothing}
  /\ alive \in BOOLEAN /\ tv \in Powers /\ leftover \in Powers \cup {Nothing}
  /\ asked \in Powers \cup {Nothing}
  /\ excuse \in SUBSET {"stale", "left", "crossed", "dropped"}
  /\ (at \in {"announcing", "serving"}) = (poll # "none")
  /\ Poller \in reading => poll = "asking"

BridgeInit ==
  /\ Fresh
  /\ at = "offline" /\ stop = FALSE /\ published = Nothing /\ poll = "none"
  /\ commands = <<>> /\ mqtt = "none" /\ available = Nothing /\ usable = FALSE /\ shown = Nothing
  /\ alive = FALSE /\ tv \in Powers /\ leftover = Nothing
  /\ asked = Nothing /\ excuse = {}

-----------------------------------------------------------------------------
(* Bridge.run begins and ends                                              *)

\* Connected to the broker, subscribed, and connected to the daemon.  _announce asks for
\* the status and waits; the poller, whose first request has no pause before it, asks too,
\* collides with it and goes to sleep.
RunBegins ==
  /\ at = "offline" /\ ~stop
  /\ at' = "announcing" /\ mqtt' = "up" /\ available' = "online"
  /\ reading' = {Server} /\ inbox' = <<>>
  /\ outbox' = <<[cmd |-> "status", latest |-> FALSE], [cmd |-> "status", latest |-> TRUE]>>
  /\ poll' = "asleep" /\ alive' = TRUE /\ excuse' = excuse \ {"left"}
  /\ UNCHANGED <<stop, published, commands, usable, shown, tv, leftover, asked>>

\* The daemon is not there: the client of the broker is left in order, so that the
\* broker drops the will.
RunFailsToBegin ==
  /\ at = "offline" /\ ~stop
  /\ available' = "online" /\ excuse' = excuse \cup {"left"}
  /\ UNCHANGED <<ipcVars, at, stop, published, poll, commands, mqtt, usable, shown, daemonState, asked>>

\* What the daemon is asked on this connection and has not handled.
Sent == [i \in DOMAIN outbox |-> outbox[i].cmd]

\* There are commands among the requests.
Orders(requests) == \E i \in DOMAIN requests : requests[i] # "status"

CutShort == IF poll = "publishing" /\ published # shown THEN {"stale"} ELSE {}

\* The command, if it is one, that the daemon is at when the connection is closed.
Going == IF Sent # <<>> /\ Head(Sent) # "status" THEN Head(Sent) ELSE Nothing

\* What becomes of what was under way: the daemon goes on with the command that it is at;
\* its answer meets a closed connection and ends the handler, which reads none of the
\* frames after it.  A poll may be cut short between the cache and the topic.
Drops(reasons) ==
  /\ Reopens /\ poll' = "none" /\ commands' = <<>> /\ alive' = FALSE
  /\ \/ Going = Nothing /\ leftover' = leftover
     \/ Going # Nothing /\ leftover = Nothing /\ leftover' = Going
  /\ excuse' = excuse \cup CutShort \cup reasons
               \cup (IF Sent # <<>> /\ Orders(Tail(Sent)) THEN {"dropped"} ELSE {})
  /\ UNCHANGED <<stop, published, tv, asked>>

\* Mutant of ServeEnds: availability is left to the will.
ServeEndsSilently ==
  /\ at = "serving" /\ stop /\ at' = "stopped"
  /\ Drops({}) /\ mqtt' = IF mqtt = "up" THEN "none" ELSE mqtt
  /\ UNCHANGED <<available, usable, shown>>

\* A graceful stop retracts the availability before it disconnects.
ServeEnds ==
  /\ at = "serving" /\ stop /\ at' = "stopped"
  /\ Drops({}) /\ available' = IF mqtt = "up" THEN "offline" ELSE available
  /\ mqtt' = IF mqtt = "up" THEN "none" ELSE mqtt
  /\ UNCHANGED <<usable, shown>>

\* The consumer finds the connection to the broker lost.
BrokerDropped ==
  /\ at \in {"announcing", "serving"} /\ mqtt = "lost" /\ at' = "offline"
  /\ Drops({}) /\ UNCHANGED broker

\* Announcing fails while the broker is there: the client leaves it in order.
AnnounceFails ==
  /\ at = "announcing" /\ mqtt = "up" /\ at' = "offline"
  /\ ~alive \/ Server \notin reading \/ MayGiveUp(Server)
  /\ Drops({"left"}) /\ mqtt' = "none"
  /\ UNCHANGED <<available, usable, shown>>

\* The stop ends the delay between two runs.
Stopped ==
  /\ at = "offline" /\ stop /\ at' = "stopped"
  /\ UNCHANGED <<ipcVars, stop, published, poll, commands, broker, daemonState, bridgeHistory>>

-----------------------------------------------------------------------------
(* _announce and _serve                                                    *)

\* A poll whose request has ended sleeps until the next.
StillPolling == IF poll = "asking" /\ Poller \notin reading' THEN "asleep" ELSE poll

\* The announcing coroutine has read an answer: the device is announced.
Announces ==
  /\ at = "announcing" /\ alive /\ Takes(Server)
  /\ at' = IF Head(inbox) # "old" THEN "serving" ELSE at
  /\ usable' = (usable \/ (mqtt = "up" /\ at' = "serving"))
  /\ poll' = StillPolling
  /\ UNCHANGED <<stop, published, commands, mqtt, available, shown, daemonState, bridgeHistory>>

\* _handle_command writes the command, even if it then fails to wait for its answer.
HandlesCommand ==
  /\ at = "serving" /\ alive /\ commands # <<>> /\ Len(outbox) < MaxFrames
  /\ Writes(Server, Head(commands))
  /\ commands' = Tail(commands) /\ asked' = Head(commands)
  /\ excuse' = (excuse \ {"crossed", "dropped"}) \cup (IF leftover # Nothing THEN {"crossed"} ELSE {})
  /\ UNCHANGED <<at, stop, published, poll, broker, daemonState>>

\* The daemon has gone and the bridge does not connect to it again: the command is
\* logged as failed.
CommandFails ==
  /\ at = "serving" /\ ~alive /\ commands # <<>> /\ commands' = Tail(commands)
  /\ UNCHANGED <<ipcVars, at, stop, published, poll, broker, daemonState, bridgeHistory>>

CommandReturns ==
  /\ at = "serving"
  /\ Takes(Server) \/ GivesUp(Server)
  /\ poll' = StillPolling
  /\ UNCHANGED <<at, stop, published, commands, broker, daemonState, bridgeHistory>>

-----------------------------------------------------------------------------
(* _poll_loop                                                              *)

\* The pause between two polls is long enough for the daemon to answer a status request
\* that it is at, and for a coroutine that reads to read it; a command may take longer.
PauseOver ==
  /\ outbox # <<>> => Head(outbox).cmd # "status"
  /\ reading # {} => inbox = <<>>

\* A poll that collides with the other coroutine fails at once and sleeps again.
PollAsks ==
  /\ poll = "asleep" /\ alive /\ PauseOver /\ Writes(Poller, "status")
  /\ poll' = IF Poller \in reading' THEN "asking" ELSE "asleep"
  /\ UNCHANGED <<at, stop, published, commands, broker, daemonState, bridgeHistory>>

\* An answer to a command has no devices in it and publishes nothing; a status that
\* says something new is noted and then published.
PollReads ==
  /\ poll = "asking" /\ Takes(Poller)
  /\ LET news == Head(inbox) \in Powers \ {published}
     IN /\ poll' = IF news THEN "publishing" ELSE StillPolling
        /\ published' = IF news THEN Head(inbox) ELSE published
  /\ UNCHANGED <<at, stop, commands, broker, daemonState, bridgeHistory>>

\* Mutant of PollFails: an error ends the loop.
PollFailsForGood ==
  /\ poll = "asking" /\ GivesUp(Poller) /\ poll' = "none"
  /\ UNCHANGED <<at, stop, published, commands, broker, daemonState, bridgeHistory>>

PollFails ==
  /\ poll = "asking" /\ GivesUp(Poller) /\ poll' = "asleep"
  /\ UNCHANGED <<at, stop, published, commands, broker, daemonState, bridgeHistory>>

\* Mutant of Publishes: the topic is not retained.
PublishesUnretained ==
  /\ poll = "publishing" /\ poll' = "asleep"
  /\ excuse' = IF mqtt = "up" THEN excuse ELSE excuse \cup CutShort
  /\ UNCHANGED <<ipcVars, at, stop, published, commands, broker, daemonState, asked>>

\* What is published on a connection that is lost does not arrive, whether the
\* client knows it or not.
Publishes ==
  /\ poll = "publishing" /\ poll' = "asleep"
  /\ shown' = IF mqtt = "up" THEN published ELSE shown
  /\ excuse' = IF mqtt = "up" THEN excuse \ {"stale"}
               ELSE excuse \cup CutShort
  /\ UNCHANGED <<ipcVars, at, stop, published, commands, mqtt, available, usable, daemonState, asked>>

-----------------------------------------------------------------------------
(* The daemon, the broker, Home Assistant, systemd                         *)

\* A command may fail.
DaemonAnswers ==
  /\ alive
  /\ \E frame \in ToSet(outbox) :
       /\ tv' \in IF frame.cmd = "status" THEN {tv} ELSE {tv, frame.cmd}
       /\ excuse' = excuse \cup (IF frame.cmd \in {"status", tv'} THEN {} ELSE {"crossed"})
       /\ Answered(frame, tv')
  /\ UNCHANGED <<bridge, broker, alive, leftover, asked>>

\* So may one of an earlier connection.
DaemonFinishesLeftover ==
  /\ leftover # Nothing /\ leftover' = Nothing
  /\ tv' \in {tv, leftover}
  /\ excuse' = excuse \cup (IF tv' = leftover THEN {} ELSE {"crossed"})
  /\ UNCHANGED <<ipcVars, bridge, broker, alive, asked>>

\* Somebody else turns the TV on or off.
TvChanges ==
  /\ tv' \in Powers \ {tv} /\ excuse' = excuse \cup {"crossed"}
  /\ UNCHANGED <<ipcVars, bridge, broker, alive, leftover, asked>>

\* A daemon that ends takes the connection with it: whoever reads gets an error.
DaemonEnds ==
  /\ alive /\ alive' = FALSE /\ Reopens
  /\ poll' = IF poll = "asking" THEN "asleep" ELSE poll
  /\ leftover' = Nothing /\ tv' = "on" /\ excuse' = excuse \cup {"crossed"}
  /\ UNCHANGED <<at, stop, published, commands, broker, asked>>

CommandArrives ==
  /\ mqtt = "up" /\ at \in {"announcing", "serving"} /\ Len(commands) < MaxCommands
  /\ \E power \in Powers : commands' = Append(commands, power)
  /\ UNCHANGED <<ipcVars, at, stop, published, poll, broker, daemonState, bridgeHistory>>

ConnectionLost ==
  /\ mqtt = "up" /\ mqtt' = "lost"
  /\ UNCHANGED <<ipcVars, bridge, available, usable, shown, daemonState, bridgeHistory>>

\* The broker finds the client gone and publishes its will.
WillFires ==
  /\ mqtt = "lost" /\ at \notin {"announcing", "serving"}
  /\ mqtt' = "none" /\ available' = "offline"
  /\ UNCHANGED <<ipcVars, bridge, usable, shown, daemonState, bridgeHistory>>

\* The broker is restarted and has kept nothing.
BrokerForgets ==
  /\ mqtt # "none" /\ mqtt' = IF at \in {"announcing", "serving"} THEN "lost" ELSE "none"
  /\ available' = Nothing /\ usable' = FALSE /\ shown' = Nothing
  /\ excuse' = excuse \cup {"stale"}
  /\ UNCHANGED <<ipcVars, bridge, daemonState, asked>>

Stop ==
  /\ ~stop /\ stop' = TRUE
  /\ UNCHANGED <<ipcVars, at, published, poll, commands, broker, daemonState, bridgeHistory>>

-----------------------------------------------------------------------------
Polls == PollAsks \/ PollReads \/ PollFails \/ Publishes
Serves == Announces \/ HandlesCommand \/ CommandFails \/ CommandReturns

BridgeNext ==
  \/ RunBegins \/ RunFailsToBegin \/ ServeEnds \/ BrokerDropped \/ AnnounceFails
  \/ Stopped
  \/ Polls \/ Serves
  \/ DaemonAnswers \/ DaemonFinishesLeftover \/ TvChanges \/ DaemonEnds
  \/ CommandArrives \/ ConnectionLost \/ WillFires \/ BrokerForgets \/ Stop

\* The bridge's coroutines run and the daemon's handler answers; nobody else has to
\* do anything.
BridgeSpec ==
  /\ BridgeInit /\ [][BridgeNext]_bridgeVars
  /\ WF_bridgeVars(Polls) /\ WF_bridgeVars(Serves) /\ WF_bridgeVars(DaemonAnswers)

-----------------------------------------------------------------------------
\* Whatever connections come and go, the retained state topic is what the bridge
\* believes it to be, but for a publish that failed or was cut short after the cache
\* was set, and for a broker that has forgotten it: those the bridge never repeats
\* until the state changes.
CacheTrue ==
  poll # "publishing" /\ "stale" \notin excuse => shown = published

\* When the bridge is gone and the broker knows it, nobody is told that it is
\* online, but for a bridge that has left the broker in order after an error with
\* the daemon: the will is dropped then, and nothing is retracted.
OfflineWhenGone ==
  at \in {"offline", "stopped"} /\ mqtt = "none" /\ "left" \notin excuse
    => available # "online"

\* Types; and nobody is told that a bridge is online which is gone, in the cases in
\* which the will or the goodbye says so.
BridgeInv == BridgeTypeOK /\ OfflineWhenGone

\* docs/mqtt.md says that the entities go unavailable if the bridge stops.  They go
\* by the availability of their device, which nothing ever retracts.
EntitiesGo ==
  at = "stopped" /\ mqtt = "none" => ~usable

\* When all is quiet the TV is as the last command through the bridge wants it,
\* unless a command has failed, somebody else has changed the TV since, the command
\* met commands of an earlier connection that the daemon was still at, or its connection
\* was closed while the daemon had not come to it.
LastCommandWins ==
  asked # Nothing /\ ~Orders(Sent) /\ leftover = Nothing /\ excuse \cap {"crossed", "dropped"} = {}
    => tv = asked

\* Once the connections stay and the TV does not change any more, the topic comes
\* to show it: the answers that the two coroutines take from each other, collisions
\* and timeouts do not stop the poller.
Settled(power) ==
  at = "serving" /\ mqtt = "up" /\ alive /\ tv = power /\ commands = <<>>
ComesToShow ==
  \A power \in Powers :
    <>[]Settled(power) =>
      []<>(shown = power \/ "stale" \in excuse)
=============================================================================
