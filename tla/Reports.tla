------------------------------- MODULE Reports -------------------------------
(***************************************************************************)
(* The report path: what the session agent (agent/main.py) knows of the    *)
(* session and what the daemon believes of it (daemon/main.py: _on_report, *)
(* StreamController.streaming, VetoEngine).                                *)
(*                                                                         *)
(* Reports wait in a bounded queue; a single coroutine sends them.  The    *)
(* agent learns that the daemon has gone only when it sends.  On each new  *)
(* connection it sends the film state first, and nothing else.             *)
(***************************************************************************)
EXTENDS StreamWatch

CONSTANT QueueSize  \* maxsize of _send_queue

ASSUME ReportsAssumption == QueueSize \in Nat \ {0}

VARIABLES
  film,     \* Agent._state
  combined, \* Agent._stream_combined
  queue,    \* Agent._send_queue
  conn,     \* Agent._client's connection: "none", "up", or "broken" unnoticed
  up,       \* the daemon runs
  belief,   \* what the daemon believes
  missed    \* history: kinds of report the daemon has not got, and will not

agent == <<film, combined, queue, conn>>
daemonView == <<up, belief>>
reportsVars == <<watchVars, agent, daemonView, missed>>

\* Reports of a state, and reports of an event: input, or the screen lock.
Kinds == {"film", "streaming"}
Event == [kind |-> "event", value |-> TRUE]
Report(kind, value) == [kind |-> kind, value |-> value]
AllReports == [kind: Kinds, value: BOOLEAN] \cup {Event}

ReportsTypeOK ==
  /\ WatchTypeOK
  /\ film \in BOOLEAN
  /\ combined = (sunshine \/ process)
  /\ queue \in Seq(AllReports) /\ Len(queue) <= QueueSize
  /\ conn \in {"none", "up", "broken"} /\ up \in BOOLEAN
  /\ belief \in [Kinds -> BOOLEAN] /\ missed \in SUBSET Kinds

Unknown == [kind \in Kinds |-> FALSE]

ReportsInit ==
  /\ WatchInit
  /\ film = FALSE /\ combined = FALSE
  /\ queue = <<>> /\ conn = "none" /\ up \in BOOLEAN
  /\ belief = Unknown /\ missed = {}

\* What the agent knows of each kind.
Known == [kind \in Kinds |-> CASE kind = "film" -> film
                               [] kind = "streaming" -> combined]

-----------------------------------------------------------------------------
(* The agent puts reports into its queue                                   *)

\* put_nowait for each report in turn; what does not fit is dropped.
Fits(reports) ==
  [i \in {i \in DOMAIN reports : Len(queue) + i <= QueueSize} |-> reports[i]]

\* A report that is queued brings the daemon up to date with its kind; one that is
\* dropped leaves it behind.
Puts(reports) ==
  /\ queue' = queue \o Fits(reports)
  /\ missed' = IF reports = <<>> \/ Last(reports) = Event THEN missed
               ELSE IF Fits(reports) = reports THEN missed \ {Last(reports).kind}
               ELSE missed \cup {Last(reports).kind}

\* _state_loop finds another state than the last time.
FilmPoll ==
  /\ film' = ~film /\ Puts(<<Report("film", film')>>)
  /\ UNCHANGED <<watchVars, combined, conn, daemonView>>

Happens == Puts(<<Event>>) /\ UNCHANGED <<watchVars, film, combined, conn, daemonView>>

\* Reported at most once a second, which only makes it rarer.
Input == Happens

LockChange == Happens

\* Of one source's changes, those that change the OR of both.
Combine(calls, other) == IF other THEN <<>> ELSE calls

SetStreamSource(calls, other) ==
  /\ Puts([i \in 1 .. Len(Combine(calls, other)) |-> Report("streaming", Combine(calls, other)[i])])
  /\ combined' = (sunshine' \/ process')
  /\ UNCHANGED <<film, conn, daemonView>>

SunshinePoll ==
  \E torn \in BOOLEAN : SunshinePolls(torn) /\ SetStreamSource(Calls(Chunk(torn)), process)

ProcessPoll == ProcessPolls /\ SetStreamSource(<<process'>>, sunshine)

-----------------------------------------------------------------------------
(* Agent.run                                                               *)

\* Mutant of Connects: nothing is said on a new connection.
ConnectsSilently ==
  /\ conn = "none" /\ up /\ conn' = "up"
  /\ UNCHANGED <<watchVars, film, combined, queue, daemonView, missed>>

Connects ==
  /\ conn = "none" /\ up /\ conn' = "up"
  /\ belief' = [belief EXCEPT !["film"] = film]
  /\ missed' = IF \E i \in DOMAIN queue : queue[i].kind = "film" THEN missed ELSE missed \ {"film"}
  /\ UNCHANGED <<watchVars, film, combined, queue, up>>

\* The daemon's _on_report.
Handled(report) ==
  IF report = Event THEN belief ELSE [belief EXCEPT ![report.kind] = report.value]

Sends ==
  /\ conn = "up" /\ queue # <<>>
  /\ queue' = Tail(queue) /\ belief' = Handled(Head(queue))
  /\ UNCHANGED <<watchVars, film, combined, conn, up, missed>>

\* Nothing of this kind is queued behind the report that is lost.
LastOfKind(report) == \A i \in 2 .. Len(queue) : queue[i].kind # report.kind

\* Mutant of SendFails: the report is tried again on the dead connection.
SendFailsRetrying ==
  /\ conn = "broken" /\ queue # <<>>
  /\ UNCHANGED reportsVars

\* The daemon has gone: the report that shows it is lost, and so may be one before
\* it that was still in the socket.  The film state is sent again on reconnecting.
SendFails ==
  /\ conn = "broken" /\ queue # <<>> /\ queue' = Tail(queue)
  /\ conn' \in {"none", "broken"}
  /\ missed' = missed \cup (IF Head(queue).kind = "streaming" /\ LastOfKind(Head(queue))
                              THEN {Head(queue).kind} ELSE {})
  /\ UNCHANGED <<watchVars, film, combined, daemonView>>

-----------------------------------------------------------------------------
(* Crashes and restarts                                                    *)

DaemonStops ==
  /\ up /\ up' = FALSE
  /\ conn' = IF conn = "up" THEN "broken" ELSE conn
  /\ belief' = Unknown
  /\ missed' = missed \cup {kind \in Kinds \ {"film"} : Known[kind]}
  /\ UNCHANGED <<watchVars, film, combined, queue>>

DaemonStarts ==
  /\ ~up /\ up' = TRUE
  /\ UNCHANGED <<watchVars, agent, belief, missed>>

\* The agent is restarted (an update, a new session): what was queued is gone.
AgentRestarts ==
  /\ WatchStarts(Len(log)) /\ UNCHANGED real
  /\ film' = FALSE /\ combined' = FALSE
  /\ queue' = <<>> /\ conn' = "none"
  /\ missed' = (missed \ {"film"}) \cup
       (IF belief["streaming"] THEN {"streaming"} ELSE {})
  /\ UNCHANGED daemonView

-----------------------------------------------------------------------------
World == \/ ClientComesOrGoes /\ UNCHANGED <<agent, daemonView, missed>>
         \/ LogRotates /\ UNCHANGED <<agent, daemonView, missed>>

AgentRuns == Connects \/ Sends \/ SendFails

ReportsNext ==
  \/ World
  \/ FilmPoll \/ Input \/ LockChange \/ SunshinePoll \/ ProcessPoll
  \/ AgentRuns
  \/ DaemonStops \/ DaemonStarts \/ AgentRestarts

\* The agent's coroutine runs; systemd restarts the daemon.
ReportsSpec ==
  /\ ReportsInit /\ [][ReportsNext]_reportsVars
  /\ WF_reportsVars(AgentRuns) /\ WF_reportsVars(DaemonStarts)

-----------------------------------------------------------------------------
Quiet == conn = "up" /\ queue = <<>>

\* Types, and the log watcher is right about the stream once it has caught up.
ReportsInv == ReportsTypeOK /\ SunshineFollows

\* When the agent is connected and has nothing left to send, the daemon believes
\* of films and streams what the agent knows, whatever restarts and lost
\* connections there were, but for the kinds whose last report was dropped at a
\* full queue, lost with a connection or forgotten in a restart.  The film state
\* is never lost with a connection, because each new one starts with it.
Informed == Quiet => \A kind \in Kinds \ missed : belief[kind] = Known[kind]

\* A full queue does not stay full once the daemon stays up: the agent finds out
\* that a connection is dead, makes a new one and gets rid of its reports.
QueueMoves == []<>~up \/ (Len(queue) = QueueSize ~> Len(queue) < QueueSize)
=============================================================================
