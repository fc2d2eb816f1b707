----------------------------- MODULE StreamWatch -----------------------------
(***************************************************************************)
(* How the session agent sees remote streams (agent/streams.py): it polls  *)
(* Sunshine's log for lines that say a client has connected or gone, and   *)
(* the process list for streaming hosts.                                   *)
(*                                                                         *)
(* A line of the log is TRUE (connected) or FALSE (gone).  What a poll     *)
(* tells the agent is the sequence of its calls of on_change.              *)
(***************************************************************************)
EXTENDS Naturals, FiniteSets, Sequences, SequencesExt

CONSTANT Lines  \* lines in the log at a time (bound)

ASSUME StreamWatchAssumption == Lines \in Nat

VARIABLES
  hosting,   \* Sunshine really has a client
  log,       \* its log
  pos,       \* SunshineWatcher._pos
  sunshine,  \* SunshineWatcher.streaming
  process,   \* ProcessStreamWatcher.active
  unseen     \* history: why the watcher may be wrong about Sunshine

real == <<hosting, log>>
watchers == <<pos, sunshine, process, unseen>>
watchVars == <<real, watchers>>

WatchTypeOK ==
  /\ hosting \in BOOLEAN
  /\ sunshine \in BOOLEAN /\ process \in BOOLEAN
  /\ log \in Seq(BOOLEAN) /\ Len(log) <= Lines /\ pos \in 0 .. Lines
  /\ unseen \in SUBSET {"started", "tail", "rotated", "torn"}

\* The agent starts: only lines to come count.
WatchStarts(size) ==
  /\ pos' = size /\ sunshine' = FALSE /\ process' = FALSE
  /\ unseen' = IF hosting THEN {"started"} ELSE {}

WatchInit ==
  /\ hosting \in BOOLEAN
  /\ log = <<>> /\ pos = 0 /\ sunshine = FALSE /\ process = FALSE
  /\ unseen = IF hosting THEN {"started"} ELSE {}

-----------------------------------------------------------------------------
(* Sunshine and the other programs                                         *)

ClientComesOrGoes ==
  /\ Len(log) < Lines
  /\ hosting' = ~hosting /\ log' = Append(log, hosting')
  /\ UNCHANGED watchers

LogRotates ==
  /\ log # <<>> /\ log' = <<>>
  /\ unseen' = unseen \cup {"rotated"} \cup (IF pos < Len(log) \/ "rotated" \in unseen THEN {"tail"} ELSE {})
  /\ UNCHANGED <<hosting, pos, sunshine, process>>

-----------------------------------------------------------------------------
(* The polls                                                               *)

\* Mutant of ReadFrom: rotation goes unnoticed.
ReadFromPos == pos

\* A log that is shorter than what was read of it is read again from its start.
ReadFrom == IF Len(log) < pos THEN 0 ELSE pos

\* The lines that say something new.
Flips(chunk) ==
  {i \in DOMAIN chunk : chunk[i] # IF i = 1 THEN sunshine ELSE chunk[i - 1]}

\* on_change is called for each of them with what it says, which alternates.
Calls(chunk) ==
  [i \in 1 .. Cardinality(Flips(chunk)) |-> IF i % 2 = 1 THEN ~sunshine ELSE sunshine]

\* The lines a poll reads.  A line that is being written is read in two halves,
\* neither of which matches.
Chunk(torn) ==
  LET lines == SubSeq(log, ReadFrom + 1, Len(log))
  IN IF torn THEN Front(lines) ELSE lines

SunshinePolls(torn) ==
  LET chunk == Chunk(torn)
      size == Len(log)
  IN /\ torn => ReadFrom < size
     /\ pos' = IF ReadFrom > size THEN ReadFrom ELSE size
     /\ sunshine' = IF chunk = <<>> THEN sunshine ELSE Last(chunk)
     /\ unseen' = IF torn THEN {"torn"}
                  ELSE IF size < pos THEN (IF size = 0 THEN unseen \ {"rotated"} ELSE {})
                  ELSE IF size > pos THEN {} ELSE unseen
     /\ UNCHANGED <<real, process>>

\* A poll tells only of a change: a matching process runs now, or none does any more.
ProcessPolls ==
  /\ process' = ~process
  /\ UNCHANGED <<real, pos, sunshine, unseen>>

-----------------------------------------------------------------------------
\* Once a poll has caught up with the log the watcher is right about the stream,
\* whatever rotations came between polls, but for a stream that was on before the
\* agent, for lines that were rotated away unread, for a log that has grown again
\* past the old position, and for a line caught while it was written.
SunshineFollows == pos = Len(log) /\ unseen = {} => sunshine = hosting
=============================================================================
