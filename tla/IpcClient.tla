------------------------------ MODULE IpcClient ------------------------------
(***************************************************************************)
(* One IpcClient (ipc.py) shared by two coroutines, and the daemon's       *)
(* handler of its connection (daemon/server.py: _handle_client), which     *)
(* takes one frame at a time.                                              *)
(*                                                                         *)
(* request() waits for the answer to the client's latest request, whoever  *)
(* made it, and all coroutines read from one stream.  Of an id only that   *)
(* matters: whether it is the latest, so a frame carries this instead.     *)
(***************************************************************************)
EXTENDS Naturals, Sequences, SequencesExt

CONSTANTS
  Coroutines,  \* those that share the client
  MaxFrames    \* requests the daemon has not handled (bound)

ASSUME IpcClientAssumption == MaxFrames \in Nat \ {0}

VARIABLES
  reading,  \* coroutines inside request(), past the write
  outbox,   \* frames the daemon has not handled yet
  inbox     \* answers the client has not read yet

ipcVars == <<reading, outbox, inbox>>

\* A status request, or a command to turn the TV on or off.  An answer to the latest
\* request is what the TV is then, or that a command is done; the others are skipped.
Frames == [cmd: {"status", "on", "off"}, latest: BOOLEAN]
Answers == {"on", "off", "done", "old"}

IpcTypeOK ==
  /\ reading \in SUBSET Coroutines
  /\ outbox \in Seq(Frames) /\ inbox \in Seq(Answers)
  /\ Len(outbox) <= MaxFrames

Fresh == reading = {} /\ outbox = <<>> /\ inbox = <<>>
Reopens == reading' = {} /\ outbox' = <<>> /\ inbox' = <<>>

\* A new request makes the others, and their answers, old.
Superseded(frames) == [i \in DOMAIN frames |-> [frames[i] EXCEPT !.latest = FALSE]]
Old(answers) == [i \in DOMAIN answers |-> "old"]

\* A stream has one waiting reader: a second one gets a RuntimeError, after its
\* request has been written.
Collides(c) == reading \ {c} # {} /\ inbox = <<>>

Writes(c, cmd) ==
  /\ c \notin reading /\ Len(outbox) < MaxFrames
  /\ outbox' = Append(Superseded(outbox), [cmd |-> cmd, latest |-> TRUE])
  /\ inbox' = Old(inbox)
  /\ reading' = IF Collides(c) THEN reading ELSE reading \cup {c}

\* c takes the next frame and goes on reading unless this is the latest answer.  When
\* two have to wait for more, the one that comes second gets the RuntimeError.
Takes(c) ==
  /\ c \in reading /\ inbox # <<>>
  /\ inbox' = Tail(inbox)
  /\ IF Head(inbox) # "old" THEN reading' = reading \ {c}
     ELSE IF Tail(inbox) = <<>> /\ reading # {c} THEN \E d \in reading : reading' = {d}
     ELSE reading' = reading
  /\ UNCHANGED outbox

\* The timeout, which a request meets behind a command that takes its time, or when
\* another coroutine has taken its answer.
MayGiveUp(c) ==
  /\ c \in reading /\ inbox = <<>>
  /\ outbox = <<>> \/ \E i \in DOMAIN outbox : outbox[i].cmd # "status"

GivesUp(c) ==
  /\ MayGiveUp(c)
  /\ reading' = reading \ {c}
  /\ UNCHANGED <<outbox, inbox>>

Answer(frame, tv) ==
  IF ~frame.latest THEN "old" ELSE IF frame.cmd = "status" THEN tv ELSE "done"

\* Mutant of Answered: a task for each frame, so that a later one may be first.
AnsweredInAnyOrder(frame, tv) ==
  \E i \in DOMAIN outbox :
    /\ frame = outbox[i] /\ outbox' = RemoveAt(outbox, i)
    /\ inbox' = Append(inbox, Answer(frame, tv))
    /\ UNCHANGED reading

\* The daemon handles the first frame; the TV is `tv` after that.
Answered(frame, tv) ==
  /\ frame = Head(outbox) /\ outbox' = Tail(outbox)
  /\ inbox' = Append(inbox, Answer(frame, tv))
  /\ UNCHANGED reading
=============================================================================
