----------------------------- MODULE SsapClient -----------------------------
(***************************************************************************)
(* One client object of ssap/client.py: connect() with the registration    *)
(* and the pairing prompt, the reader task that hands frames to futures    *)
(* and subscriptions, requests of several coroutines, and close() by       *)
(* anyone.  daemon/devices.py makes a new client for every attempt, so a   *)
(* client is connected once.                                               *)
(*                                                                         *)
(* Each action is what a coroutine does between two awaits.                *)
(***************************************************************************)
EXTENDS Naturals, Sequences, FiniteSets

CONSTANTS
  Callers,  \* the coroutines that use the client
  MaxIds,   \* requests over the life of the client (bound)
  MaxWire   \* frames on their way to the client (bound)

ASSUME SsapClientAssumption == MaxIds \in Nat /\ MaxWire \in Nat \ {0}

VARIABLES
  pairing,    \* connect(pairing=...)
  key,        \* SsapClient.client_key
  ws,         \* _ws is not None
  connector,  \* where connect() is
  reader,     \* the task of _read_loop
  ids,        \* _ids
  pending,    \* keys of _pending
  subscribed, \* keys of _subscriptions
  caller,     \* what each coroutine's latest request waits for
  sock,       \* the websocket underneath
  wire,       \* frames the TV has sent
  asked       \* requests the TV has got and not answered

client == <<pairing, key, ws, connector, reader, ids, pending, subscribed, caller>>
network == <<sock, wire, asked>>
vars == <<client, network>>

Ids == 1 .. MaxIds
Frame(type, id) == [type |-> type, id |-> id]
Frames == [type: {"prompt", "registered", "denied", "garbage", "event", "answer"}, id: 0 .. MaxIds]

Waiting(c) == caller[c].at = "waiting"
Open(c) == Waiting(c) /\ caller[c].fut = "open"

\* Types, and that nobody who has left request() is still awaited in _pending.
TypeOK ==
  /\ pairing \in BOOLEAN /\ ws \in BOOLEAN /\ subscribed \in BOOLEAN
  /\ key \in {"none", "stale", "good"}
  /\ connector \in {"idle", "registering", "connected", "failed"}
  /\ reader \in {"none", "created", "unstarted", "running", "cancelled", "raised", "over"}
  /\ ids \in 0 .. MaxIds /\ pending \in SUBSET Ids /\ asked \in SUBSET Ids
  /\ caller \in [Callers -> [at: {"new", "waiting", "answered", "failed"},
                             id: 0 .. MaxIds, fut: {"open", "answer", "error"}]]
  /\ sock \in {"none", "open", "closing", "shut"}
  /\ wire \in Seq(Frames) /\ Len(wire) <= MaxWire
  /\ \A id \in pending : \E c \in Callers : Waiting(c) /\ caller[c].id = id

Init ==
  /\ pairing \in BOOLEAN /\ key \in {"none", "stale", "good"}
  /\ ws = FALSE /\ connector = "idle" /\ reader = "none"
  /\ ids = 0 /\ pending = {} /\ subscribed = FALSE
  /\ caller = [c \in Callers |-> [at |-> "new", id |-> 0, fut |-> "open"]]
  /\ sock = "none" /\ wire = <<>> /\ asked = {}

-----------------------------------------------------------------------------
(* close()                                                                 *)

\* A task that is cancelled before its first step never runs, not even its
\* finally clause.
CancelledReader == CASE reader = "created" -> "unstarted"
                     [] reader = "running" -> "cancelled"
                     [] OTHER -> reader

\* The synchronous part of close(); the closing handshake follows.
Closes ==
  /\ ws' = FALSE
  /\ sock' = IF ws /\ sock = "open" THEN "closing" ELSE sock
  /\ reader' = CancelledReader

\* DeviceSession.disconnect, settle, a failed ping or probe: anyone may close.
Close ==
  /\ connector # "idle" /\ Closes
  /\ UNCHANGED <<pairing, key, connector, ids, pending, subscribed, caller, wire, asked>>

-----------------------------------------------------------------------------
(* connect() and _register()                                               *)

DialOk ==
  /\ connector = "idle" /\ connector' = "registering"
  /\ ws' = TRUE /\ sock' = "open"
  /\ UNCHANGED <<pairing, key, reader, ids, pending, subscribed, caller, wire, asked>>

DialFails ==
  /\ connector = "idle" /\ connector' = "failed"
  /\ UNCHANGED <<pairing, key, ws, reader, ids, pending, subscribed, caller, network>>

\* Every exception in _register closes the client.
RegisterRaises(frames) ==
  /\ connector' = "failed" /\ wire' = frames /\ Closes
  /\ UNCHANGED <<pairing, key, ids, pending, subscribed, caller, asked>>

\* Nothing came in time, the socket has gone, or recv() is called on None.
RegisterFails == connector = "registering" /\ RegisterRaises(wire)

\* The reader task is created even if the client has been closed meanwhile.
Registered(frames) ==
  /\ connector' = "connected" /\ reader' = "created" /\ wire' = frames /\ key' = "good"
  /\ UNCHANGED <<pairing, ws, sock, ids, pending, subscribed, caller, asked>>

StillRegistering(frames) ==
  /\ wire' = frames
  /\ UNCHANGED <<client, sock, asked>>

\* _register takes one frame.  The answer to a request that another coroutine has
\* sent meanwhile is lost here.
RegisterReads ==
  /\ connector = "registering" /\ wire # <<>>
  /\ LET frame == Head(wire).type
         frames == Tail(wire)
     IN CASE frame = "registered" -> Registered(frames)
          [] frame \in {"denied", "garbage"} -> RegisterRaises(frames)
          [] frame = "prompt" /\ ~pairing /\ key # "none" -> RegisterRaises(frames)
          [] OTHER -> IF ws THEN StillRegistering(frames) ELSE RegisterRaises(frames)

-----------------------------------------------------------------------------
(* The reader                                                              *)

\* The assertion at the top of _read_loop is outside its try.
ReaderStarts ==
  /\ reader = "created" /\ reader' = IF ws THEN "running" ELSE "unstarted"
  /\ UNCHANGED <<pairing, key, ws, connector, ids, pending, subscribed, caller, network>>

\* Mutant of Resolved: the oldest pending request gets the answer.
ResolvedInOrder(id) ==
  [c \in Callers |->
     IF Open(c) /\ caller[c].id \in pending /\ \A i \in pending : caller[c].id <= i
       THEN [caller[c] EXCEPT !.fut = "answer"] ELSE caller[c]]

Resolved(id) ==
  [c \in Callers |-> IF Open(c) /\ caller[c].id = id /\ id \in pending
                       THEN [caller[c] EXCEPT !.fut = "answer"] ELSE caller[c]]

\* Mutant of ReaderFinally: the futures are forgotten.
ReaderFinallySilent(how) ==
  /\ pending' = {} /\ ws' = FALSE /\ reader' = how
  /\ UNCHANGED <<pairing, key, connector, ids, subscribed, caller, sock, asked>>

\* Mutant of ReaderFinally: _ws stays set.
ReaderFinallyKeepingWs(how) ==
  /\ caller' = [c \in Callers |-> IF Open(c) /\ caller[c].id \in pending
                                    THEN [caller[c] EXCEPT !.fut = "error"] ELSE caller[c]]
  /\ pending' = {} /\ reader' = how
  /\ UNCHANGED <<ws, pairing, key, connector, ids, subscribed, sock, asked>>

ReaderFinally(how) ==
  /\ caller' = [c \in Callers |-> IF Open(c) /\ caller[c].id \in pending
                                    THEN [caller[c] EXCEPT !.fut = "error"] ELSE caller[c]]
  /\ pending' = {} /\ ws' = FALSE /\ reader' = how
  /\ UNCHANGED <<pairing, key, connector, ids, subscribed, sock, asked>>

\* A frame for a future, for a subscription, or for nobody.  Garbage is passed over if it
\* is not JSON, and raises if it is JSON but not an object.
ReaderReads ==
  /\ reader = "running" /\ wire # <<>>
  /\ wire' = Tail(wire)
  /\ \/ /\ Head(wire).type = "answer" /\ caller' = Resolved(Head(wire).id)
        /\ UNCHANGED <<pairing, key, ws, connector, reader, ids, pending, subscribed, sock, asked>>
     \/ /\ Head(wire).type # "answer"
        /\ UNCHANGED <<client, sock, asked>>
     \/ /\ \/ Head(wire).type = "event" /\ subscribed  \* the callback raises
           \/ Head(wire).type = "garbage"
        /\ ReaderFinally("raised")

\* The iteration ends with the connection, or with close().
ReaderEnds ==
  /\ \/ reader = "running" /\ sock # "open" /\ wire = <<>>
     \/ reader = "cancelled"
  /\ ReaderFinally("over")
  /\ UNCHANGED wire

-----------------------------------------------------------------------------
(* request() and subscribe()                                               *)

Becomes(c, how) == caller' = [caller EXCEPT ![c].at = how]

Request(c) ==
  /\ ~Waiting(c) /\ ws /\ sock = "open" /\ ids < MaxIds
  /\ ids' = ids + 1 /\ pending' = pending \cup {ids'} /\ asked' = asked \cup {ids'}
  /\ caller' = [caller EXCEPT ![c] = [at |-> "waiting", id |-> ids', fut |-> "open"]]
  /\ UNCHANGED <<pairing, key, ws, connector, reader, subscribed, sock, wire>>

\* Not connected, or the frame cannot be sent.
RequestRefused(c) ==
  /\ ~Waiting(c) /\ ~(ws /\ sock = "open") /\ connector # "idle"
  /\ Becomes(c, "failed")
  /\ UNCHANGED <<pairing, key, ws, connector, reader, ids, pending, subscribed, network>>

RequestReturns(c) ==
  /\ Waiting(c) /\ caller[c].fut # "open"
  /\ pending' = pending \ {caller[c].id}
  /\ Becomes(c, IF caller[c].fut = "answer" THEN "answered" ELSE "failed")
  /\ UNCHANGED <<pairing, key, ws, connector, reader, ids, subscribed, network>>

\* The time is up, or the caller is cancelled.
RequestGivesUp(c) ==
  /\ Open(c)
  /\ pending' = pending \ {caller[c].id}
  /\ Becomes(c, "failed")
  /\ UNCHANGED <<pairing, key, ws, connector, reader, ids, subscribed, network>>

\* Subscriptions are never removed.
Subscribe ==
  /\ ws /\ sock = "open" /\ ~subscribed /\ subscribed' = TRUE
  /\ UNCHANGED <<pairing, key, ws, connector, reader, ids, pending, caller, network>>

-----------------------------------------------------------------------------
(* The television and the network                                          *)

Sends(frame) == Len(wire) < MaxWire /\ wire' = Append(wire, frame)
SendsOf(types) == \E type \in types : Sends(Frame(type, 0))

TvAnswers(id) ==
  /\ sock = "open" /\ id \in asked
  /\ Sends(Frame("answer", id)) /\ asked' = asked \ {id}
  /\ UNCHANGED <<client, sock>>

TvRegisters ==
  /\ sock = "open" /\ connector = "registering"
  /\ SendsOf({"registered", "denied"} \cup (IF key = "good" THEN {} ELSE {"prompt"}))
  /\ UNCHANGED <<client, sock, asked>>

TvSends ==
  /\ sock = "open"
  /\ SendsOf({"garbage"} \cup (IF subscribed THEN {"event"} ELSE {}))
  /\ UNCHANGED <<client, sock, asked>>

\* The connection is lost, or the closing handshake is over.
SocketEnds ==
  /\ sock \in {"open", "closing"} /\ sock' = "shut"
  /\ UNCHANGED <<client, wire, asked>>

-----------------------------------------------------------------------------
Reads == ReaderStarts \/ ReaderReads \/ ReaderEnds

Next ==
  \/ Close \/ DialOk \/ DialFails \/ RegisterFails \/ RegisterReads
  \/ Reads
  \/ \E c \in Callers : Request(c) \/ RequestRefused(c) \/ RequestReturns(c) \/ RequestGivesUp(c)
  \/ Subscribe
  \/ (\E id \in Ids : TvAnswers(id)) \/ TvRegisters \/ TvSends \/ SocketEnds

\* The event loop runs what is ready; nobody has to give up, and the TV has to do
\* nothing.
Spec == Init /\ [][Next]_vars /\ WF_vars(Reads)

-----------------------------------------------------------------------------
\* A client that says it is connected is registering or has a reader that will
\* notice the loss of the connection: the session never reuses a client nobody
\* listens on (DeviceSession.connect asks only client.connected).
ConnectedIsWatched ==
  ws => \/ connector = "registering"
        \/ connector = "connected" /\ reader \in {"created", "running"}

\* A socket is open only while somebody still can close it: no path of connect(),
\* close() and the reader forgets one, but for a subscription's callback that
\* raises or a frame that is JSON but not an object, which end the reader and leave the
\* socket to the garbage collector.
NoSocketForgotten == sock = "open" => ws \/ reader = "raised"

\* Types; a connected client is listened to; and no socket is forgotten, whichever of
\* connect(), close() and the reader runs into the other.
Inv == TypeOK /\ ConnectedIsWatched /\ NoSocketForgotten

\* A request whose connection is lost or closed by another coroutine fails at once,
\* without waiting for its timeout, as long as a reader is there to tell it.  A
\* reader that is cancelled before its first step tells nobody.
LossIsNoticed ==
  \A c \in Callers :
    (Open(c) /\ sock # "open" /\ reader \in {"created", "running", "cancelled"})
      ~> (~Open(c) \/ reader = "unstarted")

\* The client keeps the promise of Channel: it goes up once and down for good, and
\* a request that returns was answered itself.
PhaseOf == IF ws THEN "up" ELSE IF connector = "idle" THEN "new" ELSE "down"
CallOf == [c \in Callers |-> IF ~Waiting(c) THEN caller[c].at
                             ELSE IF caller[c].id \in asked THEN "asked" ELSE "handled"]
Promise == INSTANCE Channel WITH phase <- PhaseOf, call <- CallOf
KeepsPromise == Promise!Spec
=============================================================================
