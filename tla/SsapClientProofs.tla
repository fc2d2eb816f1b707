-------------------------- MODULE SsapClientProofs --------------------------
(***************************************************************************)
(* Proofs about SsapClient, for any callers, numbers of requests and of    *)
(* frames on their way: its invariant, and that it implements Channel.     *)
(***************************************************************************)
EXTENDS SsapClient, TLAPS

-----------------------------------------------------------------------------
(* The inductive invariant                                                 *)

\* connect() is called once; the reader is created when it has succeeded, and a
\* reader is cancelled only by a close() that has closed the socket.
Stages ==
  /\ connector = "idle" => ~ws
  /\ connector # "connected" => reader = "none"
  /\ reader = "cancelled" => sock # "open"

\* What is asked, awaited or answered has been requested; what is answered is no
\* longer asked.
Numbered ==
  /\ asked \subseteq 1 .. ids
  /\ \A c \in Callers : Waiting(c) => caller[c].id \in 1 .. ids
  /\ \A i \in DOMAIN wire : wire[i].type = "answer" => wire[i].id \in (1 .. ids) \ asked

\* No two coroutines wait for one request.
Own == \A c, d \in Callers :
         Waiting(c) /\ Waiting(d) /\ caller[c].id = caller[d].id => c = d

\* A future that has a result was answered by the television.
Resulted == \A c \in Callers : Waiting(c) /\ caller[c].fut = "answer" => caller[c].id \notin asked

IInv ==
  /\ TypeOK /\ ConnectedIsWatched /\ NoSocketForgotten
  /\ Stages /\ Numbered /\ Own /\ Resulted

-----------------------------------------------------------------------------
(* Frames on their way                                                     *)

LEMMA HeadFacts ==
  ASSUME wire \in Seq(Frames), wire # <<>>
  PROVE  /\ Head(wire) \in Frames /\ Head(wire) = wire[1] /\ 1 \in DOMAIN wire
         /\ Tail(wire) \in Seq(Frames) /\ Len(Tail(wire)) < Len(wire)
         /\ \A i \in DOMAIN Tail(wire) : i + 1 \in DOMAIN wire /\ Tail(wire)[i] = wire[i + 1]
OBVIOUS

LEMMA AppendFacts ==
  ASSUME wire \in Seq(Frames), NEW frame \in Frames, Sends(frame)
  PROVE  /\ wire' \in Seq(Frames) /\ Len(wire') <= MaxWire
         /\ \A i \in DOMAIN wire' :
              wire'[i] = frame \/ (i \in DOMAIN wire /\ wire'[i] = wire[i])
BY SsapClientAssumption DEF Sends

\* A frame is taken from the wire, or none.
Takes == wire' = wire \/ (wire # <<>> /\ wire' = Tail(wire))

LEMMA TakesFacts ==
  ASSUME TypeOK, Takes
  PROVE  /\ wire' \in Seq(Frames) /\ Len(wire') <= MaxWire
         /\ \A i \in DOMAIN wire' : \E j \in DOMAIN wire : wire'[i] = wire[j]
<1>1. wire \in Seq(Frames) /\ Len(wire) <= MaxWire
  BY DEF TypeOK
<1>2. CASE wire' = wire
  BY <1>1, <1>2
<1>3. CASE wire # <<>> /\ wire' = Tail(wire)
  <2>1. /\ Tail(wire) \in Seq(Frames) /\ Len(Tail(wire)) < Len(wire)
        /\ \A i \in DOMAIN Tail(wire) : i + 1 \in DOMAIN wire /\ Tail(wire)[i] = wire[i + 1]
    BY <1>1, <1>3, HeadFacts
  <2>2. Len(wire) \in Nat /\ Len(Tail(wire)) \in Nat
    BY <1>1, <2>1
  <2>3. QED
    BY <1>1, <1>3, <2>1, <2>2, SsapClientAssumption
<1>4. QED
  BY <1>2, <1>3 DEF Takes

-----------------------------------------------------------------------------
(* Steps that leave all requests where they are                            *)

CallerState == [at: {"new", "waiting", "answered", "failed"},
                id: 0 .. MaxIds, fut: {"open", "answer", "error"}]

\* Futures get results at most, and those that get the television's answer were
\* handled by it.
Listens ==
  /\ UNCHANGED <<ids, asked>> /\ pending' \in {pending, {}} /\ Takes
  /\ caller' \in [Callers -> CallerState]
  /\ \A c \in Callers :
       /\ caller'[c].at = caller[c].at /\ caller'[c].id = caller[c].id
       /\ caller'[c].fut = "answer" => caller[c].fut = "answer" \/ caller[c].id \notin asked

\* The rest of TypeOK.
Controls ==
  /\ pairing \in BOOLEAN /\ ws \in BOOLEAN /\ subscribed \in BOOLEAN
  /\ key \in {"none", "stale", "good"}
  /\ connector \in {"idle", "registering", "connected", "failed"}
  /\ reader \in {"none", "created", "unstarted", "running", "cancelled", "raised", "over"}
  /\ sock \in {"none", "open", "closing", "shut"}
  /\ ConnectedIsWatched /\ NoSocketForgotten /\ Stages

LEMMA ControlsNow == IInv => Controls
BY DEF IInv, TypeOK, Controls

LEMMA ListensKeeps ==
  ASSUME IInv, Listens, Controls'
  PROVE  IInv'
<1>1. TypeOK'
  BY TakesFacts DEF IInv, TypeOK, Listens, CallerState, Controls, Waiting
<1>2. Numbered'
  BY TakesFacts DEF IInv, Listens, Numbered, Waiting
<1>3. Own'
  BY DEF IInv, Listens, Own, Waiting
<1>4. Resulted'
  BY DEF IInv, Listens, Resulted, Waiting
<1>5. QED
  BY <1>1, <1>2, <1>3, <1>4 DEF IInv, Controls

\* A step that touches no request at all.
LEMMA Untouched ==
  ASSUME IInv, UNCHANGED <<ids, pending, asked, caller>>, Takes
  PROVE  Listens
BY DEF IInv, TypeOK, Listens, CallerState

LEMMA CloseKeeps == ASSUME IInv, Close PROVE IInv'
<1>1. Listens
  BY Untouched DEF Close, Takes
<1>2. Controls'
  BY ControlsNow DEF Close, Closes, CancelledReader, Controls, Stages, ConnectedIsWatched,
         NoSocketForgotten
<1>3. QED
  BY <1>1, <1>2, ListensKeeps

LEMMA DialKeeps == ASSUME IInv, DialOk \/ DialFails PROVE IInv'
<1>1. Listens
  BY Untouched DEF DialOk, DialFails, network, Takes
<1>2. connector = "idle" /\ reader = "none" /\ ~ws
  BY DEF IInv, Stages, DialOk, DialFails
<1>3. DialOk => Controls'
  BY <1>2, ControlsNow DEF DialOk, Controls, Stages, ConnectedIsWatched,
         NoSocketForgotten
<1>4. DialFails => Controls'
  BY <1>2, ControlsNow DEF DialFails, network, Controls, Stages, ConnectedIsWatched,
         NoSocketForgotten
<1>5. QED
  BY <1>1, <1>3, <1>4, ListensKeeps

LEMMA RegisterRaisesKeeps ==
  ASSUME IInv, connector = "registering", NEW frames, RegisterRaises(frames),
         frames = wire \/ (wire # <<>> /\ frames = Tail(wire))
  PROVE  IInv'
<1>1. Listens
  BY Untouched DEF RegisterRaises, Takes
<1>2. Controls'
  BY ControlsNow DEF RegisterRaises, Closes, CancelledReader, Controls, Stages,
         ConnectedIsWatched, NoSocketForgotten
<1>3. QED
  BY <1>1, <1>2, ListensKeeps

LEMMA RegisterKeeps == ASSUME IInv, RegisterFails \/ RegisterReads PROVE IInv'
<1>1. CASE RegisterFails
  BY <1>1, RegisterRaisesKeeps DEF RegisterFails
<1>2. CASE RegisterReads
  <2>1. connector = "registering" /\ wire # <<>>
    BY <1>2 DEF RegisterReads
  <2>2. \/ Registered(Tail(wire)) \/ RegisterRaises(Tail(wire))
        \/ StillRegistering(Tail(wire))
    BY <1>2 DEF RegisterReads
  <2>3. CASE RegisterRaises(Tail(wire))
    BY <2>1, <2>3, RegisterRaisesKeeps
  <2>4. CASE Registered(Tail(wire)) \/ StillRegistering(Tail(wire))
    <3>1. Listens
      BY <2>1, <2>4, Untouched DEF Registered, StillRegistering, client, Takes
    <3>2. Controls'
      BY <2>1, <2>4, ControlsNow DEF Registered, StillRegistering, client, Controls, Stages,
         ConnectedIsWatched, NoSocketForgotten
    <3>3. QED
      BY <3>1, <3>2, ListensKeeps
  <2>5. QED
    BY <2>2, <2>3, <2>4
<1>3. QED
  BY <1>1, <1>2

-----------------------------------------------------------------------------
(* The reader                                                              *)

LEMMA ReaderStartsKeeps == ASSUME IInv, ReaderStarts PROVE IInv'
<1>1. Listens
  BY Untouched DEF ReaderStarts, network, Takes
<1>2. Controls'
  BY ControlsNow DEF ReaderStarts, network, Controls, Stages, ConnectedIsWatched,
         NoSocketForgotten
<1>3. QED
  BY <1>1, <1>2, ListensKeeps

\* Whoever waits gets an error; the reader has ended, and its socket, unless a
\* callback has raised.
LEMMA ReaderFinallyKeeps ==
  ASSUME IInv, NEW how \in {"raised", "over"}, ReaderFinally(how), Takes,
         reader \in {"running", "cancelled"}, how = "raised" \/ sock # "open"
  PROVE  IInv'
<1>1. Listens
  <2> DEFINE g(c) == [caller[c] EXCEPT !.fut = "error"]
  <2>1. caller \in [Callers -> CallerState]
    BY DEF IInv, TypeOK, CallerState
  <2>2. \A c \in Callers : /\ g(c) \in CallerState /\ g(c).at = caller[c].at
                          /\ g(c).id = caller[c].id /\ g(c).fut = "error"
    BY <2>1 DEF CallerState
  <2>3. caller' = [c \in Callers |-> IF Open(c) /\ caller[c].id \in pending THEN g(c) ELSE caller[c]]
    BY DEF ReaderFinally
  <2> HIDE DEF g
  <2>4. caller' \in [Callers -> CallerState]
    BY <2>1, <2>2, <2>3
  <2>5. UNCHANGED <<ids, asked>> /\ pending' = {}
    BY DEF ReaderFinally
  <2>6. QED
    BY <2>2, <2>3, <2>4, <2>5 DEF Listens, CallerState
<1>2. Controls'
  BY ControlsNow DEF ReaderFinally, Controls, Stages, ConnectedIsWatched, NoSocketForgotten
<1>3. QED
  BY <1>1, <1>2, ListensKeeps

\* The television answers only what it has been asked, and no longer has it to answer.
LEMMA ResolvedKeeps ==
  ASSUME IInv, NEW id, id \notin asked, caller' = Resolved(id),
         UNCHANGED <<ids, pending, asked>>, Takes
  PROVE  Listens
BY DEF IInv, TypeOK, Listens, CallerState, Resolved, Open, Waiting

LEMMA ReaderReadsKeeps == ASSUME IInv, ReaderReads PROVE IInv'
<1>1. reader = "running" /\ wire # <<>> /\ wire' = Tail(wire) /\ Takes
  BY DEF ReaderReads, Takes
<1>2. CASE Head(wire).type = "answer" /\ caller' = Resolved(Head(wire).id)
        /\ UNCHANGED <<pairing, key, ws, connector, reader, ids, pending, subscribed, sock, asked>>
  <2>1. Head(wire).id \notin asked
    BY <1>1, <1>2, HeadFacts DEF IInv, TypeOK, Numbered
  <2>2. Listens
    BY <1>1, <1>2, <2>1, ResolvedKeeps
  <2>3. Controls'
    BY <1>2, ControlsNow DEF Controls, Stages, ConnectedIsWatched, NoSocketForgotten
  <2>4. QED
    BY <2>2, <2>3, ListensKeeps
<1>3. CASE UNCHANGED <<client, sock, asked>>
  <2>1. Listens
    BY <1>1, <1>3, Untouched DEF client
  <2>2. Controls'
    BY <1>3 DEF client, IInv, TypeOK, Controls, Stages, ConnectedIsWatched, NoSocketForgotten
  <2>3. QED
    BY <2>1, <2>2, ListensKeeps
<1>4. CASE ReaderFinally("raised")
  BY <1>1, <1>4, ReaderFinallyKeeps
<1>5. QED
  BY <1>2, <1>3, <1>4 DEF ReaderReads

LEMMA ReaderEndsKeeps == ASSUME IInv, ReaderEnds PROVE IInv'
<1>1. reader \in {"running", "cancelled"} /\ sock # "open"
  BY DEF IInv, Stages, ReaderEnds
<1>2. ReaderFinally("over") /\ Takes
  BY DEF ReaderEnds, Takes
<1>3. QED
  BY <1>1, <1>2, ReaderFinallyKeeps

-----------------------------------------------------------------------------
(* Requests                                                                *)

\* The control of the client, when a step leaves it alone.
LEMMA ControlsStay ==
  ASSUME IInv, UNCHANGED <<pairing, key, ws, connector, reader, subscribed, sock>>
  PROVE  Controls'
BY ControlsNow DEF Controls, Stages, ConnectedIsWatched, NoSocketForgotten

LEMMA RequestKeeps == ASSUME IInv, NEW c \in Callers, Request(c) PROVE IInv'
<1> DEFINE r == [at |-> "waiting", id |-> ids + 1, fut |-> "open"]
<1>1. /\ ids \in Nat /\ ids < MaxIds /\ ids' = ids + 1 /\ ids' \in Ids
      /\ ids' \in 0 .. MaxIds /\ ids' \notin asked /\ ~Waiting(c)
  BY SsapClientAssumption DEF IInv, TypeOK, Numbered, Request, Ids
<1>2. /\ caller' \in [Callers -> CallerState] /\ caller'[c] = r
      /\ \A d \in Callers \ {c} : caller'[d] = caller[d]
  BY <1>1 DEF IInv, TypeOK, Request, CallerState
<1>3. /\ r.at = "waiting" /\ r.id = ids' /\ r.fut = "open"
      /\ pending' = pending \cup {ids'} /\ asked' = asked \cup {ids'} /\ wire' = wire
  BY <1>1 DEF Request
<1> HIDE DEF r
<1>4. Controls'
  BY ControlsStay DEF Request
<1>5. \A id \in pending' : \E d \in Callers : Waiting(d)' /\ caller'[d].id = id
  BY <1>1, <1>2, <1>3 DEF IInv, TypeOK, Waiting
<1>6. TypeOK'
  BY <1>1, <1>2, <1>3, <1>4, <1>5 DEF IInv, TypeOK, Controls, CallerState
<1>7. Numbered'
  BY <1>1, <1>2, <1>3 DEF IInv, Numbered, Waiting
<1>8. \A d \in Callers : d # c /\ Waiting(d) => caller[d].id # ids'
  BY <1>1 DEF IInv, Numbered
<1>9. Own'
  BY <1>2, <1>3, <1>8 DEF IInv, Own, Waiting
<1>10. Resulted'
  BY <1>2, <1>3, <1>8 DEF IInv, Resulted, Waiting
<1>11. QED
  BY <1>4, <1>6, <1>7, <1>9, <1>10 DEF IInv, Controls

\* A request that is over, or that never was.
LEMMA BecomesKeeps ==
  ASSUME IInv, NEW c \in Callers, NEW how \in {"answered", "failed"}, Becomes(c, how),
         pending' = pending \/ pending' = pending \ {caller[c].id},
         ~Waiting(c) \/ pending' = pending \ {caller[c].id},
         UNCHANGED <<pairing, key, ws, connector, reader, ids, subscribed, network>>
  PROVE  IInv'
<1>1. /\ caller' \in [Callers -> CallerState] /\ ~Waiting(c)'
      /\ \A d \in Callers \ {c} : caller'[d] = caller[d]
  BY DEF IInv, TypeOK, Becomes, Waiting, CallerState
<1>2. Controls' /\ UNCHANGED <<ids, asked, wire, sock>>
  BY ControlsStay DEF network
<1>3. \A id \in pending' : \E d \in Callers : Waiting(d)' /\ caller'[d].id = id
  BY <1>1 DEF IInv, TypeOK, Waiting
<1>4. TypeOK'
  BY <1>1, <1>2, <1>3 DEF IInv, TypeOK, Controls, CallerState
<1>5. Numbered' /\ Own' /\ Resulted'
  BY <1>1, <1>2 DEF IInv, Numbered, Own, Resulted, Waiting
<1>6. QED
  BY <1>2, <1>4, <1>5 DEF IInv, Controls

LEMMA CallerKeeps ==
  ASSUME IInv, NEW c \in Callers,
         Request(c) \/ RequestRefused(c) \/ RequestReturns(c) \/ RequestGivesUp(c)
  PROVE  IInv'
<1>1. CASE Request(c)
  BY <1>1, RequestKeeps
<1>2. CASE RequestRefused(c)
  BY <1>2, BecomesKeeps DEF RequestRefused
<1>3. CASE RequestReturns(c)
  BY <1>3, BecomesKeeps DEF RequestReturns
<1>4. CASE RequestGivesUp(c)
  BY <1>4, BecomesKeeps DEF RequestGivesUp
<1>5. QED
  BY <1>1, <1>2, <1>3, <1>4

LEMMA SubscribeKeeps == ASSUME IInv, Subscribe PROVE IInv'
<1>1. Listens
  BY Untouched DEF Subscribe, network, Takes
<1>2. Controls'
  BY ControlsNow DEF Subscribe, network, Controls, Stages, ConnectedIsWatched,
         NoSocketForgotten
<1>3. QED
  BY <1>1, <1>2, ListensKeeps

-----------------------------------------------------------------------------
(* The television                                                          *)

\* Something is sent that answers nothing, or answers what is asked no longer.
LEMMA SendsKeeps ==
  ASSUME IInv, NEW frame \in Frames, Sends(frame), asked' \subseteq asked,
         frame.type = "answer" => frame.id \in 1 .. ids /\ frame.id \notin asked',
         UNCHANGED <<client, sock>>
  PROVE  IInv'
<1>1. /\ wire' \in Seq(Frames) /\ Len(wire') <= MaxWire
      /\ \A i \in DOMAIN wire' :
           wire'[i] = frame \/ (i \in DOMAIN wire /\ wire'[i] = wire[i])
  BY AppendFacts DEF IInv, TypeOK
<1>2. Controls' /\ UNCHANGED <<ids, pending, caller>>
  BY ControlsStay DEF client
<1>3. TypeOK'
  BY <1>1, <1>2 DEF IInv, TypeOK, Controls, Waiting
<1>4. Numbered'
  BY <1>1, <1>2 DEF IInv, Numbered, Waiting
<1>5. Own' /\ Resulted'
  BY <1>2 DEF IInv, Own, Resulted, Waiting
<1>6. QED
  BY <1>2, <1>3, <1>4, <1>5 DEF IInv, Controls

LEMMA TvKeeps ==
  ASSUME IInv, (\E id \in Ids : TvAnswers(id)) \/ TvRegisters \/ TvSends
  PROVE  IInv'
<1>1. ASSUME NEW id \in Ids, TvAnswers(id) PROVE IInv'
  <2>1. Frame("answer", id) \in Frames /\ id \in 1 .. ids
    BY <1>1, SsapClientAssumption DEF TvAnswers, Frame, Frames, Ids, IInv, Numbered
  <2>2. QED
    BY <1>1, <2>1, SendsKeeps DEF TvAnswers, Frame
<1>2. CASE TvRegisters \/ TvSends
  <2>1. PICK type \in {"prompt", "registered", "denied", "garbage", "event"} :
           Sends(Frame(type, 0)) /\ UNCHANGED <<client, sock, asked>>
    BY <1>2 DEF TvRegisters, TvSends, SendsOf
  <2>2. Frame(type, 0) \in Frames /\ Frame(type, 0).type # "answer"
    BY SsapClientAssumption DEF Frame, Frames
  <2>3. QED
    BY <2>1, <2>2, SendsKeeps
<1>3. QED
  BY <1>1, <1>2

LEMMA SocketEndsKeeps == ASSUME IInv, SocketEnds PROVE IInv'
<1>1. Listens
  BY Untouched DEF SocketEnds, client, Takes
<1>2. Controls'
  BY ControlsNow DEF SocketEnds, client, Controls, Stages, ConnectedIsWatched,
         NoSocketForgotten
<1>3. QED
  BY <1>1, <1>2, ListensKeeps

-----------------------------------------------------------------------------
(* The invariant holds                                                     *)

LEMMA InitIInv == Init => IInv
<1> SUFFICES ASSUME Init PROVE IInv
  OBVIOUS
<1>1. /\ wire \in Seq(Frames) /\ Len(wire) <= MaxWire /\ DOMAIN wire = {}
      /\ ids = 0 /\ ids \in 0 .. MaxIds /\ pending = {} /\ asked = {}
  BY SsapClientAssumption DEF Init
<1>2. caller \in [Callers -> CallerState] /\ \A c \in Callers : ~Waiting(c)
  BY SsapClientAssumption DEF Init, CallerState, Waiting
<1>3. Controls
  BY DEF Init, Controls, Stages, ConnectedIsWatched, NoSocketForgotten
<1>4. TypeOK
  BY <1>1, <1>2, <1>3 DEF TypeOK, Controls, CallerState
<1>5. Numbered /\ Own /\ Resulted
  BY <1>1, <1>2 DEF Numbered, Own, Resulted
<1>6. QED
  BY <1>3, <1>4, <1>5 DEF IInv, Controls

LEMMA NextIInv == IInv /\ [Next]_vars => IInv'
<1> SUFFICES ASSUME IInv, [Next]_vars PROVE IInv'
  OBVIOUS
<1>1. CASE Close
  BY <1>1, CloseKeeps
<1>2. CASE DialOk \/ DialFails
  BY <1>2, DialKeeps
<1>3. CASE RegisterFails \/ RegisterReads
  BY <1>3, RegisterKeeps
<1>4. CASE Reads
  BY <1>4, ReaderStartsKeeps, ReaderReadsKeeps, ReaderEndsKeeps DEF Reads
<1>5. CASE \E c \in Callers :
             Request(c) \/ RequestRefused(c) \/ RequestReturns(c) \/ RequestGivesUp(c)
  BY <1>5, CallerKeeps
<1>6. CASE Subscribe
  BY <1>6, SubscribeKeeps
<1>7. CASE (\E id \in Ids : TvAnswers(id)) \/ TvRegisters \/ TvSends
  BY <1>7, TvKeeps
<1>8. CASE SocketEnds
  BY <1>8, SocketEndsKeeps
<1>9. CASE UNCHANGED vars
  <2>1. Listens /\ Controls'
    BY <1>9, Untouched, ControlsStay DEF vars, client, network, Takes
  <2>2. QED
    BY <2>1, ListensKeeps
<1>10. QED
  BY <1>1, <1>2, <1>3, <1>4, <1>5, <1>6, <1>7, <1>8, <1>9 DEF Next

LEMMA InvariantIInv == Spec => []IInv
BY InitIInv, NextIInv, PTL DEF Spec

\* The invariant that the run checks: a client that says it is connected is listened
\* to, and no path of connect(), close() and the reader forgets a socket, whichever
\* runs into the other.
THEOREM InvHolds == Spec => []Inv
<1>1. IInv => Inv
  BY DEF IInv, Inv
<1>2. QED
  BY <1>1, InvariantIInv, PTL

-----------------------------------------------------------------------------
(* The client implements Channel                                           *)

\* The step that a step of the client is, for Channel.
Kept == [Promise!Next]_(Promise!cvars)

\* A step that asks, handles or ends no request.
LEMMA CallsStay ==
  ASSUME asked' = asked,
         \A c \in Callers : caller'[c].at = caller[c].at /\ caller'[c].id = caller[c].id
  PROVE  CallOf' = CallOf
BY DEF CallOf, Waiting

LEMMA PhaseStays ==
  ASSUME ws' = ws, connector' = connector
  PROVE  PhaseOf' = PhaseOf
BY DEF PhaseOf

LEMMA Stutters ==
  ASSUME PhaseOf' = PhaseOf, CallOf' = CallOf
  PROVE  Kept
BY DEF Kept, Promise!cvars

LEMMA Falls ==
  ASSUME ~ws', connector' # "idle", CallOf' = CallOf
  PROVE  Kept
BY DEF Kept, Promise!Next, Promise!GoesDown, PhaseOf

LEMMA DialsPromise == ASSUME IInv, DialOk \/ DialFails PROVE Kept
<1>1. ~ws /\ connector = "idle" /\ CallOf' = CallOf
  BY CallsStay DEF IInv, Stages, DialOk, DialFails, network
<1>2. CASE DialOk
  <2>1. PhaseOf = "new" /\ PhaseOf' = "up"
    BY <1>1, <1>2 DEF DialOk, PhaseOf
  <2>2. QED
    BY <1>1, <2>1 DEF Kept, Promise!Next, Promise!Opens
<1>3. CASE DialFails
  BY <1>1, <1>3, Falls DEF DialFails
<1>4. QED
  BY <1>2, <1>3

LEMMA ClosesPromise == ASSUME Close \/ RegisterFails PROVE Kept
BY CallsStay, Falls DEF Close, RegisterFails, RegisterRaises, Closes

LEMMA RegisterReadsPromise == ASSUME RegisterReads PROVE Kept
<1>1. CASE RegisterRaises(Tail(wire))
  BY <1>1, CallsStay, Falls DEF RegisterRaises, Closes
<1>2. CASE Registered(Tail(wire))
  BY <1>2, CallsStay, Stutters DEF RegisterReads, Registered, PhaseOf
<1>3. CASE StillRegistering(Tail(wire))
  BY <1>3, CallsStay, PhaseStays, Stutters DEF StillRegistering, client
<1>4. QED
  BY <1>1, <1>2, <1>3 DEF RegisterReads

\* Futures get their results; who awaits them does not know it yet.
LEMMA ReaderPromise == ASSUME IInv, Reads PROVE Kept
<1>1. connector # "idle"
  BY DEF IInv, Stages, Reads, ReaderStarts, ReaderReads, ReaderEnds
<1>2. caller \in [Callers -> CallerState]
  BY DEF IInv, TypeOK, CallerState
<1>3. ASSUME NEW how, ReaderFinally(how) PROVE Kept
  <2>1. \A c \in Callers : caller'[c].at = caller[c].at /\ caller'[c].id = caller[c].id
    BY <1>2, <1>3 DEF ReaderFinally, CallerState
  <2>2. asked' = asked /\ ws' = FALSE /\ connector' = connector
    BY <1>3 DEF ReaderFinally
  <2>3. QED
    BY <1>1, <2>1, <2>2, CallsStay, Falls
<1>4. CASE ReaderStarts
  BY <1>4, CallsStay, PhaseStays, Stutters DEF ReaderStarts, network
<1>5. CASE ReaderReads
  <2>1. CASE caller' = Resolved(Head(wire).id) /\ UNCHANGED <<ws, connector, asked>>
    <3>1. \A c \in Callers : caller'[c].at = caller[c].at /\ caller'[c].id = caller[c].id
      BY <1>2, <2>1 DEF Resolved, CallerState
    <3>2. QED
      BY <2>1, <3>1, CallsStay, PhaseStays, Stutters
  <2>2. CASE UNCHANGED <<client, sock, asked>>
    BY <2>2, CallsStay, PhaseStays, Stutters DEF client
  <2>3. CASE ReaderFinally("raised")
    BY <1>3, <2>3
  <2>4. QED
    BY <1>5, <2>1, <2>2, <2>3 DEF ReaderReads
<1>6. CASE ReaderEnds
  BY <1>3, <1>6 DEF ReaderEnds
<1>7. QED
  BY <1>4, <1>5, <1>6 DEF Reads

LEMMA RequestPromise == ASSUME IInv, NEW c \in Callers, Request(c) PROVE Kept
<1>1. caller \in [Callers -> CallerState] /\ ids \in Nat
  BY DEF IInv, TypeOK, CallerState
<1>2. /\ ~Waiting(c) /\ ws /\ ws' = ws /\ connector' = connector
      /\ asked' = asked \cup {ids + 1}
      /\ caller' = [caller EXCEPT ![c] = [at |-> "waiting", id |-> ids + 1, fut |-> "open"]]
  BY DEF Request
<1>3. \A d \in Callers : d # c /\ Waiting(d) => (caller[d].id \in asked' <=> caller[d].id \in asked)
  BY <1>1, <1>2 DEF IInv, Numbered
<1>4. CallOf' = [CallOf EXCEPT ![c] = "asked"]
  BY <1>1, <1>2, <1>3 DEF CallOf, Waiting
<1>5. CallOf[c] \notin {"asked", "handled"}
  BY <1>1, <1>2 DEF CallOf, Waiting, CallerState
<1>6. PhaseOf = "up" /\ PhaseOf' = PhaseOf
  BY <1>2, PhaseStays DEF PhaseOf
<1>7. Promise!Asks(c)
  BY <1>4, <1>5, <1>6 DEF Promise!Asks, Promise!Asking
<1>8. QED
  BY <1>7 DEF Kept, Promise!Next

\* What becomes of c's request, to Channel.
LEMMA BecomesPromise ==
  ASSUME IInv, NEW c \in Callers, NEW how \in {"answered", "failed"}, Becomes(c, how),
         asked' = asked
  PROVE  CallOf' = [CallOf EXCEPT ![c] = how]
<1>1. caller \in [Callers -> CallerState]
  BY DEF IInv, TypeOK, CallerState
<1>2. caller'[c].at = how /\ \A d \in Callers \ {c} : caller'[d] = caller[d]
  BY <1>1 DEF Becomes, CallerState
<1>3. CallOf'[c] = how /\ \A d \in Callers \ {c} : CallOf'[d] = CallOf[d]
  BY <1>2 DEF CallOf, Waiting
<1>4. QED
  BY <1>3 DEF CallOf

LEMMA FailsPromise ==
  ASSUME IInv, NEW c \in Callers, Becomes(c, "failed"), UNCHANGED <<ws, connector, asked>>
  PROVE  Kept
<1>1. CallOf' = [CallOf EXCEPT ![c] = "failed"] /\ PhaseOf' = PhaseOf
  BY BecomesPromise, PhaseStays
<1>2. Promise!Fails(c)
  BY <1>1 DEF Promise!Fails
<1>3. QED
  BY <1>2 DEF Kept, Promise!Next

\* A request returns the answer to itself.
LEMMA ReturnsPromise == ASSUME IInv, NEW c \in Callers, RequestReturns(c) PROVE Kept
<1>1. UNCHANGED <<ws, connector, asked>> /\ Waiting(c)
  BY DEF RequestReturns, network
<1>2. CASE caller[c].fut = "answer"
  <2>1. CallOf[c] = "handled"
    BY <1>1, <1>2 DEF IInv, Resulted, CallOf
  <2>2. CallOf' = [CallOf EXCEPT ![c] = "answered"] /\ PhaseOf' = PhaseOf
    BY <1>1, <1>2, BecomesPromise, PhaseStays DEF RequestReturns
  <2>3. Promise!Answers(c)
    BY <2>1, <2>2 DEF Promise!Answers
  <2>4. QED
    BY <2>3 DEF Kept, Promise!Next
<1>3. CASE caller[c].fut # "answer"
  BY <1>1, <1>3, FailsPromise DEF RequestReturns
<1>4. QED
  BY <1>2, <1>3

LEMMA CallerPromise ==
  ASSUME IInv, NEW c \in Callers,
         Request(c) \/ RequestRefused(c) \/ RequestReturns(c) \/ RequestGivesUp(c)
  PROVE  Kept
<1>1. RequestRefused(c) \/ RequestGivesUp(c) => Kept
  BY FailsPromise DEF RequestRefused, RequestGivesUp, network
<1>2. QED
  BY <1>1, RequestPromise, ReturnsPromise

\* The television's answer is to the one coroutine that waits for it, or to nobody.
LEMMA TvAnswersPromise == ASSUME IInv, NEW id \in Ids, TvAnswers(id) PROVE Kept
<1>1. /\ id \in asked /\ asked' = asked \ {id} /\ caller' = caller
      /\ ws' = ws /\ connector' = connector
  BY DEF TvAnswers, client
<1>2. CASE \E c \in Callers : Waiting(c) /\ caller[c].id = id
  <2>1. PICK c \in Callers : Waiting(c) /\ caller[c].id = id
    BY <1>2
  <2>2. \A d \in Callers \ {c} : Waiting(d) => caller[d].id # id
    BY <2>1 DEF IInv, Own
  <2>3. CallOf[c] = "asked" /\ CallOf' = [CallOf EXCEPT ![c] = "handled"]
    BY <1>1, <2>1, <2>2 DEF CallOf, Waiting
  <2>4. Promise!Handles(c)
    BY <1>1, <2>3, PhaseStays DEF Promise!Handles
  <2>5. QED
    BY <2>4 DEF Kept, Promise!Next
<1>3. CASE \A c \in Callers : Waiting(c) => caller[c].id # id
  <2>1. CallOf' = CallOf
    BY <1>1, <1>3 DEF CallOf, Waiting
  <2>2. QED
    BY <1>1, <2>1, PhaseStays, Stutters
<1>4. QED
  BY <1>2, <1>3

LEMMA NextKept == IInv /\ [Next]_vars => Kept
<1> SUFFICES ASSUME IInv, [Next]_vars PROVE Kept
  OBVIOUS
<1>1. CASE Close \/ RegisterFails
  BY <1>1, ClosesPromise
<1>2. CASE DialOk \/ DialFails
  BY <1>2, DialsPromise
<1>3. CASE RegisterReads
  BY <1>3, RegisterReadsPromise
<1>4. CASE Reads
  BY <1>4, ReaderPromise
<1>5. CASE \E c \in Callers :
             Request(c) \/ RequestRefused(c) \/ RequestReturns(c) \/ RequestGivesUp(c)
  BY <1>5, CallerPromise
<1>6. CASE \E id \in Ids : TvAnswers(id)
  BY <1>6, TvAnswersPromise
<1>7. CASE Subscribe \/ TvRegisters \/ TvSends \/ SocketEnds \/ UNCHANGED vars
  <2>1. UNCHANGED <<ws, connector, asked, caller>>
    BY <1>7 DEF Subscribe, TvRegisters, TvSends, SocketEnds, vars, client, network
  <2>2. QED
    BY <2>1, CallsStay, PhaseStays, Stutters
<1>8. QED
  BY <1>1, <1>2, <1>3, <1>4, <1>5, <1>6, <1>7 DEF Next

LEMMA InitPromise == Init => Promise!Init
<1> SUFFICES ASSUME Init PROVE Promise!Init
  OBVIOUS
<1>1. PhaseOf = "new"
  BY DEF Init, PhaseOf
<1>2. \A c \in Callers : caller[c].at = "new"
  BY DEF Init
<1>3. CallOf = [c \in Callers |-> "new"]
  BY <1>2 DEF CallOf, Waiting
<1>4. QED
  BY <1>1, <1>3 DEF Promise!Init

\* The client is a Channel: it goes up once and down for good, and a request that
\* returns was answered by the television, and it was this request that was answered.
THEOREM ClientKeepsPromise == Spec => KeepsPromise
<1>1. IInv /\ [Next]_vars => [Promise!Next]_(Promise!cvars)
  BY NextKept DEF Kept
<1>2. QED
  BY <1>1, InitPromise, InvariantIInv, PTL DEF Spec, KeepsPromise, Promise!Spec
=============================================================================
