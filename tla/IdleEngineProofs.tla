--------------------------- MODULE IdleEngineProofs ---------------------------
(***************************************************************************)
(* Proofs about IdleEngine, for any number of wakers and any timeouts.     *)
(***************************************************************************)
EXTENDS IdleEngine, TLAPS

-----------------------------------------------------------------------------
(* The inductive invariant                                                 *)

On == slot[Tv]["on"]
Off == slot[Tv]["off"]

\* The engine blanks and unblanks: it never puts the TV into standby.
OwnOps ==
  /\ panel[Tv] \in {"lit", "dark"}
  /\ On.op \in {"none", "unblank"} /\ Off.op \in {"none", "blank"}
  /\ \A k \in Slots : slot[Tv][k].op = "none" <=> slot[Tv][k] = Free

\* No waker is on its way once idle is forced, unless it was before.
WakersHeld == forced /\ (\E w \in Wakers : waker[w] = "ready") => "crossed" \in excuse

\* Only a reload while idle leaves a waker of the engine that it replaces.
OrphansOfReload == (\E w \in Wakers : waker[w] = "orphan") => "reload" \in excuse

\* While only one of the two slots is at work and nothing has gone wrong, a blank means
\* idle, an unblank means not idle, and so does a dark panel unless it is about to be lit.
SlotsFollow ==
  excuse \ {"crossed"} = {} /\ ~Overlap =>
    /\ Off # Free => is_idle
    /\ On # Free => ~is_idle
    /\ panel[Tv] = "dark" /\ ~is_idle => On # Free /\ On.res = "none"

\* The timer counts what the user's rest is.
TimerTrue == quiet = rest

\* What the loop has found is still so, but for what came in since.
Justified ==
  loop = "checking" =>
    /\ rest >= Timeout \/ "stirred" \in during
    /\ ~Vetoed \/ "report" \in during

IInv ==
  /\ TypeOK /\ ForcedIdleHolds /\ OwnOps /\ WakersHeld /\ OrphansOfReload /\ SlotsFollow
  /\ TimerTrue /\ Justified
-----------------------------------------------------------------------------
(* The television                                                          *)

CallRec == [to : SUBSET Devices, key : Slots \cup {"none"},
            res : Results \cup {"none", "cancelled"}]
SlotRec == [op : Ops \cup {"none"}, res : Results \cup {"none"}]

LEMMA TvTypes ==
  TvTypeOK <=> /\ panel \in [Devices -> Panels] /\ slot \in [Devices -> [Slots -> SlotRec]]
               /\ call \in [Callers -> CallRec]
BY DEF TvTypeOK, CallRec, SlotRec

LEMMA FreeFacts ==
  /\ Free \in SlotRec /\ Free.op = "none" /\ Free.res = "none" /\ NotCalling \in CallRec
  /\ Devices = {Tv} /\ Slots = {"on", "off"}
BY IdleAssumption DEF Free, SlotRec, NotCalling, CallRec, Slots

LEMMA TvFacts ==
  ASSUME IInv
  PROVE  /\ panel \in [Devices -> Panels] /\ slot \in [Devices -> [Slots -> SlotRec]]
         /\ call \in [Callers -> CallRec] /\ TvTypeOK
         /\ Callers = Wakers \cup {"loop", "ipc"} /\ "loop" \notin Wakers /\ "ipc" \notin Wakers
         /\ On \in SlotRec /\ Off \in SlotRec
BY TvTypes, FreeFacts, IdleAssumption DEF IInv, TypeOK, On, Off

\* A call fills its slot and leaves the other one alone.
LEMMA CallsFacts ==
  ASSUME IInv, NEW c \in Callers, NEW op \in {"blank", "unblank"}, Calls(c, Tv, op)
  PROVE  /\ TvTypeOK' /\ OwnOps' /\ Calling(c)' /\ \A b \in Callers \ {c} : call'[b] = call[b]
         /\ panel' = panel
         /\ op = "blank" => Off' # Free /\ On' = On
         /\ op = "unblank" => On' # Free /\ Off' = Off /\ (On = Free => On'.res = "none")
<1> DEFINE k == SlotOf(op)
           r == [to |-> {Tv}, key |-> k, res |-> "none"]
<1>1. /\ k = IF op = "blank" THEN "off" ELSE "on"
      /\ k \in Slots /\ op \in Ops /\ Devices = {Tv} /\ Tv \in Devices
  BY FreeFacts DEF SlotOf, Ops
<1>2. /\ call' = [call EXCEPT ![c] = r] /\ panel' = panel
      /\ slot' = IF slot[Tv][k] = Free THEN [slot EXCEPT ![Tv][k].op = op] ELSE slot
  BY DEF Calls
<1>3. r \in CallRec /\ r # NotCalling
  BY <1>1 DEF CallRec, NotCalling
<1> HIDE DEF k, r
<1>4. /\ call' \in [Callers -> CallRec] /\ call'[c] = r
      /\ \A b \in Callers \ {c} : call'[b] = call[b]
  BY <1>2, <1>3, TvFacts
<1>5. /\ slot' \in [Devices -> [Slots -> SlotRec]]
      /\ \A j \in Slots \ {k} : slot'[Tv][j] = slot[Tv][j]
      /\ slot[Tv][k] = Free => slot'[Tv][k].op = op /\ slot'[Tv][k].res = "none"
      /\ slot[Tv][k] # Free => slot'[Tv][k] = slot[Tv][k]
  BY <1>1, <1>2, TvFacts, FreeFacts DEF SlotRec
<1>6. slot'[Tv][k] # Free /\ slot'[Tv][k].op # "none"
  BY <1>1, <1>5, FreeFacts DEF IInv, OwnOps
<1>7. TvTypeOK'
  BY <1>2, <1>4, <1>5, TvFacts DEF TvTypeOK, CallRec, SlotRec
<1>8. OwnOps'
  BY <1>1, <1>2, <1>5, <1>6, FreeFacts DEF IInv, OwnOps, On, Off
<1>9. QED
  BY <1>1, <1>2, <1>3, <1>4, <1>5, <1>6, <1>7, <1>8, FreeFacts DEF Calling, On, Off

LEMMA ReturnsFacts ==
  ASSUME IInv, NEW c \in Callers, Returns(c)
  PROVE  /\ TvTypeOK' /\ OwnOps' /\ ~Calling(c)' /\ UNCHANGED <<panel, slot>>
         /\ \A b \in Callers \ {c} : call'[b] = call[b]
<1>1. call' = [call EXCEPT ![c] = NotCalling] /\ UNCHANGED <<panel, slot>>
  BY DEF Returns
<1>2. /\ call' \in [Callers -> CallRec] /\ call'[c] = NotCalling
      /\ \A b \in Callers \ {c} : call'[b] = call[b]
  BY <1>1, TvFacts, FreeFacts
<1>3. TvTypeOK' /\ OwnOps'
  BY <1>1, <1>2, TvFacts DEF TvTypeOK, CallRec, SlotRec, IInv, OwnOps, On, Off
<1>4. QED
  BY <1>1, <1>2, <1>3 DEF Calling

\* Unless it fails, an unblank lights the panel and a blank leaves it lit or darkens it.
LEMMA ActsFacts ==
  ASSUME IInv, NEW k \in Slots, Acts(Tv, k)
  PROVE  /\ TvTypeOK' /\ OwnOps' /\ call' = call
         /\ slot[Tv][k] # Free /\ slot'[Tv][k] # Free /\ slot'[Tv][k].res # "none"
         /\ \A j \in Slots \ {k} : slot'[Tv][j] = slot[Tv][j]
         /\ k = "on" => panel'[Tv] = "lit" \/ slot'[Tv][k].res = "error"
<1>1. /\ slot[Tv][k].op = IF k = "on" THEN "unblank" ELSE "blank"
      /\ slot[Tv][k] # Free /\ Devices = {Tv} /\ Tv \in Devices
  BY FreeFacts DEF Acts, IInv, OwnOps, On, Off
<1>2. PICK o \in Outcomes(slot[Tv][k].op, panel[Tv]) :
        panel' = [panel EXCEPT ![Tv] = o[1]] /\ slot' = [slot EXCEPT ![Tv][k].res = o[2]]
  BY DEF Acts
<1>3. /\ o[1] \in {"lit", "dark"} /\ o[2] \in Results /\ o[2] # "none"
      /\ k = "on" => o[1] = "lit" \/ o[2] = "error"
  <2>1. panel[Tv] \in {"lit", "dark"}
    BY DEF IInv, OwnOps
  <2>2. CASE k = "on"
    BY <1>1, <1>2, <2>1, <2>2 DEF Outcomes, Results
  <2>3. CASE k = "off"
    BY <1>1, <1>2, <2>1, <2>3 DEF Outcomes, Results
  <2>4. QED
    BY <2>2, <2>3, FreeFacts
<1>4. /\ panel' \in [Devices -> Panels] /\ panel'[Tv] = o[1]
      /\ slot' \in [Devices -> [Slots -> SlotRec]]
      /\ \A j \in Slots \ {k} : slot'[Tv][j] = slot[Tv][j]
      /\ slot'[Tv][k].op = slot[Tv][k].op /\ slot'[Tv][k].res = o[2]
  BY <1>1, <1>2, <1>3, TvFacts DEF SlotRec, Panels
<1>5. call' = call
  BY DEF Acts
<1>6. slot'[Tv][k] # Free
  BY <1>3, <1>4, FreeFacts
<1>7. TvTypeOK'
  BY <1>4, <1>5, TvFacts DEF TvTypeOK, CallRec, SlotRec
<1>8. OwnOps'
  BY <1>1, <1>3, <1>4, <1>6, FreeFacts DEF IInv, OwnOps, On, Off
<1>9. QED
  BY <1>1, <1>3, <1>4, <1>5, <1>6, <1>7, <1>8

LEMMA EndsFacts ==
  ASSUME IInv, NEW k \in Slots, Ends(Tv, k)
  PROVE  /\ TvTypeOK' /\ OwnOps' /\ panel' = panel
         /\ slot[Tv][k].res # "none" /\ slot'[Tv][k] = Free
         /\ \A j \in Slots \ {k} : slot'[Tv][j] = slot[Tv][j]
         /\ \A c \in Callers : Calling(c)' <=> Calling(c)
<1>1. /\ slot[Tv][k].res # "none" /\ slot[Tv][k].res \in Results
      /\ slot' = [slot EXCEPT ![Tv][k] = Free] /\ panel' = panel
  BY TvFacts, FreeFacts DEF Ends, SlotRec
<1> DEFINE r(c) == [call[c] EXCEPT !.res = slot[Tv][k].res]
<1>2. call' = [c \in Callers |-> IF Joined(c, Tv, k) THEN r(c) ELSE call[c]]
  BY DEF Ends
<1>3. \A c \in Callers : r(c) \in CallRec /\ r(c).res = slot[Tv][k].res /\ r(c) # NotCalling
  BY <1>1, TvFacts DEF CallRec, NotCalling
<1> HIDE DEF r
<1>4. /\ call' \in [Callers -> CallRec]
      /\ \A c \in Callers : Calling(c)' <=> Calling(c)
  BY <1>2, <1>3, TvFacts DEF Calling, Joined, Waiting
<1>5. /\ slot' \in [Devices -> [Slots -> SlotRec]] /\ slot'[Tv][k] = Free
      /\ \A j \in Slots \ {k} : slot'[Tv][j] = slot[Tv][j]
  BY <1>1, TvFacts, FreeFacts
<1>6. TvTypeOK'
  BY <1>1, <1>4, <1>5, TvFacts DEF TvTypeOK, CallRec, SlotRec
<1>7. OwnOps'
  BY <1>1, <1>5, FreeFacts DEF IInv, OwnOps, On, Off
<1>8. QED
  BY <1>1, <1>4, <1>5, <1>6, <1>7

LEMMA CancelsFacts ==
  ASSUME IInv, NEW c \in Callers, Cancels(c)
  PROVE  /\ TvTypeOK' /\ OwnOps' /\ panel' = panel /\ ~Calling(c)'
         /\ \A b \in Callers \ {c} : Calling(b)' <=> Calling(b)
<1> DEFINE r(b) == [call[b] EXCEPT !.res = "cancelled"]
<1>1. /\ panel' = panel
      /\ slot' = [d \in Devices |-> [k \in Slots |-> IF Joined(c, d, k) THEN Free ELSE slot[d][k]]]
      /\ call' = [b \in Callers |->
                   CASE b = c -> NotCalling
                     [] b # c /\ Waiting(b) /\ call[b] = call[c] -> r(b)
                     [] OTHER -> call[b]]
  BY DEF Cancels
<1>2. \A b \in Callers : r(b) \in CallRec /\ r(b).res = "cancelled" /\ r(b) # NotCalling
  BY TvFacts DEF CallRec, NotCalling
<1> HIDE DEF r
<1>3. \A b \in Callers \ {c} : call'[b] \in {call[b], r(b)} /\ (call'[b] # call[b] => Waiting(b))
  BY <1>1
<1>4. call'[c] = NotCalling
  BY <1>1
<1>5. call' \in [Callers -> CallRec]
  <2>1. \A b \in Callers : call'[b] \in CallRec
    BY <1>2, <1>3, <1>4, TvFacts, FreeFacts
  <2>2. QED
    BY <1>1, <2>1
<1>6. slot' \in [Devices -> [Slots -> SlotRec]] /\ \A k \in Slots : slot'[Tv][k] \in {slot[Tv][k], Free}
  BY <1>1, TvFacts, FreeFacts
<1>7. TvTypeOK'
  BY <1>1, <1>5, <1>6, TvFacts DEF TvTypeOK, CallRec, SlotRec
<1>8. OwnOps'
  BY <1>1, <1>6, FreeFacts DEF IInv, OwnOps, On, Off
<1>9. QED
  BY <1>1, <1>2, <1>3, <1>4, <1>7, <1>8 DEF Calling, Waiting
-----------------------------------------------------------------------------
(* Going idle and going busy                                               *)

LEMMA Bounds == /\ Timeout \in Nat \ {0} /\ Ttl \in Nat \ {0}
                /\ 0 \in 0 .. Timeout /\ 0 \in 0 .. Ttl + 1
BY IdleAssumption

LEMMA GoIdleKeeps ==
  ASSUME IInv, NEW c \in Callers, GoIdle(c), excuse \subseteq excuse'
  PROVE  /\ TvTypeOK' /\ OwnOps' /\ SlotsFollow' /\ is_idle' = TRUE
         /\ \A b \in Callers : Calling(b)' <=> Calling(b) \/ (b = c /\ ~is_idle)
<1>1. CASE is_idle
  <2>1. is_idle' = is_idle /\ UNCHANGED <<panel, slot, call>>
    BY <1>1 DEF GoIdle, tvVars
  <2>2. TvTypeOK' /\ OwnOps' /\ SlotsFollow'
    BY <2>1 DEF IInv, TypeOK, TvTypeOK, OwnOps, SlotsFollow, On, Off, Overlap
  <2>3. is_idle' = TRUE
    BY <1>1, <2>1 DEF IInv, TypeOK
  <2>4. QED
    BY <1>1, <2>1, <2>2, <2>3 DEF Calling
<1>2. CASE ~is_idle
  <2>1. is_idle' = TRUE /\ Calls(c, Tv, "blank")
    BY <1>2 DEF GoIdle
  <2>2. /\ TvTypeOK' /\ OwnOps' /\ Calling(c)' /\ \A b \in Callers \ {c} : call'[b] = call[b]
        /\ Off' # Free /\ On' = On
    BY <2>1, CallsFacts
  <2>3. SlotsFollow'
    BY <2>1, <2>2, FreeFacts DEF SlotsFollow, Overlap, On, Off
  <2>4. QED
    BY <1>2, <2>1, <2>2, <2>3 DEF Calling
<1>3. QED
  BY <1>1, <1>2

LEMMA GoBusyKeeps ==
  ASSUME IInv, NEW c \in Callers, GoBusy(c), UNCHANGED <<loop, heard, age, excuse>>
  PROVE  /\ TvTypeOK' /\ OwnOps' /\ SlotsFollow' /\ is_idle' = FALSE
         /\ \A b \in Callers : Calling(b)' <=> Calling(b) \/ (b = c /\ is_idle)
         /\ TimerTrue' /\ Justified' /\ quiet' \in 0 .. Timeout /\ rest' \in 0 .. Timeout
         /\ during' \subseteq {"stirred", "report"}
<1>1. CASE ~is_idle
  <2>1. UNCHANGED <<is_idle, quiet, rest, during>> /\ UNCHANGED <<panel, slot, call>>
    BY <1>1 DEF GoBusy, tvVars
  <2>2. TvTypeOK' /\ OwnOps' /\ SlotsFollow'
    BY <2>1 DEF IInv, TypeOK, TvTypeOK, OwnOps, SlotsFollow, On, Off, Overlap
  <2>3. /\ is_idle' = FALSE /\ quiet' \in 0 .. Timeout /\ rest' \in 0 .. Timeout
        /\ during' \subseteq {"stirred", "report"}
    BY <1>1, <2>1 DEF IInv, TypeOK
  <2>4. TimerTrue' /\ Justified'
    BY <2>1 DEF IInv, TimerTrue, Justified, Vetoed, Fresh
  <2>5. QED
    BY <1>1, <2>1, <2>2, <2>3, <2>4 DEF Calling
<1>2. CASE is_idle
  <2>1. /\ is_idle' = FALSE /\ Calls(c, Tv, "unblank") /\ quiet' = 0 /\ rest' = 0
        /\ during' = during \cup {"stirred"}
    BY <1>2 DEF GoBusy, Stirred
  <2>2. /\ TvTypeOK' /\ OwnOps' /\ Calling(c)' /\ \A b \in Callers \ {c} : call'[b] = call[b]
        /\ On' # Free /\ Off' = Off /\ panel' = panel /\ (On = Free => On'.res = "none")
    BY <2>1, CallsFacts
  <2>3. SlotsFollow'
    <3>1. SUFFICES ASSUME excuse \ {"crossed"} = {}, ~Overlap'
                   PROVE  Off' = Free /\ On'.res = "none"
      BY <2>1, <2>2 DEF SlotsFollow
    <3>2. Off' = Free
      BY <2>2, <3>1, FreeFacts DEF Overlap, On, Off
    <3>3. ~Overlap
      BY <2>2, <3>2, FreeFacts DEF Overlap, Off
    <3>4. On = Free
      BY <1>2, <3>1, <3>3 DEF IInv, SlotsFollow
    <3>5. QED
      BY <2>2, <3>2, <3>4
  <2>4. TimerTrue' /\ Justified'
    BY <2>1 DEF IInv, TimerTrue, Justified, Vetoed, Fresh
  <2>5. quiet' \in 0 .. Timeout /\ rest' \in 0 .. Timeout /\ during' \subseteq {"stirred", "report"}
    BY <2>1, Bounds DEF IInv, TypeOK
  <2>6. QED
    BY <1>2, <2>1, <2>2, <2>3, <2>4, <2>5 DEF Calling
<1>3. QED
  BY <1>1, <1>2

-----------------------------------------------------------------------------
(* The steps                                                               *)

\* What does not touch the TV nor the engine's idle state.
LEMMA IdleKept ==
  ASSUME IInv, UNCHANGED <<panel, slot, is_idle, excuse>>
  PROVE  OwnOps' /\ SlotsFollow'
<1>1. OwnOps'
  BY DEF IInv, OwnOps, On, Off
<1>2. SlotsFollow'
  BY DEF IInv, SlotsFollow, On, Off, Overlap
<1>3. QED
  BY <1>1, <1>2

LEMMA TickKeeps ==
  ASSUME IInv, Tick
  PROVE  IInv'
<1>1. /\ quiet' = IF quiet < Timeout THEN quiet + 1 ELSE quiet
      /\ age' = IF age <= Ttl THEN age + 1 ELSE age
      /\ rest' = IF rest < Timeout THEN rest + 1 ELSE rest
      /\ UNCHANGED <<panel, slot, call, is_idle, forced, loop, waker, heard, during, excuse>>
  BY DEF Tick, tvVars
<1>2. quiet \in 0 .. Timeout /\ rest \in 0 .. Timeout /\ age \in 0 .. Ttl + 1
  BY DEF IInv, TypeOK
<1>3. quiet' \in 0 .. Timeout /\ rest' \in 0 .. Timeout /\ age' \in 0 .. Ttl + 1
  BY <1>1, <1>2, Bounds
<1>4. TypeOK'
  BY <1>1, <1>3 DEF IInv, TypeOK, TvTypeOK, Calling
<1>5. OwnOps' /\ SlotsFollow'
  BY <1>1, IdleKept
<1>6. ForcedIdleHolds' /\ WakersHeld' /\ OrphansOfReload' /\ TimerTrue'
  BY <1>1 DEF IInv, ForcedIdleHolds, WakersHeld, OrphansOfReload, TimerTrue
<1>7. Justified'
  <2>1. rest >= Timeout => rest' >= Timeout
    BY <1>1, <1>2, Bounds
  <2>2. Vetoed' => Vetoed
    BY <1>1, <1>2, Bounds DEF Vetoed, Fresh
  <2>3. QED
    BY <1>1, <2>1, <2>2 DEF IInv, Justified
<1>8. QED
  BY <1>4, <1>5, <1>6, <1>7 DEF IInv

LEMMA TvStepKeeps ==
  ASSUME IInv, TvStep
  PROVE  IInv'
<1>1. /\ UNCHANGED <<is_idle, forced, quiet, loop, waker, heard, age, rest, during>>
      /\ excuse' = excuse \cup (IF Overlap THEN {"overlap"} ELSE {})
                      \cup (IF \E k \in Slots : slot'[Tv][k].res = "error"
                            THEN {"failure"} ELSE {})
  BY DEF TvStep, engine, report
<1>2. PICK k \in Slots : Acts(Tv, k) \/ Ends(Tv, k)
  BY FreeFacts DEF TvStep, TvSteps
<1>3. ForcedIdleHolds' /\ WakersHeld' /\ OrphansOfReload' /\ TimerTrue' /\ Justified'
  BY <1>1 DEF IInv, ForcedIdleHolds, WakersHeld, OrphansOfReload, TimerTrue, Justified, Vetoed, Fresh
<1>4. SUFFICES TvTypeOK' /\ OwnOps' /\ SlotsFollow' /\ \A c \in Callers : Calling(c)' <=> Calling(c)
  <2>1. excuse' \subseteq {"overlap", "failure", "reload", "crossed"}
    BY <1>1 DEF IInv, TypeOK
  <2>2. ASSUME TvTypeOK', \A c \in Callers : Calling(c)' <=> Calling(c)
        PROVE  TypeOK'
    BY <1>1, <2>1, <2>2, TvFacts DEF IInv, TypeOK
  <2>3. QED
    BY <1>3, <2>2 DEF IInv
<1>5. excuse' \ {"crossed"} = {} => /\ excuse \ {"crossed"} = {} /\ ~Overlap
                                    /\ \A j \in Slots : slot'[Tv][j].res # "error"
  BY <1>1
<1>6. CASE Acts(Tv, k)
  <2>1. /\ TvTypeOK' /\ OwnOps' /\ call' = call
        /\ slot[Tv][k] # Free /\ slot'[Tv][k] # Free /\ slot'[Tv][k].res # "none"
        /\ \A j \in Slots \ {k} : slot'[Tv][j] = slot[Tv][j]
        /\ k = "on" => panel'[Tv] = "lit" \/ slot'[Tv][k].res = "error"
    BY <1>6, ActsFacts
  <2>2. SlotsFollow'
    <3>1. CASE k = "on"
      BY <1>1, <1>5, <2>1, <3>1, FreeFacts DEF IInv, SlotsFollow, On, Off
    <3>2. CASE k = "off"
      BY <1>1, <1>5, <2>1, <3>2, FreeFacts DEF IInv, SlotsFollow, On, Off
    <3>3. QED
      BY <3>1, <3>2, FreeFacts
  <2>3. QED
    BY <2>1, <2>2 DEF Calling
<1>7. CASE Ends(Tv, k)
  <2>1. /\ TvTypeOK' /\ OwnOps' /\ panel' = panel
        /\ slot[Tv][k].res # "none" /\ slot'[Tv][k] = Free
        /\ \A j \in Slots \ {k} : slot'[Tv][j] = slot[Tv][j]
        /\ \A c \in Callers : Calling(c)' <=> Calling(c)
    BY <1>7, EndsFacts
  <2>2. SlotsFollow'
    <3>1. CASE k = "on"
      BY <1>1, <1>5, <2>1, <3>1, FreeFacts DEF IInv, SlotsFollow, On, Off
    <3>2. CASE k = "off"
      BY <1>1, <1>5, <2>1, <3>2, FreeFacts DEF IInv, SlotsFollow, On, Off
    <3>3. QED
      BY <3>1, <3>2, FreeFacts
  <2>3. QED
    BY <2>1, <2>2
<1>8. QED
  BY <1>2, <1>6, <1>7

LEMMA LoopKeeps ==
  ASSUME IInv, LoopSteps
  PROVE  IInv'
<1>1. /\ UNCHANGED <<forced, quiet, waker, heard, age, rest, excuse>>
      /\ during' \in {during, {}} /\ (loop' = "checking" => LoopChecks)
  BY DEF LoopSteps, LoopChecks, LoopInhibited, LoopGoesIdle, LoopReturns, report, history
<1>2. WakersHeld' /\ OrphansOfReload' /\ TimerTrue'
  BY <1>1 DEF IInv, WakersHeld, OrphansOfReload, TimerTrue
<1>3. Justified'
  <2>1. SUFFICES ASSUME loop' = "checking" PROVE rest' >= Timeout /\ ~Vetoed'
    BY DEF Justified
  <2>2. LoopChecks
    BY <1>1, <2>1
  <2>3. QED
    BY <1>1, <2>2 DEF LoopChecks, IInv, TimerTrue, Vetoed, Fresh
<1>4. CASE LoopChecks \/ LoopInhibited
  <2>1. /\ UNCHANGED <<panel, slot, call, is_idle>> /\ loop \in {"sleep", "checking"}
        /\ loop' \in {"sleep", "checking"}
    BY <1>4 DEF LoopChecks, LoopInhibited, tvVars
  <2>2. TypeOK' /\ ForcedIdleHolds'
    BY <1>1, <2>1 DEF IInv, TypeOK, TvTypeOK, Calling, ForcedIdleHolds
  <2>3. OwnOps' /\ SlotsFollow'
    BY <1>1, <2>1, IdleKept
  <2>4. QED
    BY <1>2, <1>3, <2>2, <2>3 DEF IInv
<1>5. CASE LoopGoesIdle
  <2>1. /\ loop = "checking" /\ GoIdle("loop")
        /\ loop' = IF is_idle THEN "sleep" ELSE "blanking"
    BY <1>5 DEF LoopGoesIdle
  <2>2. /\ TvTypeOK' /\ OwnOps' /\ SlotsFollow' /\ is_idle' = TRUE
        /\ \A b \in Callers : Calling(b)' <=> Calling(b) \/ (b = "loop" /\ ~is_idle)
    BY <1>1, <2>1, GoIdleKeeps, TvFacts
  <2>3. (loop' = "blanking" <=> Calling("loop")') /\ \A w \in Wakers : Calling(w)' <=> Calling(w)
    BY <2>1, <2>2, TvFacts DEF IInv, TypeOK
  <2>4. TypeOK' /\ ForcedIdleHolds'
    BY <1>1, <2>1, <2>2, <2>3 DEF IInv, TypeOK, ForcedIdleHolds
  <2>5. QED
    BY <1>2, <1>3, <2>2, <2>4 DEF IInv
<1>6. CASE LoopReturns
  <2>1. Returns("loop") /\ loop' = "sleep" /\ is_idle' = is_idle
    BY <1>6 DEF LoopReturns
  <2>2. /\ TvTypeOK' /\ ~Calling("loop")' /\ UNCHANGED <<panel, slot>>
        /\ \A b \in Callers \ {"loop"} : call'[b] = call[b]
    BY <2>1, ReturnsFacts, TvFacts
  <2>3. \A w \in Wakers : Calling(w)' <=> Calling(w)
    BY <2>2, TvFacts DEF Calling
  <2>4. TypeOK' /\ ForcedIdleHolds'
    BY <1>1, <2>1, <2>2, <2>3 DEF IInv, TypeOK, ForcedIdleHolds
  <2>5. OwnOps' /\ SlotsFollow'
    BY <1>1, <2>1, <2>2, IdleKept
  <2>6. QED
    BY <1>2, <1>3, <2>4, <2>5 DEF IInv
<1>7. QED
  BY <1>4, <1>5, <1>6 DEF LoopSteps

LEMMA ActivityKeeps ==
  ASSUME IInv, NEW w \in Wakers, Activity(w)
  PROVE  IInv'
<1>1. /\ quiet' = 0 /\ rest' = 0 /\ during' = during \cup {"stirred"}
      /\ waker' = IF is_idle /\ ~forced THEN [waker EXCEPT ![w] = "ready"] ELSE waker
      /\ waker[w] = "none"
      /\ UNCHANGED <<panel, slot, call, is_idle, forced, loop, heard, age, excuse>>
  BY DEF Activity, Stirred, Spawns, tvVars, report
<1>2. /\ waker \in [Wakers -> {"none", "ready", "orphan", "unblanking"}]
      /\ waker' \in [Wakers -> {"none", "ready", "orphan", "unblanking"}]
      /\ \A v \in Wakers : /\ waker'[v] = "unblanking" <=> waker[v] = "unblanking"
                           /\ waker'[v] = "orphan" <=> waker[v] = "orphan"
                           /\ forced => waker'[v] = waker[v]
  BY <1>1 DEF IInv, TypeOK
<1>3. TypeOK'
  <2>1. quiet' \in 0 .. Timeout /\ rest' \in 0 .. Timeout /\ during' \subseteq {"stirred", "report"}
    BY <1>1, Bounds DEF IInv, TypeOK
  <2>2. TvTypeOK' /\ \A c \in Callers : Calling(c)' <=> Calling(c)
    BY <1>1, TvFacts DEF TvTypeOK, Calling
  <2>3. QED
    BY <1>1, <1>2, <2>1, <2>2, TvFacts DEF IInv, TypeOK
<1>4. OwnOps' /\ SlotsFollow'
  BY <1>1, IdleKept
<1>5. ForcedIdleHolds' /\ WakersHeld' /\ OrphansOfReload'
  BY <1>1, <1>2 DEF IInv, ForcedIdleHolds, WakersHeld, OrphansOfReload
<1>6. TimerTrue' /\ Justified'
  BY <1>1 DEF TimerTrue, Justified, Vetoed, Fresh, IInv
<1>7. QED
  BY <1>3, <1>4, <1>5, <1>6 DEF IInv

LEMMA WakerKeeps ==
  ASSUME IInv, NEW w \in Wakers, WakerSteps(w)
  PROVE  IInv'
<1> DEFINE At(x) == [waker EXCEPT ![w] = x]
<1>1. /\ waker \in [Wakers -> {"none", "ready", "orphan", "unblanking"}]
      /\ w \in Callers /\ w # "loop" /\ Wakers \subseteq Callers
  BY TvFacts DEF IInv, TypeOK
<1>2. ASSUME NEW x \in {"none", "unblanking"}
      PROVE  /\ At(x) \in [Wakers -> {"none", "ready", "orphan", "unblanking"}]
             /\ At(x)[w] = x /\ \A v \in Wakers \ {w} : At(x)[v] = waker[v]
  BY <1>1
<1>3. UNCHANGED <<forced, loop, heard, age, excuse>>
  BY DEF WakerSteps, WakerRuns, OrphanRuns, WakerReturns, report, history
<1>4. \E x \in {"none", "unblanking"} : waker' = At(x)
  BY DEF WakerSteps, WakerRuns, OrphanRuns, WakerReturns
<1>5. WakersHeld' /\ OrphansOfReload'
  <2>1. PICK x \in {"none", "unblanking"} : waker' = At(x)
    BY <1>4
  <2> HIDE DEF At
  <2>2. \A v \in Wakers : waker'[v] \in {"ready", "orphan"} => waker'[v] = waker[v]
    BY <1>2, <2>1
  <2>3. QED
    BY <1>3, <2>2 DEF IInv, WakersHeld, OrphansOfReload
<1>6. ASSUME NEW x \in {"none", "unblanking"}, waker' = At(x), TvTypeOK', is_idle' \in BOOLEAN,
             x = "unblanking" <=> Calling(w)',
             \A c \in Callers \ {w} : Calling(c)' <=> Calling(c),
             quiet' \in 0 .. Timeout, rest' \in 0 .. Timeout, during' \subseteq {"stirred", "report"}
      PROVE  TypeOK'
  <2> HIDE DEF At
  <2>1. \A v \in Wakers : waker'[v] = "unblanking" <=> Calling(v)'
    <3>1. \A v \in Wakers \ {w} : waker'[v] = waker[v] /\ (waker[v] = "unblanking" <=> Calling(v))
      BY <1>2, <1>6 DEF IInv, TypeOK
    <3>2. QED
      BY <1>1, <1>2, <1>6, <3>1
  <2>2. loop' = "blanking" <=> Calling("loop")'
    BY <1>1, <1>3, <1>6, TvFacts DEF IInv, TypeOK
  <2>3. QED
    BY <1>2, <1>3, <1>6, <2>1, <2>2 DEF IInv, TypeOK
<1>7. CASE WakerRuns(w)
  <2>1. /\ waker[w] = "ready" /\ GoBusy(w)
        /\ waker' = At(IF is_idle THEN "unblanking" ELSE "none")
    BY <1>7 DEF WakerRuns
  <2> HIDE DEF At
  <2>2. /\ TvTypeOK' /\ OwnOps' /\ SlotsFollow' /\ is_idle' = FALSE
        /\ \A b \in Callers : Calling(b)' <=> Calling(b) \/ (b = w /\ is_idle)
        /\ TimerTrue' /\ Justified' /\ quiet' \in 0 .. Timeout /\ rest' \in 0 .. Timeout
        /\ during' \subseteq {"stirred", "report"}
    BY <1>1, <1>3, <2>1, GoBusyKeeps
  <2>3. ~Calling(w)
    BY <2>1 DEF IInv, TypeOK
  <2>4. TypeOK'
    <3>1. CASE is_idle
      BY <1>1, <1>6, <2>1, <2>2, <2>3, <3>1
    <3>2. CASE ~is_idle
      BY <1>1, <1>6, <2>1, <2>2, <2>3, <3>2
    <3>3. QED
      BY <3>1, <3>2
  <2>5. ForcedIdleHolds'
    BY <1>3, <2>1 DEF IInv, ForcedIdleHolds, WakersHeld
  <2>6. QED
    BY <1>5, <2>2, <2>4, <2>5 DEF IInv
<1>8. CASE OrphanRuns(w)
  <2>1. /\ waker[w] = "orphan" /\ Calls(w, Tv, "unblank") /\ waker' = At("unblanking")
        /\ UNCHANGED <<is_idle, quiet, rest, during>>
    BY <1>8 DEF OrphanRuns, history
  <2> HIDE DEF At
  <2>2. TvTypeOK' /\ OwnOps' /\ Calling(w)' /\ \A b \in Callers \ {w} : call'[b] = call[b]
    BY <1>1, <2>1, CallsFacts
  <2>3. \A b \in Callers \ {w} : Calling(b)' <=> Calling(b)
    BY <2>2 DEF Calling
  <2>4. TypeOK'
    BY <1>6, <2>1, <2>2, <2>3 DEF IInv, TypeOK
  <2>5. SlotsFollow'
    BY <1>3, <2>1 DEF IInv, OrphansOfReload, SlotsFollow
  <2>6. ForcedIdleHolds' /\ TimerTrue' /\ Justified'
    BY <1>3, <2>1 DEF IInv, ForcedIdleHolds, TimerTrue, Justified, Vetoed, Fresh
  <2>7. QED
    BY <1>5, <2>2, <2>4, <2>5, <2>6 DEF IInv
<1>9. CASE WakerReturns(w)
  <2>1. /\ Returns(w) /\ waker' = At("none")
        /\ UNCHANGED <<is_idle, quiet, rest, during>>
    BY <1>9 DEF WakerReturns, history
  <2> HIDE DEF At
  <2>2. /\ TvTypeOK' /\ ~Calling(w)' /\ UNCHANGED <<panel, slot>>
        /\ \A b \in Callers \ {w} : call'[b] = call[b]
    BY <1>1, <2>1, ReturnsFacts
  <2>3. \A b \in Callers \ {w} : Calling(b)' <=> Calling(b)
    BY <2>2 DEF Calling
  <2>4. TypeOK'
    BY <1>6, <2>1, <2>2, <2>3 DEF IInv, TypeOK
  <2>5. OwnOps' /\ SlotsFollow'
    BY <1>3, <2>1, <2>2, IdleKept
  <2>6. ForcedIdleHolds' /\ TimerTrue' /\ Justified'
    BY <1>3, <2>1 DEF IInv, ForcedIdleHolds, TimerTrue, Justified, Vetoed, Fresh
  <2>7. QED
    BY <1>5, <2>4, <2>5, <2>6 DEF IInv
<1>10. QED
  BY <1>7, <1>8, <1>9 DEF WakerSteps

LEMMA ForceIdleKeeps ==
  ASSUME IInv, ForceIdle
  PROVE  IInv'
<1>1. /\ forced' = TRUE /\ GoIdle("ipc") /\ excuse \subseteq excuse'
      /\ excuse' = excuse \cup (IF \E w \in Wakers : waker[w] = "ready" THEN {"crossed"} ELSE {})
      /\ UNCHANGED <<quiet, loop, waker, heard, age, rest, during>>
  BY DEF ForceIdle, report
<1>2. /\ TvTypeOK' /\ OwnOps' /\ SlotsFollow' /\ is_idle' = TRUE
      /\ \A b \in Callers : Calling(b)' <=> Calling(b) \/ (b = "ipc" /\ ~is_idle)
  BY <1>1, GoIdleKeeps, TvFacts
<1>3. \A b \in Wakers \cup {"loop"} : Calling(b)' <=> Calling(b)
  BY <1>2, TvFacts
<1>4. TypeOK'
  BY <1>1, <1>2, <1>3 DEF IInv, TypeOK
<1>5. ForcedIdleHolds' /\ WakersHeld' /\ OrphansOfReload'
  BY <1>1, <1>2 DEF IInv, ForcedIdleHolds, WakersHeld, OrphansOfReload
<1>6. TimerTrue' /\ Justified'
  BY <1>1 DEF IInv, TimerTrue, Justified, Vetoed, Fresh
<1>7. QED
  BY <1>2, <1>4, <1>5, <1>6 DEF IInv

LEMMA ForceUnidleKeeps ==
  ASSUME IInv, ForceUnidle
  PROVE  IInv'
<1>1. /\ forced' = FALSE /\ GoBusy("ipc")
      /\ UNCHANGED <<loop, waker, heard, age, excuse>>
  BY DEF ForceUnidle, report
<1>2. /\ TvTypeOK' /\ OwnOps' /\ SlotsFollow' /\ is_idle' = FALSE
      /\ \A b \in Callers : Calling(b)' <=> Calling(b) \/ (b = "ipc" /\ is_idle)
      /\ TimerTrue' /\ Justified' /\ quiet' \in 0 .. Timeout /\ rest' \in 0 .. Timeout
      /\ during' \subseteq {"stirred", "report"}
  BY <1>1, GoBusyKeeps, TvFacts
<1>3. \A b \in Wakers \cup {"loop"} : Calling(b)' <=> Calling(b)
  BY <1>2, TvFacts
<1>4. TypeOK'
  BY <1>1, <1>2, <1>3 DEF IInv, TypeOK
<1>5. ForcedIdleHolds' /\ WakersHeld' /\ OrphansOfReload'
  BY <1>1 DEF IInv, ForcedIdleHolds, WakersHeld, OrphansOfReload
<1>6. QED
  BY <1>2, <1>4, <1>5 DEF IInv

LEMMA IpcReturnsKeeps ==
  ASSUME IInv, IpcReturns
  PROVE  IInv'
<1>1. /\ Returns("ipc")
      /\ UNCHANGED <<is_idle, forced, quiet, loop, waker, heard, age, rest, during, excuse>>
  BY DEF IpcReturns, engine, report, history
<1>2. /\ TvTypeOK' /\ UNCHANGED <<panel, slot>>
      /\ \A b \in Callers \ {"ipc"} : call'[b] = call[b]
  BY <1>1, ReturnsFacts, TvFacts
<1>3. \A b \in Wakers \cup {"loop"} : Calling(b)' <=> Calling(b)
  BY <1>2, TvFacts DEF Calling
<1>4. TypeOK'
  BY <1>1, <1>2, <1>3 DEF IInv, TypeOK
<1>5. OwnOps' /\ SlotsFollow'
  BY <1>1, <1>2, IdleKept
<1>6. QED
  BY <1>1, <1>4, <1>5
  DEF IInv, ForcedIdleHolds, WakersHeld, OrphansOfReload, TimerTrue, Justified, Vetoed, Fresh

\* A reload leaves the TV as it is only when the engine was not idle.
LEMMA ReloadKeeps ==
  ASSUME IInv, Reload
  PROVE  IInv'
<1>1. /\ is_idle' = FALSE /\ forced' = FALSE /\ quiet' = 0 /\ rest' = 0 /\ loop' = "sleep"
      /\ waker' = [w \in Wakers |-> CASE waker[w] = "ready" /\ is_idle -> "orphan"
                                      [] waker[w] = "ready" /\ ~is_idle -> "none"
                                      [] OTHER -> waker[w]]
      /\ excuse' = excuse \cup (IF is_idle \/ Waiting("loop") THEN {"reload"} ELSE {})
      /\ UNCHANGED <<heard, age, during>>
  BY DEF Reload, report
<1>2. /\ TvTypeOK' /\ OwnOps' /\ ~Calling("loop")' /\ panel' = panel
      /\ \A w \in Wakers : Calling(w)' <=> Calling(w)
      /\ ~Waiting("loop") => slot' = slot
  <2>1. CASE Waiting("loop")
    <3>1. Cancels("loop")
      BY <2>1 DEF Reload
    <3>2. QED
      BY <2>1, <3>1, CancelsFacts, TvFacts
  <2>2. CASE ~Waiting("loop")
    <3>1. Returns("loop")
      BY <2>2 DEF Reload
    <3>2. /\ TvTypeOK' /\ OwnOps' /\ ~Calling("loop")' /\ UNCHANGED <<panel, slot>>
          /\ \A b \in Callers \ {"loop"} : call'[b] = call[b]
      BY <3>1, ReturnsFacts, TvFacts
    <3>3. \A w \in Wakers : Calling(w)' <=> Calling(w)
      BY <3>2, TvFacts DEF Calling
    <3>4. QED
      BY <3>2, <3>3
  <2>3. QED
    BY <2>1, <2>2
<1>3. \A w \in Wakers :
        /\ waker[w] \in {"none", "ready", "orphan", "unblanking"}
        /\ waker'[w] \in {"none", "orphan", "unblanking"}
        /\ waker'[w] = "unblanking" <=> waker[w] = "unblanking"
        /\ waker'[w] = "orphan" => waker[w] = "orphan" \/ is_idle
  BY <1>1 DEF IInv, TypeOK
<1>4. waker' \in [Wakers -> {"none", "ready", "orphan", "unblanking"}]
  BY <1>1, <1>3
<1>5. TypeOK'
  <2>1. quiet' \in 0 .. Timeout /\ rest' \in 0 .. Timeout
    BY <1>1, Bounds
  <2>2. excuse' \subseteq {"overlap", "failure", "reload", "crossed"}
    BY <1>1 DEF IInv, TypeOK
  <2>3. QED
    BY <1>1, <1>2, <1>3, <1>4, <2>1, <2>2 DEF IInv, TypeOK
<1>6. SlotsFollow'
  <2>1. SUFFICES ASSUME excuse' \ {"crossed"} = {} PROVE SlotsFollow'
    BY DEF SlotsFollow
  <2>2. ~is_idle /\ ~Waiting("loop") /\ excuse' = excuse
    BY <1>1, <2>1
  <2>3. UNCHANGED <<panel, slot, is_idle, excuse>>
    BY <1>1, <1>2, <2>2 DEF IInv, TypeOK
  <2>4. QED
    BY <2>3, IdleKept
<1>7. OrphansOfReload'
  BY <1>1, <1>3 DEF IInv, OrphansOfReload
<1>8. ForcedIdleHolds' /\ WakersHeld' /\ TimerTrue' /\ Justified'
  BY <1>1 DEF ForcedIdleHolds, WakersHeld, TimerTrue, Justified
<1>9. QED
  BY <1>2, <1>5, <1>6, <1>7, <1>8 DEF IInv

LEMMA AgentKeeps ==
  ASSUME IInv, AgentReports \/ AgentReconnects
  PROVE  IInv'
<1>1. /\ heard' \in BOOLEAN /\ age' = 0 /\ during' = during \cup {"report"}
      /\ UNCHANGED <<panel, slot, call, is_idle, forced, quiet, loop, waker, rest, excuse>>
  BY DEF AgentReports, AgentReconnects, engine, tvVars, IInv, TypeOK
<1>2. TypeOK'
  <2>1. age' \in 0 .. Ttl + 1 /\ during' \subseteq {"stirred", "report"}
    BY <1>1, Bounds DEF IInv, TypeOK
  <2>2. TvTypeOK' /\ \A c \in Callers : Calling(c)' <=> Calling(c)
    BY <1>1, TvFacts DEF TvTypeOK, Calling
  <2>3. QED
    BY <1>1, <2>1, <2>2, TvFacts DEF IInv, TypeOK
<1>3. OwnOps' /\ SlotsFollow'
  BY <1>1, IdleKept
<1>4. ForcedIdleHolds' /\ WakersHeld' /\ OrphansOfReload' /\ TimerTrue' /\ Justified'
  BY <1>1 DEF IInv, ForcedIdleHolds, WakersHeld, OrphansOfReload, TimerTrue, Justified
<1>5. QED
  BY <1>2, <1>3, <1>4 DEF IInv

-----------------------------------------------------------------------------
(* The results                                                             *)

LEMMA InitHolds ==
  ASSUME Init
  PROVE  IInv
<1>1. /\ TvInit /\ panel[Tv] = "lit"
      /\ is_idle = FALSE /\ forced = FALSE /\ quiet = 0
      /\ loop = "sleep" /\ waker = [w \in Wakers |-> "none"]
      /\ heard = FALSE /\ age = Ttl + 1 /\ rest = 0 /\ during = {} /\ excuse = {}
  BY DEF Init
<1>2. /\ panel \in [Devices -> Panels] /\ slot = [d \in Devices |-> [k \in Slots |-> Free]]
      /\ call = [c \in Callers |-> NotCalling]
  BY <1>1 DEF TvInit
<1>3. TvTypeOK
  BY <1>2, FreeFacts, TvTypes
<1>4. \A c \in Callers : ~Calling(c)
  BY <1>2 DEF Calling
<1>5. "loop" \in Callers /\ Wakers \subseteq Callers
  BY IdleAssumption
<1>6. TypeOK
  <2>1. age \in 0 .. Ttl + 1 /\ quiet \in 0 .. Timeout /\ rest \in 0 .. Timeout
    BY <1>1, Bounds
  <2>2. waker \in [Wakers -> {"none", "ready", "orphan", "unblanking"}]
    BY <1>1
  <2>3. \A w \in Wakers : waker[w] # "unblanking" /\ ~Calling(w)
    BY <1>1, <1>4, <1>5
  <2>4. loop # "blanking" /\ ~Calling("loop")
    BY <1>1, <1>4, <1>5
  <2>5. QED
    BY <1>1, <1>3, <2>1, <2>2, <2>3, <2>4 DEF TypeOK
<1>7. \A k \in Slots : slot[Tv][k] = Free
  BY <1>2, FreeFacts
<1>8. OwnOps /\ SlotsFollow
  BY <1>1, <1>7, FreeFacts DEF OwnOps, SlotsFollow, On, Off
<1>9. ForcedIdleHolds /\ WakersHeld /\ OrphansOfReload /\ TimerTrue /\ Justified
  BY <1>1 DEF ForcedIdleHolds, WakersHeld, OrphansOfReload, TimerTrue, Justified
<1>10. QED
  BY <1>6, <1>8, <1>9 DEF IInv

LEMMA NextHolds ==
  ASSUME IInv, [Next]_vars
  PROVE  IInv'
<1>1. CASE Tick
  BY <1>1, TickKeeps
<1>2. CASE TvStep
  BY <1>2, TvStepKeeps
<1>3. CASE LoopSteps
  BY <1>3, LoopKeeps
<1>4. ASSUME NEW w \in Wakers, Activity(w)
      PROVE  IInv'
  BY <1>4, ActivityKeeps
<1>5. ASSUME NEW w \in Wakers, WakerSteps(w)
      PROVE  IInv'
  BY <1>5, WakerKeeps
<1>6. CASE ForceIdle
  BY <1>6, ForceIdleKeeps
<1>7. CASE ForceUnidle
  BY <1>7, ForceUnidleKeeps
<1>8. CASE IpcReturns
  BY <1>8, IpcReturnsKeeps
<1>9. CASE Reload
  BY <1>9, ReloadKeeps
<1>10. CASE AgentReports \/ AgentReconnects
  BY <1>10, AgentKeeps
<1>11. CASE UNCHANGED vars
  <2>1. UNCHANGED <<panel, slot, call, is_idle, forced, quiet, loop, waker, heard, age,
                    rest, during, excuse>>
    BY <1>11 DEF vars, tvVars, engine, report, history
  <2>2. TypeOK'
    BY <2>1 DEF IInv, TypeOK, TvTypeOK, Calling
  <2>3. OwnOps' /\ SlotsFollow'
    BY <2>1, IdleKept
  <2>4. QED
    BY <2>1, <2>2, <2>3
    DEF IInv, ForcedIdleHolds, WakersHeld, OrphansOfReload, TimerTrue, Justified, Vetoed, Fresh
<1>12. QED
  BY <1>1, <1>2, <1>3, <1>4, <1>5, <1>6, <1>7, <1>8, <1>9, <1>10, <1>11 DEF Next

LEMMA IInvHolds == Spec => []IInv
<1>1. Init => IInv
  BY InitHolds
<1>2. IInv /\ [Next]_vars => IInv'
  BY NextHolds
<1>3. QED
  BY <1>1, <1>2, PTL DEF Spec

\* The types hold, the loop and the wakers operate on the TV exactly while they await
\* on_idle or on_busy, and a forced idle (userIdle) holds until userBusy or a reload
\* releases it, whatever notify_activity is told, unless a wake-up was already spawned.
THEOREM InvHolds == Spec => []Inv
<1>1. IInv => Inv
  BY DEF IInv, Inv
<1>2. QED
  BY <1>1, IInvHolds, PTL

\* When no operation runs and the panel is dark, _is_idle is set, so that the next
\* activity lights the TV: only an overlap of the two slots, a failed operation, or a
\* reload of an idle engine ever leaves it dark with nobody to light it.
THEOREM DarkIsIdleUnlessExcusedHolds == Spec => []DarkIsIdleUnlessExcused
<1>1. ASSUME IInv
      PROVE  DarkIsIdleUnlessExcused
  <2>1. SUFFICES ASSUME Settled(Tv), panel[Tv] = "dark", ~is_idle
                 PROVE  excuse \ {"crossed"} # {}
    BY DEF DarkIsIdleUnlessExcused
  <2>2. On = Free /\ ~Overlap
    BY <2>1, FreeFacts DEF Settled, busy, On, Overlap
  <2>3. QED
    BY <1>1, <2>1, <2>2 DEF IInv, SlotsFollow
<1>2. QED
  BY <1>1, IInvHolds, PTL

\* _go_idle blanks for the loop only when the whole timeout has passed since the user
\* last stirred, and no fresh report vetoes it, unless that changed while the loop was
\* waiting for logind's answer.
THEOREM BlanksOnlyWhenJustifiedHolds == Spec => BlanksOnlyWhenJustified
<1> DEFINE A == LoopGoesIdle /\ ~is_idle =>
                  /\ rest >= Timeout \/ "stirred" \in during
                  /\ ~Vetoed \/ "report" \in during
<1>1. ASSUME IInv
      PROVE  A
  BY <1>1 DEF IInv, Justified, LoopGoesIdle
<1>2. IInv => [A]_vars
  BY <1>1
<1>3. QED
  BY <1>2, IInvHolds, PTL DEF BlanksOnlyWhenJustified
=============================================================================
