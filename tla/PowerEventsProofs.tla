-------------------------- MODULE PowerEventsProofs --------------------------
(***************************************************************************)
(* Proofs about PowerEvents, for any handlers, inhibitor processes and     *)
(* number of sleeps.                                                       *)
(***************************************************************************)
EXTENDS PowerEvents, TLAPS

-----------------------------------------------------------------------------
(* The inductive invariant                                                 *)

Has(signal) == signal \in ToSet(signals)

Commanding == {"suspend", "shutdown", "poweringOff"}

\* The i-th signal will start a command.
Owes(i) ==
  \/ signals[i] \in {"sleep", "poweroff"}
  \/ signals[i] = "shutdown" /\ ~newer

\* Where systemd has the newer form, it comes first.
Forms ==
  /\ ~newer => ~sawMetadata /\ ~Has("poweroff") /\ ~Has("reboot")
  /\ newer => \A j \in DOMAIN signals : signals[j] = "shutdown" =>
       sawMetadata \/ \E i \in DOMAIN signals : i < j /\ signals[i] \in {"poweroff", "reboot"}
  /\ machine = "rebooting" => newer

\* What a halt has started is over when the machine is up, unless it was given up early.
Told ==
  /\ "outlived" \in excuse => "late" \in excuse
  /\ "outlived" \notin excuse =>
       /\ Has("poweroff") \/ (Has("shutdown") /\ ~newer) => machine \in {"halting", "halted"}
       /\ Has("reboot") => machine \in {"rebooting", "halted"}
       /\ \A h \in Handlers : handler[h] = "noop" => machine \in {"rebooting", "halted"}

Halts == Forms /\ Told

\* At most one resume takes an inhibitor, and none runs then.
Spawning ==
  "twice" \notin excuse =>
    /\ \A g, h \in Handlers : handler[g] = "spawning" /\ handler[h] = "spawning" => g = h
    /\ \A h \in Handlers : handler[h] = "spawning" => live = {}

\* No command is left over while the machine is up, unless one was late.
AwakeDone == machine \in {"awake", "asleep"} => ~Unfinished \/ "late" \in excuse

\* What was announced needs one command, and an inhibitor runs until that is over.
OneCommand ==
  machine \in {"preparing", "halting", "rebooting"} /\ excuse \cap {"late", "unarmed"} = {} =>
    /\ \A i, j \in DOMAIN signals : Owes(i) /\ Owes(j) => i = j
    /\ \A g, h \in Handlers : handler[g] \in Commanding /\ handler[h] \in Commanding => g = h
    /\ \A h \in Handlers, i \in DOMAIN signals : handler[h] \in Commanding => ~Owes(i)
    /\ live = {} \/ machine = "rebooting" => ~Unfinished

Guarded ==
  machine = "awake" /\ excuse \cap {"late", "no inhibitor", "aborted"} = {} =>
    \/ inhibitor \in live \/ Has("resume")
    \/ \E h \in Handlers : handler[h] \in {"resume", "spawning"}

\* Every operation is awaited by the handler that has called it, in the slot that it
\* belongs to.
Operations ==
  /\ \A h \in Handlers : /\ handler[h] = "poweringOff" => call[h].to = {Tv} /\ call[h].key = "off"
                         /\ handler[h] = "poweringOn" => call[h].to = {Tv} /\ call[h].key = "on"
  /\ \A k \in Slots : slot[Tv][k] # Free => \E h \in Handlers : Joined(h, Tv, k)
  /\ slot[Tv]["on"].op \in {"none", "power_on"} /\ slot[Tv]["off"].op \in {"none", "power_off"}

\* A wake-up that has done its work has lit the panel.
Lit == panel[Tv] = "lit"
WokenUp == slot[Tv]["on"].res # "none" => Lit \/ excuse \cap {"failure", "crossed"} # {}

WillPowerOn(h) ==
  \/ handler[h] \in {"resume", "spawning", "waiting"}
  \/ handler[h] = "poweringOn" /\ Joined(h, Tv, "on") /\ slot[Tv]["on"].res = "none"
PictureComes ==
  machine = "awake" /\ excuse \cap {"late", "failure", "crossed", "aborted"} = {} =>
    Lit \/ Has("resume") \/ \E h \in Handlers : WillPowerOn(h)

IInv ==
  /\ TypeOK /\ NoStrayInhibitor /\ SomeoneLetsGo
  /\ Halts /\ Spawning /\ AwakeDone /\ OneCommand /\ Guarded
  /\ Operations /\ WokenUp /\ PictureComes

-----------------------------------------------------------------------------
(* Signals                                                                 *)

Signals == {"sleep", "resume", "poweroff", "reboot", "shutdown", "cancelled"}

LEMMA AppendFacts ==
  ASSUME NEW s \in Seq(Signals), NEW x \in Signals
  PROVE  /\ Append(s, x) \in Seq(Signals) /\ ToSet(Append(s, x)) = ToSet(s) \cup {x}
         /\ DOMAIN s \subseteq DOMAIN Append(s, x)
         /\ \A i \in DOMAIN Append(s, x) :
              \/ i \in DOMAIN s /\ Append(s, x)[i] = s[i]
              \/ i \notin DOMAIN s /\ i = Len(s) + 1 /\ Append(s, x)[i] = x
<1>1. /\ Append(s, x) \in Seq(Signals) /\ DOMAIN s = 1 .. Len(s) /\ Len(s) \in Nat
      /\ DOMAIN Append(s, x) = 1 .. Len(s) + 1 /\ Append(s, x)[Len(s) + 1] = x
      /\ \A i \in DOMAIN s : Append(s, x)[i] = s[i]
  OBVIOUS
<1>2. \A i \in DOMAIN Append(s, x) : i \in DOMAIN s \/ i = Len(s) + 1
  BY <1>1
<1>3. ToSet(Append(s, x)) = ToSet(s) \cup {x}
  BY <1>1, <1>2 DEF ToSet
<1>4. QED
  BY <1>1, <1>2, <1>3

LEMMA ConsumeFacts ==
  ASSUME NEW s \in Seq(Signals), s # <<>>
  PROVE  /\ Tail(s) \in Seq(Signals) /\ Head(s) \in Signals
         /\ ToSet(s) = ToSet(Tail(s)) \cup {Head(s)}
         /\ 1 \in DOMAIN s /\ s[1] = Head(s)
         /\ \A i \in DOMAIN Tail(s) :
              i \in Nat \ {0} /\ i + 1 \in DOMAIN s /\ Tail(s)[i] = s[i + 1]
<1>1. /\ Tail(s) \in Seq(Signals) /\ Head(s) \in Signals
      /\ 1 \in DOMAIN s /\ s[1] = Head(s) /\ Len(s) \in Nat \ {0}
      /\ DOMAIN s = 1 .. Len(s) /\ DOMAIN Tail(s) = 1 .. Len(s) - 1
      /\ \A i \in DOMAIN Tail(s) :
           i \in Nat \ {0} /\ i + 1 \in DOMAIN s /\ Tail(s)[i] = s[i + 1]
  OBVIOUS
<1>2. \A i \in DOMAIN s : i = 1 \/ (i - 1 \in DOMAIN Tail(s) /\ Tail(s)[i - 1] = s[i])
  BY <1>1
<1>3. ToSet(s) = ToSet(Tail(s)) \cup {Head(s)}
  BY <1>1, <1>2 DEF ToSet
<1>4. QED
  BY <1>1, <1>3

-----------------------------------------------------------------------------
(* The television                                                          *)

CallRec == [to : SUBSET Devices, key : Slots \cup {"none"},
            res : Results \cup {"none", "cancelled"}]
SlotRec == [op : Ops \cup {"none"}, res : Results \cup {"none"}]

LEMMA TvTypes ==
  TvTypeOK <=> /\ panel \in [Devices -> Panels] /\ slot \in [Devices -> [Slots -> SlotRec]]
               /\ call \in [Callers -> CallRec]
BY DEF TvTypeOK, CallRec, SlotRec

\* c joins what runs in the slot, or starts it.
LEMMA CallsFacts ==
  ASSUME TvTypeOK, NEW h \in Handlers, NEW op \in {"power_on", "power_off"}, Calls(h, Tv, op)
  PROVE  LET k == SlotOf(op) IN
         /\ TvTypeOK' /\ Joined(h, Tv, k)' /\ Calling(h)' /\ call'[h].to = {Tv} /\ call'[h].key = k
         /\ \A g \in Handlers \ {h} : call'[g] = call[g]
         /\ panel' = panel /\ \A j \in Slots \ {k} : slot'[Tv][j] = slot[Tv][j]
         /\ slot'[Tv][k].res = slot[Tv][k].res /\ slot'[Tv][k].op \in {op, slot[Tv][k].op}
<1> DEFINE k == SlotOf(op)
           r == [to |-> {Tv}, key |-> k, res |-> "none"]
<1>1. k \in Slots /\ op \in Ops /\ Tv \in Devices /\ Devices = {Tv} /\ Callers = Handlers
  BY PowerEventsAssumption DEF SlotOf, Slots, Ops
<1>2. /\ panel \in [Devices -> Panels] /\ slot \in [Devices -> [Slots -> SlotRec]]
      /\ call \in [Callers -> CallRec]
  BY TvTypes
<1>3. r \in CallRec /\ r.to = {Tv} /\ r.key = k /\ r.res = "none" /\ r # NotCalling
  BY <1>1 DEF CallRec, NotCalling, Slots
<1>4. call' = [call EXCEPT ![h] = r] /\ panel' = panel
  BY DEF Calls
<1>5. \/ slot' = [slot EXCEPT ![Tv][k].op = op] /\ slot[Tv][k] = Free
      \/ slot' = slot
  BY DEF Calls
<1> HIDE DEF k, r
<1>6. /\ call' \in [Callers -> CallRec] /\ call'[h] = r
      /\ \A g \in Handlers \ {h} : call'[g] = call[g]
  BY <1>1, <1>2, <1>3, <1>4
<1>7. /\ slot' \in [Devices -> [Slots -> SlotRec]]
      /\ \A j \in Slots \ {k} : slot'[Tv][j] = slot[Tv][j]
      /\ slot'[Tv][k].res = slot[Tv][k].res /\ slot'[Tv][k].op \in {op, slot[Tv][k].op}
  BY <1>1, <1>2, <1>5 DEF SlotRec
<1>8. TvTypeOK'
  BY <1>2, <1>4, <1>6, <1>7 DEF TvTypeOK, CallRec, SlotRec
<1>9. Joined(h, Tv, k)' /\ Calling(h)'
  BY <1>3, <1>6 DEF Joined, Calling, Waiting
<1>10. QED
  BY <1>3, <1>4, <1>6, <1>7, <1>8, <1>9 DEF k

LEMMA ReturnsFacts ==
  ASSUME TvTypeOK, NEW h \in Handlers, Returns(h)
  PROVE  /\ TvTypeOK' /\ ~Calling(h)' /\ UNCHANGED <<panel, slot>>
         /\ \A g \in Handlers \ {h} : call'[g] = call[g]
<1>1. NotCalling \in CallRec /\ Devices = {Tv} /\ Callers = Handlers
  BY PowerEventsAssumption DEF NotCalling, CallRec
<1>2. /\ panel \in [Devices -> Panels] /\ slot \in [Devices -> [Slots -> SlotRec]]
      /\ call \in [Callers -> CallRec]
  BY TvTypes
<1>3. call' = [call EXCEPT ![h] = NotCalling] /\ UNCHANGED <<panel, slot>>
  BY DEF Returns
<1>4. /\ call' \in [Callers -> CallRec] /\ call'[h] = NotCalling
      /\ \A g \in Handlers \ {h} : call'[g] = call[g]
  BY <1>1, <1>2, <1>3
<1>5. TvTypeOK'
  BY <1>2, <1>3, <1>4 DEF TvTypeOK, CallRec, SlotRec
<1>6. QED
  BY <1>3, <1>4, <1>5 DEF Calling

\* The operation in slot k does its work on the panel and knows its result.
LEMMA ActsFacts ==
  ASSUME TvTypeOK, Operations, NEW k \in Slots, Acts(Tv, k)
  PROVE  /\ TvTypeOK' /\ call' = call /\ slot[Tv][k] # Free
         /\ \A j \in Slots \ {k} : slot'[Tv][j] = slot[Tv][j]
         /\ slot'[Tv][k].op = slot[Tv][k].op /\ slot'[Tv][k].res # "none"
         /\ slot[Tv][k].res = "none"
<1>1. Tv \in Devices /\ Devices = {Tv}
  BY PowerEventsAssumption
<1>2. /\ panel \in [Devices -> Panels] /\ slot \in [Devices -> [Slots -> SlotRec]]
      /\ call \in [Callers -> CallRec] /\ panel[Tv] \in Panels
  BY <1>1, TvTypes
<1>3. slot[Tv][k].op \in {"power_on", "power_off"}
  BY DEF Acts, Operations, Slots
<1>4. PICK o \in Outcomes(slot[Tv][k].op, panel[Tv]) :
        panel' = [panel EXCEPT ![Tv] = o[1]] /\ slot' = [slot EXCEPT ![Tv][k].res = o[2]]
  BY DEF Acts
<1>5. /\ o[1] \in Panels /\ o[2] \in Results
  <2>1. CASE slot[Tv][k].op = "power_on"
    BY <1>2, <1>4, <2>1 DEF Outcomes, Panels, Results
  <2>2. CASE slot[Tv][k].op = "power_off"
    BY <1>2, <1>4, <2>2 DEF Outcomes, Panels, Results
  <2>3. QED
    BY <1>3, <2>1, <2>2
<1>6. /\ panel' \in [Devices -> Panels] /\ panel'[Tv] = o[1]
      /\ slot' \in [Devices -> [Slots -> SlotRec]]
      /\ \A j \in Slots \ {k} : slot'[Tv][j] = slot[Tv][j]
      /\ slot'[Tv][k].op = slot[Tv][k].op /\ slot'[Tv][k].res = o[2]
  BY <1>1, <1>2, <1>4, <1>5 DEF SlotRec
<1>7. call' = call /\ slot[Tv][k] # Free /\ slot[Tv][k].res = "none" /\ o[2] # "none"
  BY <1>3, <1>5 DEF Acts, Free, Results
<1>8. TvTypeOK'
  BY <1>2, <1>6, <1>7 DEF TvTypeOK, CallRec, SlotRec
<1>9. QED
  BY <1>5, <1>6, <1>7, <1>8

LEMMA EndsFacts ==
  ASSUME TvTypeOK, NEW k \in Slots, Ends(Tv, k)
  PROVE  /\ TvTypeOK' /\ panel' = panel /\ slot[Tv][k].res # "none" /\ slot'[Tv][k] = Free
         /\ \A j \in Slots \ {k} : slot'[Tv][j] = slot[Tv][j]
         /\ \A h \in Handlers : /\ call'[h].to = call[h].to /\ call'[h].key = call[h].key
                                /\ Calling(h)' <=> Calling(h)
                                /\ \A j \in Slots \ {k} : Joined(h, Tv, j) => Joined(h, Tv, j)'
<1>1. Tv \in Devices /\ Devices = {Tv} /\ Callers = Handlers
  BY PowerEventsAssumption
<1>2. /\ panel \in [Devices -> Panels] /\ slot \in [Devices -> [Slots -> SlotRec]]
      /\ call \in [Callers -> CallRec]
  BY TvTypes
<1>3. /\ slot[Tv][k].res # "none" /\ slot[Tv][k].res \in Results
      /\ slot' = [slot EXCEPT ![Tv][k] = Free] /\ panel' = panel
  BY <1>1, <1>2 DEF Ends, SlotRec
<1> DEFINE r(h) == [call[h] EXCEPT !.res = slot[Tv][k].res]
<1>4. \A h \in Handlers : call'[h] = IF Joined(h, Tv, k) THEN r(h) ELSE call[h]
  BY <1>1 DEF Ends
<1>5. \A h \in Handlers : /\ r(h) \in CallRec /\ r(h).to = call[h].to /\ r(h).key = call[h].key
                          /\ r(h).res = slot[Tv][k].res
  BY <1>1, <1>2, <1>3 DEF CallRec
<1>6. call' = [h \in Handlers |-> IF Joined(h, Tv, k) THEN r(h) ELSE call[h]]
  BY <1>1 DEF Ends
<1> HIDE DEF r
<1>7. call' \in [Callers -> CallRec]
  BY <1>1, <1>2, <1>5, <1>6
<1>8. Free \in SlotRec
  BY DEF Free, SlotRec
<1>9. /\ slot' \in [Devices -> [Slots -> SlotRec]] /\ slot'[Tv][k] = Free
      /\ \A j \in Slots \ {k} : slot'[Tv][j] = slot[Tv][j]
  BY <1>1, <1>2, <1>3, <1>8
<1>10. TvTypeOK'
  BY <1>2, <1>3, <1>7, <1>9 DEF TvTypeOK, CallRec, SlotRec
<1>11. ASSUME NEW h \in Handlers
       PROVE  /\ call'[h].to = call[h].to /\ call'[h].key = call[h].key
              /\ Calling(h)' <=> Calling(h)
              /\ \A j \in Slots \ {k} : Joined(h, Tv, j) => Joined(h, Tv, j)'
  <2>1. CASE Joined(h, Tv, k)
    BY <1>3, <1>4, <1>5, <2>1 DEF Joined, Calling, Waiting, NotCalling
  <2>2. CASE ~Joined(h, Tv, k)
    BY <1>4, <2>2 DEF Joined, Calling, Waiting
  <2>3. QED
    BY <2>1, <2>2
<1>12. QED
  BY <1>3, <1>9, <1>10, <1>11
-----------------------------------------------------------------------------
(* The machine's steps                                                     *)

\* Something announced is owed a command, or a handler is about one.
LEMMA UnfinishedIsOwed ==
  Unfinished <=> \/ \E i \in DOMAIN signals : Owes(i)
                 \/ \E h \in Handlers : handler[h] \in Commanding
BY DEF Unfinished, Owes, Has, Commanding, ToSet

\* A machine that is up has no halt left to deal with.
LEMMA UpIsQuiet ==
  ASSUME IInv, machine \in {"awake", "asleep", "preparing"}, "outlived" \notin excuse
  PROVE  /\ ~Has("poweroff") /\ ~Has("reboot") /\ (Has("shutdown") => newer)
         /\ \A h \in Handlers : handler[h] # "noop"
BY DEF IInv, Halts, Told

\* A signal that is about no halt leaves the others in their places.
LEMMA HaltsKeep ==
  ASSUME IInv, NEW x \in Signals \ {"poweroff", "reboot", "shutdown"}, signals' = Append(signals, x),
         UNCHANGED <<newer, sawMetadata>>, machine' # "rebooting"
  PROVE  /\ Forms' /\ \A y \in {"poweroff", "reboot", "shutdown"} : Has(y)' <=> Has(y)
<1>1. /\ ToSet(signals') = ToSet(signals) \cup {x} /\ DOMAIN signals \subseteq DOMAIN signals'
      /\ \A i \in DOMAIN signals' :
           \/ i \in DOMAIN signals /\ signals'[i] = signals[i]
           \/ i \notin DOMAIN signals /\ signals'[i] = x
  BY AppendFacts DEF IInv, TypeOK, Signals
<1>2. \A y \in {"poweroff", "reboot", "shutdown"} : Has(y)' <=> Has(y)
  BY <1>1 DEF Has
<1>3. ASSUME newer, NEW j \in DOMAIN signals', signals'[j] = "shutdown", ~sawMetadata
      PROVE  \E i \in DOMAIN signals' : i < j /\ signals'[i] \in {"poweroff", "reboot"}
  <2>1. j \in DOMAIN signals /\ signals[j] = "shutdown"
    BY <1>1, <1>3
  <2>2. PICK i \in DOMAIN signals : i < j /\ signals[i] \in {"poweroff", "reboot"}
    BY <1>3, <2>1 DEF IInv, Halts, Forms
  <2>3. i \in DOMAIN signals' /\ signals'[i] = signals[i]
    BY <1>1
  <2>4. QED
    BY <2>2, <2>3
<1>4. Forms'
  BY <1>2, <1>3 DEF IInv, Halts, Forms
<1>5. QED
  BY <1>2, <1>4

\* The machine moves and the daemon does not.
LEMMA MachineMoves ==
  ASSUME IInv, UNCHANGED <<tvVars, events>>, excuse \ {"aborted"} \subseteq excuse'
  PROVE  NoStrayInhibitor' /\ Spawning' /\ Operations' /\ WokenUp'
<1>1. UNCHANGED <<panel, slot, call, handler, inhibitor, live, sawMetadata>>
  BY DEF tvVars, events
<1>2. NoStrayInhibitor'
  BY <1>1 DEF IInv, NoStrayInhibitor
<1>3. Spawning'
  BY <1>1 DEF IInv, Spawning
<1>4. Operations'
  BY <1>1 DEF IInv, Operations, Joined, Waiting, Calling
<1>5. WokenUp'
  BY <1>1 DEF IInv, WokenUp, Lit
<1>6. QED
  BY <1>2, <1>3, <1>4, <1>5

LEMMA MachineTypes ==
  ASSUME TypeOK, UNCHANGED <<tvVars, events>>
  PROVE  /\ TvTypeOK' /\ sawMetadata' \in BOOLEAN
         /\ handler' \in [Handlers -> {"none", "suspend", "shutdown", "noop", "poweringOff",
                                       "resume", "spawning", "waiting", "poweringOn"}]
         /\ inhibitor' \in Inhibitors \cup {NoInhibitor} /\ live' \subseteq Inhibitors
         /\ \A h \in Handlers : Calling(h)' <=> handler'[h] \in {"poweringOff", "poweringOn"}
BY DEF TypeOK, tvVars, events, TvTypeOK, Calling

LEMMA PreparesSleepKeeps ==
  ASSUME IInv, PreparesSleep
  PROVE  IInv'
<1>1. /\ machine = "awake" /\ machine' = "preparing" /\ slept < Sleeps /\ slept' = slept + 1
      /\ signals' = Append(signals, "sleep") /\ net' = net
      /\ excuse' = excuse \cup (IF live = {} THEN {"unarmed"} ELSE {})
      /\ UNCHANGED <<tvVars, events>>
      /\ UNCHANGED <<newer, handler, live, sawMetadata>>
  BY DEF PreparesSleep, events
<1>2. signals \in Seq(Signals) /\ "sleep" \in Signals
  BY DEF IInv, TypeOK, Signals
<1>3. /\ signals' \in Seq(Signals) /\ ToSet(signals') = ToSet(signals) \cup {"sleep"}
      /\ \A i \in DOMAIN signals' :
           \/ i \in DOMAIN signals /\ signals'[i] = signals[i]
           \/ i \notin DOMAIN signals /\ i = Len(signals) + 1 /\ signals'[i] = "sleep"
  BY <1>1, <1>2, AppendFacts
<1>4. NoStrayInhibitor' /\ Spawning' /\ Operations' /\ WokenUp'
  BY <1>1, MachineMoves
<1>5. TypeOK'
  <2>1. slept' \in 0..Sleeps
    <3>1. slept \in 0..Sleeps /\ Sleeps \in Nat
      BY PowerEventsAssumption DEF IInv, TypeOK
    <3>2. QED
      BY <1>1, <3>1
  <2>2. excuse' \subseteq Excuses /\ net' \in BOOLEAN
    BY <1>1 DEF IInv, TypeOK, Excuses
  <2>3. QED
    BY <1>1, <1>3, <2>1, <2>2, MachineTypes DEF IInv, TypeOK, Signals
<1>6. SomeoneLetsGo'
  BY <1>3 DEF SomeoneLetsGo, Releasing, Unfinished
<1>7. Halts'
  <2>1. Forms' /\ \A y \in {"poweroff", "reboot", "shutdown"} : Has(y)' <=> Has(y)
    BY <1>1, HaltsKeep DEF Signals
  <2>2. QED
    BY <1>1, <2>1, UpIsQuiet DEF IInv, Halts, Told
<1>8. OneCommand'
  <2>1. SUFFICES ASSUME excuse' \cap {"late", "unarmed"} = {}
                 PROVE  /\ \A i, j \in DOMAIN signals' : Owes(i)' /\ Owes(j)' => i = j
                        /\ \A h \in Handlers : handler'[h] \notin Commanding
                        /\ live' # {}
    <3>1. machine' # "rebooting"
      BY <1>1
    <3>2. QED
      BY <3>1 DEF OneCommand
  <2>2. ~Unfinished /\ live # {}
    BY <1>1, <2>1 DEF IInv, AwakeDone
  <2>3. \A i \in DOMAIN signals' : Owes(i)' => i = Len(signals) + 1
    BY <1>1, <1>3, <2>2, UnfinishedIsOwed DEF Owes
  <2>4. QED
    BY <1>1, <2>2, <2>3, UnfinishedIsOwed
<1>9. AwakeDone' /\ Guarded' /\ PictureComes'
  BY <1>1 DEF AwakeDone, Guarded, PictureComes
<1>10. QED
  BY <1>4, <1>5, <1>6, <1>7, <1>8, <1>9 DEF IInv

LEMMA GoesDownKeeps ==
  ASSUME IInv, NEW patient \in BOOLEAN, GoesDown(patient)
  PROVE  IInv'
<1>1. /\ machine \in {"preparing", "halting", "rebooting"}
      /\ machine' = IF machine = "preparing" THEN "asleep" ELSE "halted"
      /\ net' = FALSE /\ excuse' = excuse \cup (IF Unfinished THEN {"late"} ELSE {})
      /\ UNCHANGED <<tvVars, events>> /\ UNCHANGED <<newer, slept, signals, handler, sawMetadata>>
  BY DEF GoesDown, events
<1>2. NoStrayInhibitor' /\ Spawning' /\ Operations' /\ WokenUp'
  BY <1>1, MachineMoves
<1>3. TypeOK'
  <2>1. excuse' \subseteq Excuses /\ net' \in BOOLEAN
    BY <1>1 DEF IInv, TypeOK, Excuses
  <2>2. QED
    BY <1>1, <2>1, MachineTypes DEF IInv, TypeOK
<1>4. Halts'
  BY <1>1 DEF IInv, Halts, Forms, Told, Has
<1>5. AwakeDone'
  BY <1>1 DEF AwakeDone, Unfinished
<1>6. SomeoneLetsGo' /\ OneCommand' /\ Guarded' /\ PictureComes'
  BY <1>1 DEF SomeoneLetsGo, Releasing, OneCommand, Guarded, PictureComes
<1>7. QED
  BY <1>2, <1>3, <1>4, <1>5, <1>6 DEF IInv

LEMMA WakesUpKeeps ==
  ASSUME IInv, WakesUp
  PROVE  IInv'
<1>1. /\ machine = "asleep" /\ machine' = "awake" /\ signals' = Append(signals, "resume")
      /\ UNCHANGED <<tvVars, events>> /\ UNCHANGED <<newer, slept, net, handler, sawMetadata>>
      /\ excuse' = excuse \ {"aborted"}
  BY DEF WakesUp, events
<1>2. signals \in Seq(Signals) /\ "resume" \in Signals
  BY DEF IInv, TypeOK, Signals
<1>3. /\ signals' \in Seq(Signals) /\ ToSet(signals') = ToSet(signals) \cup {"resume"}
      /\ \A i \in DOMAIN signals' :
           \/ i \in DOMAIN signals /\ signals'[i] = signals[i]
           \/ i \notin DOMAIN signals /\ i = Len(signals) + 1 /\ signals'[i] = "resume"
  BY <1>1, <1>2, AppendFacts
<1>4. NoStrayInhibitor' /\ Spawning' /\ Operations' /\ WokenUp'
  BY <1>1, MachineMoves
<1>5. TypeOK'
  BY <1>1, <1>3, MachineTypes DEF IInv, TypeOK, Signals
<1>6. Halts'
  <2>1. Forms' /\ \A y \in {"poweroff", "reboot", "shutdown"} : Has(y)' <=> Has(y)
    BY <1>1, HaltsKeep DEF Signals
  <2>2. QED
    BY <1>1, <2>1, UpIsQuiet DEF IInv, Halts, Told
<1>7. AwakeDone'
  BY <1>1, <1>3 DEF IInv, AwakeDone, Unfinished
<1>8. Guarded' /\ PictureComes'
  BY <1>3 DEF Guarded, PictureComes, Has
<1>9. SomeoneLetsGo' /\ OneCommand'
  BY <1>1 DEF SomeoneLetsGo, Releasing, OneCommand
<1>10. QED
  BY <1>4, <1>5, <1>6, <1>7, <1>8, <1>9 DEF IInv

LEMMA AbortsHaltKeeps ==
  ASSUME IInv, AbortsHalt
  PROVE  IInv'
<1>1. /\ machine \in {"halting", "rebooting"} /\ machine' = "awake" /\ slept < Sleeps
      /\ slept' = slept + 1 /\ signals' = Append(signals, "cancelled")
      /\ excuse' = excuse \cup {"aborted"} \cup (IF Releasing THEN {"late", "outlived"} ELSE {})
      /\ UNCHANGED <<tvVars, events>> /\ UNCHANGED <<newer, net, handler, sawMetadata>>
  BY DEF AbortsHalt, events
<1>2. signals \in Seq(Signals) /\ "cancelled" \in Signals
  BY DEF IInv, TypeOK, Signals
<1>3. signals' \in Seq(Signals) /\ ToSet(signals') = ToSet(signals) \cup {"cancelled"}
  BY <1>1, <1>2, AppendFacts
<1>4. NoStrayInhibitor' /\ Spawning' /\ Operations' /\ WokenUp'
  BY <1>1, MachineMoves
<1>5. TypeOK'
  <2>1. slept' \in 0..Sleeps
    <3>1. slept \in 0..Sleeps /\ Sleeps \in Nat
      BY PowerEventsAssumption DEF IInv, TypeOK
    <3>2. QED
      BY <1>1, <3>1
  <2>2. excuse' \subseteq Excuses
    BY <1>1 DEF IInv, TypeOK, Excuses
  <2>3. QED
    BY <1>1, <1>3, <2>1, <2>2, MachineTypes DEF IInv, TypeOK, Signals
<1>6. Halts'
  <2>1. Forms' /\ \A y \in {"poweroff", "reboot", "shutdown"} : Has(y)' <=> Has(y)
    BY <1>1, HaltsKeep DEF Signals
  <2>2. ~Releasing => /\ ~Has("poweroff") /\ ~Has("reboot") /\ (Has("shutdown") => newer)
                      /\ \A h \in Handlers : handler[h] # "noop"
    BY DEF Releasing, Unfinished, Has
  <2>3. QED
    BY <1>1, <2>1, <2>2 DEF IInv, Halts, Told
<1>7. AwakeDone'
  BY <1>1, <1>3 DEF AwakeDone, Releasing, Unfinished
<1>8. Guarded' /\ PictureComes'
  BY <1>1 DEF Guarded, PictureComes
<1>9. SomeoneLetsGo' /\ OneCommand'
  BY <1>1 DEF SomeoneLetsGo, OneCommand
<1>10. QED
  BY <1>4, <1>5, <1>6, <1>7, <1>8, <1>9 DEF IInv

LEMMA NetworkReturnsKeeps ==
  ASSUME IInv, NetworkReturns
  PROVE  IInv'
<1>1. /\ net' = TRUE /\ UNCHANGED <<tvVars, events>>
      /\ UNCHANGED <<machine, newer, slept, signals, excuse, handler, inhibitor, live, sawMetadata>>
      /\ UNCHANGED <<panel, slot, call>>
  BY DEF NetworkReturns, events, tvVars
<1>2. NoStrayInhibitor' /\ Spawning' /\ Operations' /\ WokenUp'
  BY <1>1, MachineMoves
<1>3. TypeOK'
  BY <1>1, MachineTypes DEF IInv, TypeOK
<1>4. SomeoneLetsGo' /\ AwakeDone'
  BY <1>1 DEF IInv, SomeoneLetsGo, Releasing, AwakeDone, Unfinished
<1>5. Halts'
  BY <1>1 DEF IInv, Halts, Forms, Told, Has
<1>6. OneCommand'
  BY <1>1 DEF IInv, OneCommand, Owes, Has, Unfinished
<1>7. Guarded' /\ PictureComes'
  BY <1>1 DEF IInv, Guarded, PictureComes, Has, Lit, WillPowerOn, Joined, Waiting, Calling
<1>8. QED
  BY <1>2, <1>3, <1>4, <1>5, <1>6, <1>7 DEF IInv

\* What a halt adds to the signals: "shutdown" comes last, and alone or after the form
\* that says which halt it is.
LEMMA HaltSignals ==
  ASSUME IInv, PreparesHalt
  PROVE  \E form \in {{}, {"poweroff"}, {"reboot"}} :
           /\ signals' \in Seq(Signals)
           /\ ToSet(signals') = ToSet(signals) \cup form \cup {"shutdown"}
           /\ machine' = IF form = {"reboot"} THEN "rebooting" ELSE "halting"
           /\ newer <=> form # {}
           /\ DOMAIN signals \subseteq DOMAIN signals'
           /\ \E last \in DOMAIN signals' :
                \A i \in DOMAIN signals' :
                  /\ i \in Nat /\ i <= last
                  /\ i # last => \/ i \in DOMAIN signals /\ signals'[i] = signals[i]
                                 \/ signals'[i] \in form /\ i + 1 = last
                  /\ i = last => signals'[i] = "shutdown"
<1> DEFINE n == Len(signals)
<1>1. /\ signals \in Seq(Signals) /\ n \in Nat /\ DOMAIN signals = 1 .. n
      /\ ToSet(signals) = {signals[i] : i \in 1 .. n}
  <2>1. signals \in Seq(Signals)
    BY DEF IInv, TypeOK, Signals
  <2>2. n \in Nat /\ DOMAIN signals = 1 .. n
    BY <2>1
  <2>3. QED
    BY <2>1, <2>2 DEF ToSet
<1>2. CASE ~newer /\ signals' = Append(signals, "shutdown") /\ machine' = "halting"
  <2>1. /\ signals' \in Seq(Signals) /\ DOMAIN signals' = 1 .. n + 1
        /\ signals'[n + 1] = "shutdown" /\ \A i \in 1 .. n : signals'[i] = signals[i]
    BY <1>1, <1>2 DEF Signals
  <2>2. ToSet(signals') = ToSet(signals) \cup {} \cup {"shutdown"}
    BY <1>1, <1>2, AppendFacts DEF Signals
  <2>3. n + 1 \in DOMAIN signals' /\ \A i \in DOMAIN signals' :
          /\ i \in Nat /\ i <= n + 1 /\ (i = n + 1 => signals'[i] = "shutdown")
          /\ i # n + 1 => i \in DOMAIN signals /\ signals'[i] = signals[i]
    BY <1>1, <2>1
  <2>4. DOMAIN signals \subseteq DOMAIN signals'
    BY <1>1, <2>1
  <2>5. QED
    BY <1>2, <2>1, <2>2, <2>3, <2>4
<1>3. ASSUME NEW x \in {"poweroff", "reboot"}, signals' = signals \o <<x, "shutdown">>,
             machine' = IF x = "reboot" THEN "rebooting" ELSE "halting"
      PROVE  /\ signals' \in Seq(Signals)
             /\ ToSet(signals') = ToSet(signals) \cup {x} \cup {"shutdown"}
             /\ DOMAIN signals \subseteq DOMAIN signals'
             /\ n + 2 \in DOMAIN signals' /\ \A i \in DOMAIN signals' :
                  /\ i \in Nat /\ i <= n + 2 /\ (i = n + 2 => signals'[i] = "shutdown")
                  /\ i # n + 2 => \/ i \in DOMAIN signals /\ signals'[i] = signals[i]
                                  \/ signals'[i] = x /\ i + 1 = n + 2
  <2>1. /\ signals' \in Seq(Signals) /\ DOMAIN signals' = 1 .. n + 2
        /\ signals'[n + 1] = x /\ signals'[n + 2] = "shutdown"
        /\ \A i \in 1 .. n : signals'[i] = signals[i]
    BY <1>1, <1>3 DEF Signals
  <2>2. \A i \in 1 .. n + 2 : i \in 1 .. n \/ i = n + 1 \/ i = n + 2
    BY <1>1
  <2>3. n + 1 \in 1 .. n + 2 /\ n + 2 \in 1 .. n + 2 /\ 1 .. n \subseteq 1 .. n + 2
    BY <1>1
  <2>4. ToSet(signals') = ToSet(signals) \cup {x} \cup {"shutdown"}
    BY <1>1, <2>1, <2>2, <2>3 DEF ToSet
  <2>5. QED
    BY <1>1, <2>1, <2>2, <2>3, <2>4
<1>4. CASE newer /\ signals' = signals \o <<"poweroff", "shutdown">> /\ machine' = "halting"
  <2> DEFINE form == {"poweroff"}
  <2>1. /\ signals' \in Seq(Signals) /\ n + 2 \in DOMAIN signals'
        /\ DOMAIN signals \subseteq DOMAIN signals'
        /\ ToSet(signals') = ToSet(signals) \cup form \cup {"shutdown"}
    BY <1>3, <1>4
  <2>2. \A i \in DOMAIN signals' :
          /\ i \in Nat /\ i <= n + 2 /\ (i = n + 2 => signals'[i] = "shutdown")
          /\ i # n + 2 => \/ i \in DOMAIN signals /\ signals'[i] = signals[i]
                          \/ signals'[i] \in form /\ i + 1 = n + 2
    BY <1>3, <1>4
  <2>3. machine' = (IF form = {"reboot"} THEN "rebooting" ELSE "halting") /\ newer /\ form # {}
    BY <1>4
  <2>4. form \in {{}, {"poweroff"}, {"reboot"}}
    OBVIOUS
  <2> HIDE DEF form, n
  <2>5. QED
    BY <2>1, <2>2, <2>3, <2>4
<1>5. CASE newer /\ signals' = signals \o <<"reboot", "shutdown">> /\ machine' = "rebooting"
  <2> DEFINE form == {"reboot"}
  <2>1. /\ signals' \in Seq(Signals) /\ n + 2 \in DOMAIN signals'
        /\ DOMAIN signals \subseteq DOMAIN signals'
        /\ ToSet(signals') = ToSet(signals) \cup form \cup {"shutdown"}
    BY <1>3, <1>5
  <2>2. \A i \in DOMAIN signals' :
          /\ i \in Nat /\ i <= n + 2 /\ (i = n + 2 => signals'[i] = "shutdown")
          /\ i # n + 2 => \/ i \in DOMAIN signals /\ signals'[i] = signals[i]
                          \/ signals'[i] \in form /\ i + 1 = n + 2
    BY <1>3, <1>5
  <2>3. machine' = (IF form = {"reboot"} THEN "rebooting" ELSE "halting") /\ newer /\ form # {}
    BY <1>5
  <2>4. form \in {{}, {"poweroff"}, {"reboot"}}
    OBVIOUS
  <2> HIDE DEF form, n
  <2>5. QED
    BY <2>1, <2>2, <2>3, <2>4
<1>6. QED
  BY <1>2, <1>4, <1>5 DEF PreparesHalt

LEMMA PreparesHaltKeeps ==
  ASSUME IInv, PreparesHalt
  PROVE  IInv'
<1>1. /\ machine = "awake" /\ excuse' = excuse \cup (IF live = {} THEN {"unarmed"} ELSE {})
      /\ UNCHANGED <<tvVars, events>> /\ UNCHANGED <<newer, slept, net, handler, live, sawMetadata>>
  BY DEF PreparesHalt, events
<1>2. PICK form \in {{}, {"poweroff"}, {"reboot"}} :
        /\ signals' \in Seq(Signals)
        /\ ToSet(signals') = ToSet(signals) \cup form \cup {"shutdown"}
        /\ machine' = IF form = {"reboot"} THEN "rebooting" ELSE "halting"
        /\ newer <=> form # {}
        /\ DOMAIN signals \subseteq DOMAIN signals'
        /\ \E last \in DOMAIN signals' :
             \A i \in DOMAIN signals' :
               /\ i \in Nat /\ i <= last
               /\ i # last => \/ i \in DOMAIN signals /\ signals'[i] = signals[i]
                              \/ signals'[i] \in form /\ i + 1 = last
               /\ i = last => signals'[i] = "shutdown"
  BY HaltSignals
<1>3. PICK last \in DOMAIN signals' :
        \A i \in DOMAIN signals' :
          /\ i \in Nat /\ i <= last
          /\ i # last => \/ i \in DOMAIN signals /\ signals'[i] = signals[i]
                         \/ signals'[i] \in form /\ i + 1 = last
          /\ i = last => signals'[i] = "shutdown"
  BY <1>2
<1>4. newer' = newer
  BY <1>1
<1>5. NoStrayInhibitor' /\ Spawning' /\ Operations' /\ WokenUp'
  BY <1>1, MachineMoves
<1>6. TypeOK'
  <2>1. /\ excuse' \subseteq Excuses
        /\ machine' \in {"awake", "preparing", "asleep", "halting", "rebooting", "halted", "stopped"}
    BY <1>1, <1>2 DEF IInv, TypeOK, Excuses
  <2>2. QED
    BY <1>1, <1>2, <2>1, MachineTypes DEF IInv, TypeOK, Signals
<1>7. SomeoneLetsGo'
  BY <1>1, <1>2, <1>4 DEF SomeoneLetsGo, Releasing, Unfinished
<1>8. Halts'
  <2>1. newer => form \subseteq {"poweroff", "reboot"} /\ form # {}
    BY <1>2
  <2>2. ASSUME newer, NEW j \in DOMAIN signals', signals'[j] = "shutdown", ~sawMetadata
        PROVE  \E i \in DOMAIN signals' : i < j /\ signals'[i] \in {"poweroff", "reboot"}
    <3>1. CASE j = last
      <4>1. PICK y \in form : y \in ToSet(signals')
        BY <1>2, <2>1, <2>2
      <4>2. PICK i \in DOMAIN signals' : signals'[i] = y
        BY <4>1 DEF ToSet
      <4>3. i # last /\ i \in Nat /\ last \in Nat /\ i <= last
        BY <1>3, <2>1, <2>2, <4>1, <4>2
      <4>4. i < last
        BY <4>3
      <4>5. QED
        BY <2>1, <2>2, <3>1, <4>1, <4>2, <4>4
    <3>2. CASE j # last
      <4>1. j \in DOMAIN signals /\ signals[j] = "shutdown"
        BY <1>3, <2>1, <2>2, <3>2
      <4>2. PICK i \in DOMAIN signals : i < j /\ signals[i] \in {"poweroff", "reboot"}
        BY <2>2, <4>1 DEF IInv, Halts, Forms
      <4>3. i \in DOMAIN signals' /\ i \in Nat /\ j \in Nat /\ j <= last
        BY <1>2, <1>3, <4>1, <4>2
      <4>4. signals'[i] = signals[i] \/ signals'[i] \in form
        BY <1>3, <3>2, <4>2, <4>3
      <4>5. QED
        BY <2>1, <2>2, <4>2, <4>3, <4>4
    <3>3. QED
      BY <3>1, <3>2
  <2>3. ~newer => ~sawMetadata /\ ~Has("poweroff")' /\ ~Has("reboot")'
    BY <1>2 DEF IInv, Halts, Forms, Has
  <2>4. Forms'
    BY <1>1, <1>2, <2>2, <2>3 DEF Forms
  <2>5. Told'
    <3>1. "outlived" \in excuse' <=> "outlived" \in excuse
      BY <1>1
    <3>2. CASE "outlived" \in excuse
      BY <1>1, <3>2 DEF IInv, Halts, Told
    <3>3. CASE "outlived" \notin excuse
      <4>1. /\ ~Has("poweroff") /\ ~Has("reboot") /\ (Has("shutdown") => newer)
            /\ \A h \in Handlers : handler[h] # "noop"
        BY <1>1, <3>3, UpIsQuiet
      <4>2. QED
        BY <1>1, <1>2, <3>1, <3>3, <4>1 DEF Told, Has
    <3>4. QED
      BY <3>2, <3>3
  <2>6. QED
    BY <2>4, <2>5 DEF Halts
<1>9. OneCommand'
  <2>1. SUFFICES ASSUME excuse' \cap {"late", "unarmed"} = {}
                 PROVE  /\ \A i, j \in DOMAIN signals' : Owes(i)' /\ Owes(j)' => i = j
                        /\ \A h \in Handlers : handler'[h] \notin Commanding
                        /\ live' # {} /\ (machine' = "rebooting" => ~Unfinished')
    BY DEF OneCommand
  <2>2. ~Unfinished /\ live # {} /\ "outlived" \notin excuse
    BY <1>1, <2>1 DEF IInv, AwakeDone, Halts, Told
  <2>3. \A i \in DOMAIN signals' :
          Owes(i)' => IF form = {} THEN i = last ELSE form = {"poweroff"} /\ i + 1 = last
    BY <1>1, <1>2, <1>3, <2>2, UnfinishedIsOwed DEF Owes
  <2>4. \A h \in Handlers : handler'[h] \notin Commanding
    BY <1>1, <2>2, UnfinishedIsOwed
  <2>5. machine' = "rebooting" => ~Unfinished'
    BY <1>1, <1>2, <2>2 DEF Unfinished
  <2>6. \A i, j \in DOMAIN signals' : Owes(i)' /\ Owes(j)' => i = j
    BY <1>3, <2>3
  <2>7. QED
    BY <1>1, <2>2, <2>4, <2>5, <2>6
<1>10. AwakeDone' /\ Guarded' /\ PictureComes'
  BY <1>2 DEF AwakeDone, Guarded, PictureComes
<1>11. QED
  BY <1>5, <1>6, <1>7, <1>8, <1>9, <1>10 DEF IInv
-----------------------------------------------------------------------------
(* The handlers' steps                                                     *)

HandlerStates == {"none", "suspend", "shutdown", "noop", "poweringOff",
                  "resume", "spawning", "waiting", "poweringOn"}

\* The handler of one signal runs, the others go on.
LEMMA OneHandler ==
  ASSUME TypeOK, NEW h \in Handlers, NEW state \in HandlerStates,
         handler' = [handler EXCEPT ![h] = state]
  PROVE  /\ handler' \in [Handlers -> HandlerStates] /\ handler'[h] = state
         /\ \A g \in Handlers \ {h} : handler'[g] = handler[g]
         /\ \A g \in Handlers : Calling(g) <=> handler[g] \in {"poweringOff", "poweringOn"}
BY DEF TypeOK, HandlerStates

\* What the first signal was owed its handler has taken over; of the rest nothing
\* has changed.
LEMMA SignalShift ==
  ASSUME IInv, NEW h \in Handlers, SignalArrives(h)
  PROVE  /\ handler'[h] = Starts(Head(signals)) /\ handler' \in [Handlers -> HandlerStates]
         /\ handler[h] = "none" /\ handler'[h] \notin {"poweringOff", "spawning", "poweringOn", "waiting"}
         /\ \A g \in Handlers \ {h} : handler'[g] = handler[g]
         /\ signals' \in Seq(Signals) /\ Head(signals) \in Signals
         /\ ToSet(signals) = ToSet(signals') \cup {Head(signals)}
         /\ 1 \in DOMAIN signals /\ signals[1] = Head(signals)
         /\ \A i \in DOMAIN signals' :
              i \in Nat \ {0} /\ i + 1 \in DOMAIN signals /\ signals'[i] = signals[i + 1]
         /\ sawMetadata' = (sawMetadata \/ Head(signals) \in {"poweroff", "reboot"})
         /\ \A i \in DOMAIN signals' : Owes(i)' <=> Owes(i + 1)
         /\ handler'[h] \in Commanding <=> Owes(1)
         /\ Unfinished' <=> Unfinished
<1> DEFINE x == Head(signals)
<1>1. /\ handler' = [handler EXCEPT ![h] = Starts(x)] /\ handler[h] = "none"
      /\ signals' = Tail(signals) /\ signals # <<>>
      /\ sawMetadata' = (sawMetadata \/ x \in {"poweroff", "reboot"})
  BY DEF SignalArrives
<1>2. signals \in Seq(Signals) /\ sawMetadata \in BOOLEAN /\ TypeOK
  BY DEF IInv, TypeOK, Signals
<1>3. /\ signals' \in Seq(Signals) /\ x \in Signals
      /\ ToSet(signals) = ToSet(signals') \cup {x} /\ 1 \in DOMAIN signals /\ signals[1] = x
      /\ \A i \in DOMAIN signals' :
           i \in Nat \ {0} /\ i + 1 \in DOMAIN signals /\ signals'[i] = signals[i + 1]
  BY <1>1, <1>2, ConsumeFacts
<1> HIDE DEF x
<1>4. /\ Starts(x) \in HandlerStates
      /\ Starts(x) \notin {"poweringOff", "spawning", "poweringOn", "waiting"}
      /\ Starts(x) \in Commanding <=> x \in {"sleep", "poweroff"} \/ (x = "shutdown" /\ ~sawMetadata)
      /\ newer' = newer
  BY <1>3 DEF Starts, Signals, HandlerStates, Commanding, SignalArrives
<1>5. /\ handler' \in [Handlers -> HandlerStates] /\ handler'[h] = Starts(x)
      /\ \A g \in Handlers \ {h} : handler'[g] = handler[g]
  BY <1>1, <1>2, <1>4, OneHandler
<1>6. \A y : /\ y \in ToSet(signals) <=> y \in ToSet(signals') \/ x = y
             /\ y \in ToSet(signals') => \E j \in DOMAIN signals' : signals'[j] = y
  BY <1>3 DEF ToSet
<1>7. \A i \in DOMAIN signals' : Owes(i)' <=> Owes(i + 1)
  BY <1>3, <1>4 DEF Owes
<1>8. x = "shutdown" => (sawMetadata <=> newer)
  <2>1. SUFFICES ASSUME x = "shutdown", newer, ~sawMetadata PROVE FALSE
    BY DEF IInv, Halts, Forms
  <2>2. PICK i \in DOMAIN signals : i < 1
    BY <1>3, <2>1 DEF IInv, Halts, Forms
  <2>3. DOMAIN signals = 1 .. Len(signals)
    BY <1>2
  <2>4. QED
    BY <2>2, <2>3
<1>9. handler'[h] \in Commanding <=> Owes(1)
  BY <1>3, <1>4, <1>5, <1>8 DEF Owes
<1>10. (\E i \in DOMAIN signals : Owes(i)) <=> Owes(1) \/ \E i \in DOMAIN signals' : Owes(i)'
  <2>1. \A i \in DOMAIN signals : i = 1 \/ \E j \in DOMAIN signals' : i = j + 1
    <3>1. /\ DOMAIN signals = 1 .. Len(signals) /\ Len(signals) \in Nat
          /\ DOMAIN signals' = 1 .. Len(signals) - 1
      BY <1>1, <1>2
    <3>2. \A i \in DOMAIN signals : i = 1 \/ (i - 1 \in DOMAIN signals' /\ i = (i - 1) + 1)
      BY <3>1
    <3>3. QED
      BY <3>2
  <2>2. QED
    BY <1>3, <1>7, <2>1
<1>11. (\E g \in Handlers : handler'[g] \in Commanding)
         <=> Owes(1) \/ \E g \in Handlers : handler[g] \in Commanding
  BY <1>1, <1>5, <1>9 DEF Commanding
<1>12. Unfinished' <=> \/ \E i \in DOMAIN signals' : Owes(i)'
                      \/ \E g \in Handlers : handler'[g] \in Commanding
  BY DEF Unfinished, Owes, Has, Commanding, ToSet
<1>13. Unfinished' <=> Unfinished
  BY <1>10, <1>11, <1>12, UnfinishedIsOwed
<1>14. QED
  BY <1>1, <1>3, <1>4, <1>5, <1>7, <1>9, <1>13 DEF x

LEMMA SignalArrivesKeeps ==
  ASSUME IInv, NEW h \in Handlers, SignalArrives(h)
  PROVE  IInv'
<1> DEFINE x == Head(signals)
<1>1. /\ UNCHANGED <<machine, newer, slept, net, inhibitor, live, excuse>>
      /\ UNCHANGED <<panel, slot, call>> /\ UNCHANGED tvVars
  BY DEF SignalArrives, tvVars
<1>2. /\ handler'[h] = Starts(x) /\ handler' \in [Handlers -> HandlerStates]
      /\ handler[h] = "none" /\ handler'[h] \notin {"poweringOff", "spawning", "poweringOn", "waiting"}
      /\ \A g \in Handlers \ {h} : handler'[g] = handler[g]
      /\ signals' \in Seq(Signals) /\ x \in Signals
      /\ ToSet(signals) = ToSet(signals') \cup {x}
      /\ 1 \in DOMAIN signals /\ signals[1] = x
      /\ sawMetadata' = (sawMetadata \/ x \in {"poweroff", "reboot"})
      /\ handler'[h] \in Commanding <=> Owes(1)
      /\ Unfinished' <=> Unfinished
  BY SignalShift
<1>3. \A i \in DOMAIN signals' :
        /\ i \in Nat \ {0} /\ i + 1 \in DOMAIN signals /\ signals'[i] = signals[i + 1]
        /\ Owes(i)' <=> Owes(i + 1)
  BY SignalShift
<1> HIDE DEF x
<1>4. TypeOK'
  <2>1. sawMetadata' \in BOOLEAN
    BY <1>2 DEF IInv, TypeOK
  <2>2. \A g \in Handlers : Calling(g)' <=> handler'[g] \in {"poweringOff", "poweringOn"}
    BY <1>1, <1>2 DEF IInv, TypeOK, Calling
  <2>3. TvTypeOK'
    BY <1>1 DEF IInv, TypeOK, TvTypeOK
  <2>4. QED
    BY <1>1, <1>2, <2>1, <2>2, <2>3 DEF IInv, TypeOK, Signals, HandlerStates
<1>5. NoStrayInhibitor'
  BY <1>1 DEF IInv, NoStrayInhibitor
<1>6. SomeoneLetsGo'
  BY <1>1, <1>2 DEF IInv, SomeoneLetsGo, Releasing, Starts
<1>7. Halts'
  <2>1. \A y \in {"shutdown", "poweroff", "reboot"} : (Has(y)' => Has(y)) /\ (y = x => Has(y))
    BY <1>2 DEF Has
  <2>2. Told'
    BY <1>1, <1>2, <2>1 DEF IInv, Halts, Told, Starts, Signals
  <2>3. ASSUME newer, NEW j \in DOMAIN signals', signals'[j] = "shutdown", ~sawMetadata'
        PROVE  \E i \in DOMAIN signals' : i < j /\ signals'[i] \in {"poweroff", "reboot"}
    <3>1. j + 1 \in DOMAIN signals /\ signals[j + 1] = "shutdown" /\ j \in Nat /\ ~sawMetadata
      BY <1>2, <1>3, <2>3
    <3>2. PICK k \in DOMAIN signals : k < j + 1 /\ signals[k] \in {"poweroff", "reboot"}
      BY <2>3, <3>1 DEF IInv, Halts, Forms
    <3>3. k # 1
      BY <1>2, <2>3, <3>2
    <3>4. /\ DOMAIN signals = 1 .. Len(signals) /\ Len(signals) \in Nat
          /\ DOMAIN signals' = 1 .. Len(signals) - 1
      BY DEF SignalArrives, IInv, TypeOK
    <3>5. k - 1 \in DOMAIN signals' /\ k - 1 < j /\ (k - 1) + 1 = k
      BY <3>1, <3>2, <3>3, <3>4
    <3>6. signals'[k - 1] = signals[k]
      BY <1>3, <3>5
    <3>7. QED
      BY <3>2, <3>5, <3>6
  <2>4. ~newer => ~sawMetadata' /\ ~Has("poweroff")' /\ ~Has("reboot")'
    BY <1>2, <2>1 DEF IInv, Halts, Forms
  <2>5. Forms'
    BY <1>1, <2>3, <2>4 DEF IInv, Halts, Forms
  <2>6. QED
    BY <2>2, <2>5 DEF Halts
<1>8. Spawning'
  BY <1>1, <1>2 DEF IInv, Spawning
<1>9. AwakeDone'
  BY <1>1, <1>2 DEF IInv, AwakeDone
<1>10. OneCommand'
  <2>1. SUFFICES ASSUME machine' \in {"preparing", "halting", "rebooting"},
                        excuse' \cap {"late", "unarmed"} = {}
                 PROVE  OneCommand'
    BY DEF OneCommand
  <2>2. /\ \A i, j \in DOMAIN signals : Owes(i) /\ Owes(j) => i = j
        /\ \A g, e \in Handlers : handler[g] \in Commanding /\ handler[e] \in Commanding => g = e
        /\ \A g \in Handlers, i \in DOMAIN signals : handler[g] \in Commanding => ~Owes(i)
        /\ live = {} \/ machine = "rebooting" => ~Unfinished
    BY <1>1, <2>1 DEF IInv, OneCommand
  <2>3. ASSUME NEW i \in DOMAIN signals', NEW j \in DOMAIN signals', Owes(i)', Owes(j)'
        PROVE  i = j
    BY <1>3, <2>2, <2>3
  <2>4. ASSUME NEW g \in Handlers, NEW i \in DOMAIN signals', handler'[g] \in Commanding, Owes(i)'
        PROVE  FALSE
    <3>1. /\ i + 1 \in DOMAIN signals /\ Owes(i + 1) /\ i + 1 # 1
      BY <1>3, <2>4
    <3>2. QED
      BY <1>2, <2>2, <2>4, <3>1
  <2>5. \A g, e \in Handlers : handler'[g] \in Commanding /\ handler'[e] \in Commanding => g = e
    BY <1>2, <2>2
  <2>6. live' = {} \/ machine' = "rebooting" => ~Unfinished'
    BY <1>1, <1>2, <2>2
  <2>7. QED
    BY <2>3, <2>4, <2>5, <2>6 DEF OneCommand
<1>11. Guarded'
  BY <1>1, <1>2 DEF IInv, Guarded, Has, Starts
<1>12. Operations'
  <2>1. \A g \in Handlers, k \in Slots : Joined(g, Tv, k)' <=> Joined(g, Tv, k)
    BY <1>1 DEF Joined, Waiting, Calling
  <2>2. QED
    BY <1>1, <1>2, <2>1 DEF IInv, Operations
<1>13. WokenUp'
  BY <1>1 DEF IInv, WokenUp, Lit
<1>14. PictureComes'
  <2>1. \A g \in Handlers : WillPowerOn(g) => WillPowerOn(g)'
    BY <1>1, <1>2 DEF WillPowerOn, Joined, Waiting, Calling
  <2>2. Has("resume") => Has("resume")' \/ WillPowerOn(h)'
    BY <1>2 DEF Has, Starts, WillPowerOn
  <2>3. QED
    BY <1>1, <2>1, <2>2 DEF IInv, PictureComes, Lit
<1>15. QED
  BY <1>4, <1>5, <1>6, <1>7, <1>8, <1>9, <1>10, <1>11, <1>12, <1>13, <1>14 DEF IInv
\* A handler moves within its command, or outside of any.
LEMMA SameCommands ==
  ASSUME IInv, UNCHANGED <<system, live, sawMetadata>>, excuse \subseteq excuse',
         "outlived" \in excuse' => "outlived" \in excuse,
         \A h \in Handlers : /\ handler'[h] \in Commanding <=> handler[h] \in Commanding
                             /\ handler'[h] = "noop" <=> handler[h] = "noop"
  PROVE  SomeoneLetsGo' /\ Halts' /\ AwakeDone' /\ OneCommand'
<1>1. UNCHANGED <<machine, newer, signals, live, sawMetadata>>
  BY DEF system
<1>2. Unfinished' <=> Unfinished
  BY <1>1 DEF Unfinished, Commanding
<1>3. SomeoneLetsGo'
  BY <1>1, <1>2 DEF IInv, SomeoneLetsGo, Releasing
<1>4. Halts'
  BY <1>1 DEF IInv, Halts, Forms, Told, Has
<1>5. AwakeDone'
  BY <1>1, <1>2 DEF IInv, AwakeDone
<1>6. \A i \in DOMAIN signals : Owes(i)' <=> Owes(i)
  BY <1>1 DEF Owes, Has
<1>7. OneCommand'
  BY <1>1, <1>2, <1>6 DEF IInv, OneCommand
<1>8. QED
  BY <1>3, <1>4, <1>5, <1>7

\* h calls the session, where another's operation may run in the same slot.
LEMMA CallKeepsOperations ==
  ASSUME IInv, NEW h \in Handlers, NEW op \in {"power_on", "power_off"}, Calls(h, Tv, op),
         handler[h] \notin {"poweringOff", "poweringOn"},
         handler' = [handler EXCEPT ![h] = IF op = "power_on" THEN "poweringOn" ELSE "poweringOff"]
  PROVE  /\ Operations' /\ TvTypeOK' /\ handler' \in [Handlers -> HandlerStates]
         /\ \A g \in Handlers : Calling(g)' <=> handler'[g] \in {"poweringOff", "poweringOn"}
         /\ \A g \in Handlers \ {h} : handler'[g] = handler[g]
         /\ \A g \in Handlers, k \in Slots : Joined(g, Tv, k) => Joined(g, Tv, k)'
         /\ Joined(h, Tv, SlotOf(op))' /\ handler'[h] \in {"poweringOff", "poweringOn"}
         /\ panel' = panel /\ \A k \in Slots : slot'[Tv][k].res = slot[Tv][k].res
<1> DEFINE k == SlotOf(op)
           state == IF op = "power_on" THEN "poweringOn" ELSE "poweringOff"
<1>1. TypeOK /\ TvTypeOK /\ state \in HandlerStates
  BY DEF IInv, TypeOK, HandlerStates
<1>2. /\ handler' \in [Handlers -> HandlerStates] /\ handler'[h] = state
      /\ \A g \in Handlers \ {h} : handler'[g] = handler[g]
      /\ \A g \in Handlers : Calling(g) <=> handler[g] \in {"poweringOff", "poweringOn"}
  BY <1>1, OneHandler
<1>3. /\ TvTypeOK' /\ Joined(h, Tv, k)' /\ Calling(h)' /\ call'[h].to = {Tv} /\ call'[h].key = k
      /\ \A g \in Handlers \ {h} : call'[g] = call[g]
      /\ panel' = panel /\ \A j \in Slots \ {k} : slot'[Tv][j] = slot[Tv][j]
      /\ slot'[Tv][k].res = slot[Tv][k].res /\ slot'[Tv][k].op \in {op, slot[Tv][k].op}
  BY <1>1, CallsFacts
<1>4. k = IF op = "power_on" THEN "on" ELSE "off"
  BY DEF SlotOf
<1> HIDE DEF k, state
<1>5. \A g \in Handlers, j \in Slots : Joined(g, Tv, j) => g # h /\ Joined(g, Tv, j)'
  BY <1>2, <1>3 DEF Joined, Waiting, Calling
<1>6. \A g \in Handlers : Calling(g)' <=> handler'[g] \in {"poweringOff", "poweringOn"}
  BY <1>2, <1>3 DEF Calling, state
<1>7. Operations'
  <2>1. \A g \in Handlers : /\ handler'[g] = "poweringOff" => call'[g].to = {Tv} /\ call'[g].key = "off"
                            /\ handler'[g] = "poweringOn" => call'[g].to = {Tv} /\ call'[g].key = "on"
    BY <1>2, <1>3, <1>4 DEF IInv, Operations, state
  <2>2. \A j \in Slots : slot'[Tv][j] # Free => \E g \in Handlers : Joined(g, Tv, j)'
    BY <1>3, <1>5 DEF IInv, Operations
  <2>3. slot'[Tv]["on"].op \in {"none", "power_on"} /\ slot'[Tv]["off"].op \in {"none", "power_off"}
    BY <1>3, <1>4 DEF IInv, Operations, Slots
  <2>4. QED
    BY <2>1, <2>2, <2>3 DEF Operations
<1>8. QED
  BY <1>2, <1>3, <1>5, <1>6, <1>7 DEF k, state

LEMMA PowersOffKeeps ==
  ASSUME IInv, NEW h \in Handlers, PowersOff(h)
  PROVE  IInv'
<1>1. /\ handler[h] \in {"suspend", "shutdown"} /\ handler' = [handler EXCEPT ![h] = "poweringOff"]
      /\ Calls(h, Tv, "power_off")
      /\ UNCHANGED system /\ UNCHANGED <<machine, newer, slept, signals, net, inhibitor, live, sawMetadata, excuse>>
  BY DEF PowersOff, system
<1>2. /\ Operations' /\ TvTypeOK' /\ handler' \in [Handlers -> HandlerStates]
      /\ \A g \in Handlers : Calling(g)' <=> handler'[g] \in {"poweringOff", "poweringOn"}
      /\ \A g \in Handlers \ {h} : handler'[g] = handler[g]
      /\ \A g \in Handlers, k \in Slots : Joined(g, Tv, k) => Joined(g, Tv, k)'
      /\ panel' = panel /\ \A k \in Slots : slot'[Tv][k].res = slot[Tv][k].res
  BY <1>1, CallKeepsOperations
<1>3. handler'[h] = "poweringOff"
  BY <1>1 DEF IInv, TypeOK
<1>4. TypeOK'
  BY <1>1, <1>2 DEF IInv, TypeOK, HandlerStates
<1>5. SomeoneLetsGo' /\ Halts' /\ AwakeDone' /\ OneCommand'
  BY <1>1, <1>2, <1>3, SameCommands DEF Commanding
<1>6. NoStrayInhibitor' /\ Spawning'
  BY <1>1, <1>2, <1>3 DEF IInv, NoStrayInhibitor, Spawning
<1>7. Guarded'
  BY <1>1, <1>2 DEF IInv, Guarded, Has
<1>8. WokenUp'
  BY <1>1, <1>2 DEF IInv, WokenUp, Lit, Slots
<1>9. PictureComes'
  <2>1. \A g \in Handlers : WillPowerOn(g) => WillPowerOn(g)'
    BY <1>1, <1>2 DEF WillPowerOn, Slots
  <2>2. QED
    BY <1>1, <1>2, <2>1 DEF IInv, PictureComes, Has, Lit
<1>10. QED
  BY <1>2, <1>4, <1>5, <1>6, <1>7, <1>8, <1>9 DEF IInv

LEMMA PowersOnKeeps ==
  ASSUME IInv, NEW h \in Handlers, PowersOn(h)
  PROVE  IInv'
<1>1. /\ handler[h] = "waiting" /\ handler' = [handler EXCEPT ![h] = "poweringOn"]
      /\ Calls(h, Tv, "power_on")
      /\ UNCHANGED system /\ UNCHANGED <<machine, newer, slept, signals, net, inhibitor, live, sawMetadata, excuse>>
  BY DEF PowersOn, system
<1>2. /\ Operations' /\ TvTypeOK' /\ handler' \in [Handlers -> HandlerStates]
      /\ \A g \in Handlers : Calling(g)' <=> handler'[g] \in {"poweringOff", "poweringOn"}
      /\ \A g \in Handlers \ {h} : handler'[g] = handler[g]
      /\ \A g \in Handlers, k \in Slots : Joined(g, Tv, k) => Joined(g, Tv, k)'
      /\ Joined(h, Tv, SlotOf("power_on"))'
      /\ panel' = panel /\ \A k \in Slots : slot'[Tv][k].res = slot[Tv][k].res
  BY <1>1, CallKeepsOperations
<1>3. handler'[h] = "poweringOn"
  BY <1>1 DEF IInv, TypeOK
<1>4. TypeOK'
  BY <1>1, <1>2 DEF IInv, TypeOK, HandlerStates
<1>5. SomeoneLetsGo' /\ Halts' /\ AwakeDone' /\ OneCommand'
  BY <1>1, <1>2, <1>3, SameCommands DEF Commanding
<1>6. NoStrayInhibitor' /\ Spawning'
  BY <1>1, <1>2, <1>3 DEF IInv, NoStrayInhibitor, Spawning
<1>7. Guarded'
  BY <1>1, <1>2 DEF IInv, Guarded, Has
<1>8. WokenUp'
  BY <1>1, <1>2 DEF IInv, WokenUp, Lit, Slots
<1>9. PictureComes'
  <2>1. \A g \in Handlers \ {h} : WillPowerOn(g) => WillPowerOn(g)'
    BY <1>1, <1>2 DEF WillPowerOn, Slots
  <2>2. WillPowerOn(h)' \/ Lit \/ excuse \cap {"failure", "crossed"} # {}
    BY <1>2, <1>3 DEF IInv, WokenUp, WillPowerOn, Slots, SlotOf
  <2>3. QED
    BY <1>1, <1>2, <2>1, <2>2 DEF IInv, PictureComes, Has, Lit
<1>10. QED
  BY <1>2, <1>4, <1>5, <1>6, <1>7, <1>8, <1>9 DEF IInv

LEMMA TakesInhibitorKeeps ==
  ASSUME IInv, NEW h \in Handlers, TakesInhibitor(h)
  PROVE  IInv'
<1> DEFINE state == IF HoldsInhibitor THEN "waiting" ELSE "spawning"
<1>1. /\ handler[h] = "resume" /\ handler' = [handler EXCEPT ![h] = state]
      /\ excuse' = excuse \cup
           (IF \E g \in Handlers : handler[g] = "spawning" THEN {"twice"} ELSE {})
      /\ UNCHANGED system /\ UNCHANGED <<machine, newer, slept, signals, net, inhibitor, live, sawMetadata>>
      /\ UNCHANGED <<panel, slot, call>> /\ UNCHANGED tvVars
  BY DEF TakesInhibitor, system, tvVars
<1>2. state \in HandlerStates /\ TypeOK
  BY DEF HandlerStates, IInv
<1>3. /\ handler' \in [Handlers -> HandlerStates] /\ handler'[h] = state
      /\ \A g \in Handlers \ {h} : handler'[g] = handler[g]
  BY <1>1, <1>2, OneHandler
<1>4. \A g \in Handlers, k \in Slots : Joined(g, Tv, k)' <=> Joined(g, Tv, k)
  BY <1>1 DEF Joined, Waiting, Calling
<1>5. TypeOK'
  <2>1. \A g \in Handlers : Calling(g)' <=> handler'[g] \in {"poweringOff", "poweringOn"}
    BY <1>1, <1>3 DEF IInv, TypeOK, Calling
  <2>2. TvTypeOK' /\ excuse' \subseteq Excuses
    BY <1>1 DEF IInv, TypeOK, TvTypeOK, Excuses
  <2>3. QED
    BY <1>1, <1>3, <2>1, <2>2 DEF IInv, TypeOK, HandlerStates
<1>6. SomeoneLetsGo' /\ Halts' /\ AwakeDone' /\ OneCommand'
  BY <1>1, <1>3, SameCommands DEF Commanding
<1>7. NoStrayInhibitor'
  BY <1>1 DEF IInv, NoStrayInhibitor
<1>8. Spawning'
  BY <1>1, <1>3 DEF IInv, Spawning, NoStrayInhibitor, HoldsInhibitor
<1>9. Guarded'
  BY <1>1, <1>3 DEF IInv, Guarded, Has, HoldsInhibitor
<1>10. Operations'
  BY <1>1, <1>3, <1>4 DEF IInv, Operations
<1>11. WokenUp'
  BY <1>1 DEF IInv, WokenUp, Lit
<1>12. PictureComes'
  <2>1. \A g \in Handlers : WillPowerOn(g) => WillPowerOn(g)'
    BY <1>1, <1>3, <1>4 DEF WillPowerOn, Slots
  <2>2. QED
    BY <1>1, <2>1 DEF IInv, PictureComes, Has, Lit
<1>13. QED
  BY <1>5, <1>6, <1>7, <1>8, <1>9, <1>10, <1>11, <1>12 DEF IInv
LEMMA SpawnedKeeps ==
  ASSUME IInv, NEW h \in Handlers, Spawned(h)
  PROVE  IInv'
<1>1. /\ handler[h] = "spawning" /\ handler' = [handler EXCEPT ![h] = "waiting"]
      /\ UNCHANGED <<machine, newer, slept, signals, net, sawMetadata>>
      /\ UNCHANGED <<panel, slot, call>> /\ UNCHANGED tvVars
  BY DEF Spawned, system, tvVars
<1>2. \/ /\ machine = "awake" /\ excuse' = excuse
         /\ \E i \in Inhibitors : inhibitor' = i /\ live' = live \cup {i}
      \/ UNCHANGED <<inhibitor, live>> /\ excuse' = excuse \cup {"no inhibitor"}
  BY DEF Spawned
<1>3. /\ handler' \in [Handlers -> HandlerStates] /\ handler'[h] = "waiting"
      /\ \A g \in Handlers \ {h} : handler'[g] = handler[g]
  BY <1>1, OneHandler DEF HandlerStates, IInv
<1>4. \A g \in Handlers, k \in Slots : Joined(g, Tv, k)' <=> Joined(g, Tv, k)
  BY <1>1 DEF Joined, Waiting, Calling
<1>5. TypeOK'
  <2>1. \A g \in Handlers : Calling(g)' <=> handler'[g] \in {"poweringOff", "poweringOn"}
    BY <1>1, <1>3 DEF IInv, TypeOK, Calling
  <2>2. TvTypeOK' /\ excuse' \subseteq Excuses
    BY <1>1, <1>2 DEF IInv, TypeOK, TvTypeOK, Excuses
  <2>3. inhibitor' \in Inhibitors \cup {NoInhibitor} /\ live' \subseteq Inhibitors
    BY <1>2 DEF IInv, TypeOK
  <2>4. QED
    BY <1>1, <1>3, <2>1, <2>2, <2>3 DEF IInv, TypeOK, HandlerStates
<1>6. NoStrayInhibitor' /\ Spawning'
  <2>1. CASE "twice" \in excuse'
    BY <2>1 DEF NoStrayInhibitor, Spawning
  <2>2. CASE "twice" \notin excuse'
    <3>1. live = {} /\ \A g \in Handlers : handler[g] = "spawning" => g = h
      BY <1>1, <1>2, <2>2 DEF IInv, Spawning
    <3>2. live' \subseteq {inhibitor'} /\ \A g \in Handlers : handler'[g] # "spawning"
      BY <1>2, <1>3, <3>1
    <3>3. QED
      BY <3>2 DEF NoStrayInhibitor, Spawning
  <2>3. QED
    BY <2>1, <2>2
<1>7. SomeoneLetsGo' /\ Halts' /\ AwakeDone' /\ OneCommand'
  <2>1. CASE machine = "awake"
    <3>1. Unfinished' <=> Unfinished
      BY <1>1, <1>3 DEF Unfinished
    <3>2. Halts'
      BY <1>1, <1>2, <1>3 DEF IInv, Halts, Forms, Told, Has
    <3>3. QED
      BY <1>1, <1>2, <2>1, <3>1, <3>2 DEF IInv, SomeoneLetsGo, Releasing, AwakeDone, OneCommand
  <2>2. CASE machine # "awake"
    <3>1. UNCHANGED <<system, live, sawMetadata>> /\ excuse \subseteq excuse'
      BY <1>1, <1>2, <2>2 DEF system
    <3>2. QED
      BY <1>1, <1>2, <1>3, <3>1, SameCommands DEF Commanding
  <2>3. QED
    BY <2>1, <2>2
<1>8. Guarded'
  BY <1>1, <1>2 DEF Guarded
<1>9. Operations'
  BY <1>1, <1>3, <1>4 DEF IInv, Operations
<1>10. WokenUp'
  BY <1>1, <1>2 DEF IInv, WokenUp, Lit
<1>11. PictureComes'
  <2>1. \A g \in Handlers : WillPowerOn(g) => WillPowerOn(g)'
    BY <1>1, <1>3, <1>4 DEF WillPowerOn, Slots
  <2>2. QED
    BY <1>1, <1>2, <2>1 DEF IInv, PictureComes, Has, Lit
<1>12. QED
  BY <1>5, <1>6, <1>7, <1>8, <1>9, <1>10, <1>11 DEF IInv

\* h takes its answer and is done: nobody loses the operation that it awaits.
LEMMA ReturnKeepsOperations ==
  ASSUME IInv, NEW h \in Handlers, Answered(h), Returns(h),
         handler' = [handler EXCEPT ![h] = "none"]
  PROVE  /\ Operations' /\ TvTypeOK' /\ UNCHANGED <<panel, slot>>
         /\ \A g \in Handlers : Calling(g)' <=> handler'[g] \in {"poweringOff", "poweringOn"}
         /\ \A g \in Handlers, k \in Slots : Joined(g, Tv, k) => g # h /\ Joined(g, Tv, k)'
<1>1. TypeOK /\ TvTypeOK /\ "none" \in HandlerStates
  BY DEF IInv, TypeOK, HandlerStates
<1>2. /\ handler'[h] = "none" /\ \A g \in Handlers \ {h} : handler'[g] = handler[g]
      /\ \A g \in Handlers : Calling(g) <=> handler[g] \in {"poweringOff", "poweringOn"}
  BY <1>1, OneHandler
<1>3. /\ TvTypeOK' /\ ~Calling(h)' /\ UNCHANGED <<panel, slot>>
      /\ \A g \in Handlers \ {h} : call'[g] = call[g]
  BY <1>1, ReturnsFacts
<1>4. \A g \in Handlers, k \in Slots : Joined(g, Tv, k) => g # h /\ Joined(g, Tv, k)'
  BY <1>3 DEF Joined, Waiting, Calling, Answered
<1>5. \A g \in Handlers : Calling(g)' <=> handler'[g] \in {"poweringOff", "poweringOn"}
  BY <1>2, <1>3 DEF Calling
<1>6. Operations'
  <2>1. \A g \in Handlers : /\ handler'[g] = "poweringOff" => call'[g].to = {Tv} /\ call'[g].key = "off"
                            /\ handler'[g] = "poweringOn" => call'[g].to = {Tv} /\ call'[g].key = "on"
    BY <1>2, <1>3 DEF IInv, Operations
  <2>2. \A k \in Slots : slot'[Tv][k] # Free => \E g \in Handlers : Joined(g, Tv, k)'
    BY <1>3, <1>4 DEF IInv, Operations
  <2>3. slot'[Tv]["on"].op \in {"none", "power_on"} /\ slot'[Tv]["off"].op \in {"none", "power_off"}
    BY <1>3 DEF IInv, Operations
  <2>4. QED
    BY <2>1, <2>2, <2>3 DEF Operations
<1>7. QED
  BY <1>3, <1>4, <1>5, <1>6

LEMMA ResumeReturnsKeeps ==
  ASSUME IInv, NEW h \in Handlers, ResumeReturns(h)
  PROVE  IInv'
<1>1. /\ handler[h] = "poweringOn" /\ handler' = [handler EXCEPT ![h] = "none"]
      /\ Answered(h) /\ Returns(h)
      /\ UNCHANGED system /\ UNCHANGED <<machine, newer, slept, signals, net, inhibitor, live, sawMetadata, excuse>>
  BY DEF ResumeReturns, system
<1>2. /\ Operations' /\ TvTypeOK' /\ UNCHANGED <<panel, slot>>
      /\ \A g \in Handlers : Calling(g)' <=> handler'[g] \in {"poweringOff", "poweringOn"}
      /\ \A g \in Handlers, k \in Slots : Joined(g, Tv, k) => g # h /\ Joined(g, Tv, k)'
  BY <1>1, ReturnKeepsOperations
<1>3. /\ handler' \in [Handlers -> HandlerStates] /\ handler'[h] = "none"
      /\ \A g \in Handlers \ {h} : handler'[g] = handler[g]
  BY <1>1, OneHandler DEF HandlerStates, IInv
<1>4. TypeOK'
  BY <1>1, <1>2, <1>3 DEF IInv, TypeOK, HandlerStates
<1>5. SomeoneLetsGo' /\ Halts' /\ AwakeDone' /\ OneCommand'
  BY <1>1, <1>3, SameCommands DEF Commanding
<1>6. NoStrayInhibitor' /\ Spawning'
  BY <1>1, <1>3 DEF IInv, NoStrayInhibitor, Spawning
<1>7. Guarded'
  BY <1>1, <1>3 DEF IInv, Guarded, Has
<1>8. WokenUp'
  BY <1>1, <1>2 DEF IInv, WokenUp, Lit
<1>9. PictureComes'
  <2>1. \A g \in Handlers : WillPowerOn(g) => WillPowerOn(g)'
    BY <1>1, <1>2, <1>3 DEF WillPowerOn, Slots
  <2>2. QED
    BY <1>1, <1>2, <2>1 DEF IInv, PictureComes, Has, Lit
<1>10. QED
  BY <1>2, <1>4, <1>5, <1>6, <1>7, <1>8, <1>9 DEF IInv

LEMMA ReleasesInhibitorKeeps ==
  ASSUME IInv, NEW h \in Handlers, ReleasesInhibitor(h)
  PROVE  IInv'
<1>1. /\ handler[h] \in {"poweringOff", "noop"} /\ handler' = [handler EXCEPT ![h] = "none"]
      /\ inhibitor' = NoInhibitor /\ live' = live \ {inhibitor}
      /\ UNCHANGED <<machine, newer, slept, signals, net, sawMetadata, excuse>>
  BY DEF ReleasesInhibitor, Releases, system
<1>2. /\ handler' \in [Handlers -> HandlerStates] /\ handler'[h] = "none"
      /\ \A g \in Handlers \ {h} : handler'[g] = handler[g]
      /\ \A g \in Handlers : Calling(g) <=> handler[g] \in {"poweringOff", "poweringOn"}
  BY <1>1, OneHandler DEF HandlerStates, IInv
<1>3. /\ Operations' /\ TvTypeOK' /\ UNCHANGED <<panel, slot>>
      /\ \A g \in Handlers : Calling(g)' <=> handler'[g] \in {"poweringOff", "poweringOn"}
  <2>1. CASE Answered(h) /\ Returns(h)
    BY <1>1, <2>1, ReturnKeepsOperations
  <2>2. CASE handler[h] = "noop" /\ UNCHANGED tvVars
    <3>1. UNCHANGED <<panel, slot, call>>
      BY <2>2 DEF tvVars
    <3>2. \A g \in Handlers, k \in Slots : Joined(g, Tv, k)' <=> Joined(g, Tv, k)
      BY <3>1 DEF Joined, Waiting, Calling
    <3>3. Operations' /\ TvTypeOK'
      BY <1>2, <3>1, <3>2 DEF IInv, TypeOK, Operations, TvTypeOK
    <3>4. QED
      BY <1>2, <2>2, <3>1, <3>3 DEF Calling
  <2>3. QED
    BY <2>1, <2>2 DEF ReleasesInhibitor
<1>4. TypeOK'
  BY <1>1, <1>2, <1>3 DEF IInv, TypeOK, HandlerStates
<1>5. (Unfinished' => Unfinished) /\ \A i \in DOMAIN signals : Owes(i)' <=> Owes(i)
  BY <1>1, <1>2 DEF Unfinished, Owes, Has
<1>6. NoStrayInhibitor' /\ (live' = {} \/ "twice" \in excuse)
  BY <1>1 DEF IInv, NoStrayInhibitor
<1>7. Spawning'
  BY <1>1, <1>2 DEF IInv, Spawning
<1>8. SomeoneLetsGo'
  BY <1>1, <1>6 DEF SomeoneLetsGo, Releasing
<1>9. Halts'
  BY <1>1, <1>2 DEF IInv, Halts, Forms, Told, Has
<1>10. AwakeDone'
  BY <1>1, <1>5 DEF IInv, AwakeDone
<1>11. OneCommand'
  <2>1. SUFFICES ASSUME machine' \in {"preparing", "halting", "rebooting"},
                        excuse' \cap {"late", "unarmed"} = {}
                 PROVE  OneCommand'
    BY DEF OneCommand
  <2>2. /\ \A i, j \in DOMAIN signals : Owes(i) /\ Owes(j) => i = j
        /\ \A g, e \in Handlers : handler[g] \in Commanding /\ handler[e] \in Commanding => g = e
        /\ \A g \in Handlers, i \in DOMAIN signals : handler[g] \in Commanding => ~Owes(i)
        /\ live = {} \/ machine = "rebooting" => ~Unfinished
    BY <1>1, <2>1 DEF IInv, OneCommand
  <2>3. ~Unfinished'
    <3>1. CASE handler[h] = "noop"
      <4>1. machine = "rebooting"
        BY <1>1, <2>1, <3>1 DEF IInv, Halts, Forms, Told
      <4>2. QED
        BY <1>5, <2>2, <4>1
    <3>2. CASE handler[h] = "poweringOff"
      <4>1. /\ \A i \in DOMAIN signals : ~Owes(i)'
            /\ \A g \in Handlers : handler'[g] \notin Commanding
        BY <1>2, <1>5, <2>2, <3>2 DEF Commanding
      <4>2. Unfinished' <=> \/ \E i \in DOMAIN signals' : Owes(i)'
                            \/ \E g \in Handlers : handler'[g] \in Commanding
        BY DEF Unfinished, Owes, Has, Commanding, ToSet
      <4>3. QED
        BY <1>1, <4>1, <4>2
    <3>3. QED
      BY <1>1, <3>1, <3>2
  <2>4. \A g \in Handlers : handler'[g] \in Commanding => handler[g] \in Commanding
    BY <1>2 DEF Commanding
  <2>5. QED
    BY <1>1, <1>5, <2>2, <2>3, <2>4 DEF OneCommand
<1>12. machine = "awake" => "late" \in excuse
  BY <1>1 DEF IInv, AwakeDone, Unfinished, Halts, Forms, Told
<1>13. Guarded' /\ PictureComes'
  BY <1>1, <1>12 DEF Guarded, PictureComes
<1>14. WokenUp'
  BY <1>1, <1>3 DEF IInv, WokenUp, Lit
<1>15. QED
  BY <1>3, <1>4, <1>6, <1>7, <1>8, <1>9, <1>10, <1>11, <1>13, <1>14 DEF IInv
-----------------------------------------------------------------------------
(* The service and the television                                          *)

LEMMA ServiceStopsKeeps ==
  ASSUME IInv, ServiceStops
  PROVE  IInv'
<1>1. /\ machine = "awake" /\ machine' = "stopped"
      /\ inhibitor' = NoInhibitor /\ live' = live \ {inhibitor}
      /\ handler' = [h \in Handlers |-> "none"] /\ call' = [h \in Handlers |-> NotCalling]
      /\ slot' = [slot EXCEPT ![Tv] = [k \in Slots |-> Free]]
      /\ UNCHANGED <<panel, newer, slept, signals, net, sawMetadata, excuse>>
  BY DEF ServiceStops, Releases
<1>2. /\ Devices = {Tv} /\ Callers = Handlers /\ Free \in SlotRec /\ NotCalling \in CallRec
      /\ Free.op = "none" /\ Free.res = "none"
  BY PowerEventsAssumption DEF Free, SlotRec, NotCalling, CallRec
<1>3. /\ panel \in [Devices -> Panels] /\ slot \in [Devices -> [Slots -> SlotRec]]
  BY TvTypes DEF IInv, TypeOK
<1>4. /\ slot' \in [Devices -> [Slots -> SlotRec]] /\ call' \in [Callers -> CallRec]
      /\ \A k \in Slots : slot'[Tv][k] = Free
  BY <1>1, <1>2, <1>3
<1>5. TvTypeOK'
  BY <1>1, <1>3, <1>4 DEF TvTypeOK, SlotRec, CallRec
<1>6. TypeOK'
  BY <1>1, <1>5 DEF IInv, TypeOK, Calling
<1>7. Operations' /\ WokenUp'
  BY <1>1, <1>2, <1>4 DEF Operations, WokenUp, Slots
<1>8. NoStrayInhibitor' /\ Spawning'
  BY <1>1 DEF IInv, NoStrayInhibitor, Spawning
<1>9. Halts'
  <2>1. Forms'
    BY <1>1 DEF IInv, Halts, Forms, Has
  <2>2. Told'
    BY <1>1, UpIsQuiet DEF IInv, Halts, Told, Has
  <2>3. QED
    BY <2>1, <2>2 DEF Halts
<1>10. SomeoneLetsGo' /\ AwakeDone' /\ OneCommand' /\ Guarded' /\ PictureComes'
  BY <1>1 DEF SomeoneLetsGo, Releasing, AwakeDone, OneCommand, Guarded, PictureComes
<1>11. QED
  BY <1>6, <1>7, <1>8, <1>9, <1>10 DEF IInv

\* What the TV does leaves the handlers where they are.
LEMMA DaemonWaits ==
  ASSUME IInv, UNCHANGED <<system, events>>, excuse \subseteq excuse',
         "outlived" \in excuse' => "outlived" \in excuse
  PROVE  /\ NoStrayInhibitor' /\ SomeoneLetsGo' /\ Halts' /\ Spawning' /\ AwakeDone'
         /\ OneCommand' /\ Guarded'
<1>1. UNCHANGED <<machine, newer, signals, handler, inhibitor, live, sawMetadata>>
  BY DEF system, events
<1>2. SomeoneLetsGo' /\ Halts' /\ AwakeDone' /\ OneCommand'
  BY <1>1, SameCommands DEF events
<1>3. NoStrayInhibitor' /\ Spawning'
  BY <1>1 DEF IInv, NoStrayInhibitor, Spawning
<1>4. Guarded'
  BY <1>1 DEF IInv, Guarded, Has
<1>5. QED
  BY <1>2, <1>3, <1>4

\* Only a command that outlived its sleep turns a TV off while the machine is up.
LEMMA OffIsLate ==
  ASSUME IInv, slot[Tv]["off"] # Free, machine = "awake"
  PROVE  "late" \in excuse
<1>1. PICK h \in Handlers : Joined(h, Tv, "off")
  BY DEF IInv, Operations, Slots
<1>2. handler[h] = "poweringOff"
  BY <1>1 DEF IInv, TypeOK, Operations, Joined, Waiting
<1>3. QED
  BY <1>2 DEF IInv, AwakeDone, Unfinished

LEMMA TvStepKeeps ==
  ASSUME IInv, TvStep
  PROVE  IInv'
<1>1. /\ UNCHANGED <<system, events>> /\ UNCHANGED <<machine, newer, slept, signals, net>>
      /\ UNCHANGED <<handler, inhibitor, live, sawMetadata>>
      /\ excuse' = excuse \cup
           (IF \E k \in Slots : Fails(Tv, k) THEN {"failure"} ELSE {})
           \cup (IF slot[Tv]["on"].res # "none" /\ panel' # panel THEN {"crossed"} ELSE {})
  BY DEF TvStep, system, events
<1>2. /\ NoStrayInhibitor' /\ SomeoneLetsGo' /\ Halts' /\ Spawning' /\ AwakeDone'
      /\ OneCommand' /\ Guarded'
  BY <1>1, DaemonWaits
<1>3. TvTypeOK /\ Operations
  BY DEF IInv, TypeOK
<1>4. PICK k \in Slots : Acts(Tv, k) \/ Ends(Tv, k)
  BY PowerEventsAssumption DEF TvStep, TvSteps
<1>5. SUFFICES TvTypeOK' /\ (\A h \in Handlers : Calling(h)' <=> Calling(h))
               /\ Operations' /\ WokenUp' /\ PictureComes'
  <2>1. excuse' \subseteq Excuses
    BY <1>1 DEF IInv, TypeOK, Excuses
  <2>2. ASSUME TvTypeOK', \A h \in Handlers : Calling(h)' <=> Calling(h)
        PROVE  TypeOK'
    BY <1>1, <2>1, <2>2 DEF IInv, TypeOK
  <2>3. QED
    BY <1>2, <2>2 DEF IInv
<1>6. CASE Acts(Tv, k)
  <2>1. /\ TvTypeOK' /\ call' = call /\ slot[Tv][k] # Free
        /\ \A j \in Slots \ {k} : slot'[Tv][j] = slot[Tv][j]
        /\ slot'[Tv][k].op = slot[Tv][k].op /\ slot'[Tv][k].res # "none"
        /\ slot[Tv][k].res = "none"
    BY <1>3, <1>6, ActsFacts
  <2>2. \A h \in Handlers : /\ Calling(h)' <=> Calling(h)
                            /\ \A j \in Slots : Joined(h, Tv, j)' <=> Joined(h, Tv, j)
    BY <2>1 DEF Calling, Joined, Waiting
  <2>3. Operations'
    <3>1. \A h \in Handlers : /\ handler'[h] = "poweringOff" => call'[h].to = {Tv} /\ call'[h].key = "off"
                              /\ handler'[h] = "poweringOn" => call'[h].to = {Tv} /\ call'[h].key = "on"
      BY <1>1, <1>3, <2>1 DEF Operations
    <3>2. \A j \in Slots : slot'[Tv][j] # Free => \E h \in Handlers : Joined(h, Tv, j)'
      BY <1>3, <2>1, <2>2 DEF Operations
    <3>3. slot'[Tv]["on"].op \in {"none", "power_on"} /\ slot'[Tv]["off"].op \in {"none", "power_off"}
      BY <1>3, <2>1 DEF Operations, Slots
    <3>4. QED
      BY <3>1, <3>2, <3>3 DEF Operations
  <2>4. WokenUp'
    <3>1. CASE k = "on"
      <4>1. Fails(Tv, "on") => "failure" \in excuse'
        BY <1>1 DEF Slots
      <4>2. QED
        BY <2>1, <3>1, <4>1 DEF WokenUp, Lit, Fails
    <3>2. CASE k = "off"
      <4>1. slot'[Tv]["on"].res = slot[Tv]["on"].res
        BY <2>1, <3>2 DEF Slots
      <4>2. CASE panel' = panel
        BY <1>1, <4>1, <4>2 DEF IInv, WokenUp, Lit
      <4>3. CASE panel' # panel
        BY <1>1, <4>1, <4>3 DEF WokenUp
      <4>4. QED
        BY <4>2, <4>3
    <3>3. QED
      BY <3>1, <3>2 DEF Slots
  <2>5. PictureComes'
    <3>1. CASE k = "on"
      <4>1. slot'[Tv]["on"].res # "none"
        BY <2>1, <3>1
      <4>2. QED
        BY <2>4, <4>1 DEF PictureComes, WokenUp
    <3>2. CASE k = "off"
      BY <1>1, <2>1, <3>2, OffIsLate DEF PictureComes
    <3>3. QED
      BY <3>1, <3>2 DEF Slots
  <2>6. QED
    BY <2>1, <2>2, <2>3, <2>4, <2>5
<1>7. CASE Ends(Tv, k)
  <2>1. /\ TvTypeOK' /\ panel' = panel /\ slot[Tv][k].res # "none" /\ slot'[Tv][k] = Free
        /\ \A j \in Slots \ {k} : slot'[Tv][j] = slot[Tv][j]
    BY <1>3, <1>7, EndsFacts
  <2>2. \A h \in Handlers : /\ call'[h].to = call[h].to /\ call'[h].key = call[h].key
                            /\ Calling(h)' <=> Calling(h)
                            /\ \A j \in Slots \ {k} : Joined(h, Tv, j) => Joined(h, Tv, j)'
    BY <1>3, <1>7, EndsFacts
  <2>3. Free.op = "none" /\ Free.res = "none"
    BY DEF Free
  <2>4. Operations'
    <3>1. \A h \in Handlers : /\ handler'[h] = "poweringOff" => call'[h].to = {Tv} /\ call'[h].key = "off"
                              /\ handler'[h] = "poweringOn" => call'[h].to = {Tv} /\ call'[h].key = "on"
      BY <1>1, <1>3, <2>2 DEF Operations
    <3>2. \A j \in Slots : slot'[Tv][j] # Free => \E h \in Handlers : Joined(h, Tv, j)'
      BY <1>3, <2>1, <2>2 DEF Operations
    <3>3. slot'[Tv]["on"].op \in {"none", "power_on"} /\ slot'[Tv]["off"].op \in {"none", "power_off"}
      BY <1>3, <2>1, <2>3 DEF Operations, Slots
    <3>4. QED
      BY <3>1, <3>2, <3>3 DEF Operations
  <2>5. WokenUp'
    BY <1>1, <2>1, <2>3 DEF IInv, WokenUp, Lit, Slots
  <2>6. PictureComes'
    <3>1. \A h \in Handlers : WillPowerOn(h) => WillPowerOn(h)'
      BY <1>1, <2>1, <2>2 DEF WillPowerOn, Slots
    <3>2. QED
      BY <1>1, <2>1, <3>1 DEF IInv, PictureComes, Has, Lit
  <2>7. QED
    BY <2>1, <2>2, <2>4, <2>5, <2>6
<1>8. QED
  BY <1>4, <1>6, <1>7

-----------------------------------------------------------------------------
(* The theorems                                                            *)

LEMMA InitHolds ==
  ASSUME Init
  PROVE  IInv
<1>1. /\ machine = "awake" /\ slept = 0 /\ signals = <<>> /\ net \in BOOLEAN
      /\ newer \in BOOLEAN /\ sawMetadata = FALSE /\ excuse = {} /\ inhibitor \in Inhibitors /\ live = {inhibitor}
      /\ handler \in [Handlers -> {"none", "waiting"}]
      /\ panel[Tv] = "lit" \/ \E b \in Handlers : handler[b] = "waiting"
  BY DEF Init
<1>2. /\ Devices = {Tv} /\ Callers = Handlers /\ Free \in SlotRec /\ NotCalling \in CallRec
      /\ Free.op = "none" /\ Free.res = "none"
  BY PowerEventsAssumption DEF Free, SlotRec, NotCalling, CallRec
<1>3. /\ panel \in [Devices -> Panels] /\ slot = [d \in Devices |-> [k \in Slots |-> Free]]
      /\ call = [c \in Handlers |-> NotCalling]
  BY <1>2 DEF Init, TvInit
<1>4. TvTypeOK /\ \A k \in Slots : slot[Tv][k] = Free
  BY <1>2, <1>3 DEF TvTypeOK, SlotRec, CallRec
<1>5. /\ ToSet(signals) = {} /\ DOMAIN signals = {} /\ signals \in Seq(Signals)
      /\ 0 \in 0 .. Sleeps
  BY <1>1, PowerEventsAssumption DEF ToSet
<1>6. TypeOK
  BY <1>1, <1>3, <1>4, <1>5 DEF TypeOK, Signals, Calling
<1>7. ~Unfinished
  BY <1>1, <1>5 DEF Unfinished
<1>8. NoStrayInhibitor /\ SomeoneLetsGo /\ Spawning /\ AwakeDone /\ OneCommand /\ Guarded
  BY <1>1, <1>7 DEF NoStrayInhibitor, SomeoneLetsGo, Releasing, Spawning, AwakeDone, OneCommand, Guarded
<1>9. Halts
  BY <1>1, <1>5 DEF Halts, Forms, Told, Has
<1>10. Operations /\ WokenUp
  BY <1>1, <1>2, <1>4 DEF Operations, WokenUp, Slots
<1>11. PictureComes
  BY <1>1 DEF PictureComes, Lit, WillPowerOn
<1>12. QED
  BY <1>6, <1>8, <1>9, <1>10, <1>11 DEF IInv

LEMMA NextHolds ==
  ASSUME IInv, [Next]_vars
  PROVE  IInv'
<1>1. CASE Machine
  BY <1>1, PreparesSleepKeeps, WakesUpKeeps, NetworkReturnsKeeps, GoesDownKeeps, PreparesHaltKeeps,
     AbortsHaltKeeps DEF Machine
<1>2. CASE TvStep
  BY <1>2, TvStepKeeps
<1>3. CASE ServiceStops
  BY <1>3, ServiceStopsKeeps
<1>4. CASE \E h \in Handlers : HandlerSteps(h)
  BY <1>4, SignalArrivesKeeps, PowersOffKeeps, ReleasesInhibitorKeeps, TakesInhibitorKeeps,
     SpawnedKeeps, PowersOnKeeps, ResumeReturnsKeeps DEF HandlerSteps
<1>5. CASE UNCHANGED vars
  <2>1. /\ UNCHANGED <<tvVars, events, excuse>> /\ UNCHANGED <<system, events>>
        /\ UNCHANGED <<machine, newer, slept, signals, net, handler>> /\ UNCHANGED <<panel, slot, call>>
    BY <1>5 DEF vars, tvVars, system, events
  <2>2. NoStrayInhibitor' /\ Spawning' /\ Operations' /\ WokenUp'
    BY <2>1, MachineMoves
  <2>3. SomeoneLetsGo' /\ Halts' /\ AwakeDone' /\ OneCommand' /\ Guarded'
    BY <2>1, DaemonWaits
  <2>4. TypeOK'
    BY <2>1, MachineTypes DEF IInv, TypeOK
  <2>5. PictureComes'
    BY <2>1 DEF IInv, PictureComes, Has, Lit, WillPowerOn, Joined, Waiting, Calling
  <2>6. QED
    BY <2>2, <2>3, <2>4, <2>5 DEF IInv
<1>6. QED
  BY <1>1, <1>2, <1>3, <1>4, <1>5 DEF Next

LEMMA IInvHolds == Spec => []IInv
<1>1. Init => IInv
  BY InitHolds
<1>2. IInv /\ [Next]_vars => IInv'
  BY NextHolds
<1>3. QED
  BY <1>1, <1>2, PTL DEF Spec

\* The daemon loses track of no inhibitor process, unless two resumes were taking one
\* at once (_take_inhibitor checks, awaits and assigns).
THEOREM InvHolds == Spec => []Inv
<1>1. IInv => Inv
  BY DEF IInv, Inv
<1>2. QED
  BY <1>1, IInvHolds, PTL

\* Once the daemon has dealt with all that logind has announced, the next sleep is
\* guarded and the TV shows a picture, but for the failures that excuse it.
THEOREM ReadyWhenQuietHolds == Spec => []ReadyWhenQuiet
<1>1. IInv => ReadyWhenQuiet
  <2>1. SUFFICES ASSUME IInv, Quiet
                 PROVE  /\ inhibitor \in live \/ excuse \cap {"late", "no inhibitor", "aborted"} # {}
                        /\ \/ panel[Tv] = "lit"
                           \/ excuse \cap {"late", "failure", "crossed", "aborted"} # {}
    BY DEF ReadyWhenQuiet, GuardedWhenQuiet, OnWhenQuiet
  <2>2. /\ machine = "awake" /\ ~Has("resume") /\ \A h \in Handlers : handler[h] = "none"
    <3>1. machine = "awake" /\ signals = <<>> /\ \A h \in Handlers : handler[h] = "none"
      BY <2>1 DEF Quiet, Resting
    <3>2. ToSet(signals) = {}
      BY <3>1 DEF ToSet
    <3>3. QED
      BY <3>1, <3>2 DEF Has
  <2>3. QED
    BY <2>1, <2>2 DEF IInv, Guarded, PictureComes, Lit, WillPowerOn
<1>2. QED
  BY <1>1, IInvHolds, PTL

\* While an inhibitor delays a sleep or a halt, a handler runs that lets it go, or the
\* signal for one is on its way: _on_prepare_for_sleep and its companions.
THEOREM SomeoneLetsGoHolds == Spec => []SomeoneLetsGo
<1>1. IInv => SomeoneLetsGo
  BY DEF IInv
<1>2. QED
  BY <1>1, IInvHolds, PTL

\* The command is over before the inhibitor goes, so an unexcused machine goes down with
\* nothing left to do for the TV.
THEOREM CommandsFinishFirstHolds == Spec => CommandsFinishFirst
<1>1. ASSUME IInv, GoesDown(TRUE)
      PROVE  ~Unfinished \/ excuse \cap {"unarmed", "late"} # {}
  BY <1>1 DEF GoesDown, IInv, OneCommand
<1>2. IInv => (GoesDown(TRUE) => ~Unfinished \/ excuse \cap {"unarmed", "late"} # {})
  BY <1>1
<1>3. QED
  BY <1>2, IInvHolds, PTL DEF CommandsFinishFirst

\* Whichever of a reboot's two signals a handler takes, none starts to power the TV off.
THEOREM RebootSparesTvHolds == Spec => RebootSparesTv
<1>1. ASSUME IInv, Next, machine = "rebooting", "outlived" \notin excuse,
             NEW h \in Handlers, handler'[h] = "shutdown"
      PROVE  handler[h] = "shutdown"
  <2>1. handler \in [Handlers -> HandlerStates]
    BY <1>1 DEF IInv, TypeOK, HandlerStates
  <2>2. CASE UNCHANGED handler
    BY <1>1, <2>2
  <2>3. ASSUME NEW g \in Handlers, SignalArrives(g)
        PROVE  handler[h] = "shutdown"
    <3>1. /\ handler'[g] = Starts(Head(signals)) /\ Head(signals) \in Signals
          /\ \A e \in Handlers \ {g} : handler'[e] = handler[e]
          /\ 1 \in DOMAIN signals /\ signals[1] = Head(signals)
      BY <1>1, <2>3, SignalShift
    <3>2. handler'[g] = "shutdown" => \/ Head(signals) = "poweroff"
                                      \/ Head(signals) = "shutdown" /\ ~sawMetadata
      BY <3>1 DEF Starts, Signals
    <3>3. Head(signals) # "poweroff"
      BY <1>1, <3>1 DEF IInv, Halts, Forms, Told, Has, ToSet
    <3>4. Head(signals) = "shutdown" => sawMetadata
      <4>1. SUFFICES ASSUME Head(signals) = "shutdown", ~sawMetadata PROVE FALSE
        OBVIOUS
      <4>2. PICK i \in DOMAIN signals : i < 1
        BY <1>1, <3>1, <4>1 DEF IInv, Halts, Forms
      <4>3. DOMAIN signals = 1 .. Len(signals)
        BY <1>1 DEF IInv, TypeOK
      <4>4. QED
        BY <4>2, <4>3
    <3>5. QED
      BY <1>1, <3>1, <3>2, <3>3, <3>4
  <2>4. ASSUME NEW g \in Handlers, NEW state \in HandlerStates \ {"shutdown"},
               handler' = [handler EXCEPT ![g] = state]
        PROVE  handler[h] = "shutdown"
    BY <1>1, <2>1, <2>4
  <2>5. CASE Machine \/ TvStep
    <3>1. UNCHANGED handler
      BY <2>5 DEF Machine, TvStep, PreparesSleep, WakesUp, NetworkReturns, GoesDown,
                  PreparesHalt, AbortsHalt, events
    <3>2. QED
      BY <2>2, <3>1
  <2>6. CASE ServiceStops
    BY <1>1, <2>6 DEF ServiceStops
  <2>7. ASSUME NEW g \in Handlers, HandlerSteps(g)
        PROVE  handler[h] = "shutdown"
    <3>1. CASE SignalArrives(g)
      BY <2>3, <3>1
    <3>2. CASE ~SignalArrives(g)
      <4>1. \E state \in HandlerStates \ {"shutdown"} : handler' = [handler EXCEPT ![g] = state]
        BY <2>7, <3>2 DEF HandlerSteps, PowersOff, ReleasesInhibitor, TakesInhibitor, Spawned,
                          PowersOn, ResumeReturns, HandlerStates
      <4>2. QED
        BY <2>4, <4>1
    <3>3. QED
      BY <3>1, <3>2
  <2>8. QED
    BY <1>1, <2>5, <2>6, <2>7 DEF Next
<1>2. ASSUME IInv, [Next]_vars
      PROVE  [machine = "rebooting" /\ "outlived" \notin excuse => \A h \in Handlers :
                handler'[h] = "shutdown" => handler[h] = "shutdown"]_vars
  BY <1>1, <1>2
<1>3. IInv /\ [Next]_vars => [machine = "rebooting" /\ "outlived" \notin excuse => \A h \in Handlers :
                handler'[h] = "shutdown" => handler[h] = "shutdown"]_vars
  BY <1>2
<1>4. QED
  BY <1>3, IInvHolds, PTL DEF Spec, RebootSparesTv
=============================================================================
