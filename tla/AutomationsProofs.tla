-------------------------- MODULE AutomationsProofs --------------------------
(***************************************************************************)
(* Proofs about Automations, for any televisions, tasks and configurations. *)
(***************************************************************************)
EXTENDS Automations, TLAPS

-----------------------------------------------------------------------------
(* The inductive invariant                                                 *)

Has(s, d) == \E i \in 1 .. Len(s) : s[i] = d

Darkens(h) == Active(h) /\ handler[h].kind \in Darkening
Lights(h) == Active(h) /\ handler[h].kind \in Lighting
EndsStream(h) == Active(h) /\ handler[h].kind = "disconnect"

\* What an operation can return.
Gives(op) ==
  CASE op = "power_on" -> {"on", "error"}
    [] op = "blank" -> {"blanked", "nothing", "error"}
    [] op = "power_off" -> {"off", "nothing", "error"}
    [] OTHER -> {}

\* Streams and locks darken the televisions with the same operation, if both do.
SameOff == conf.lock \in {"none", conf.connect}

\* A task is there only for a reaction that is configured.
Configured ==
  \A h \in Handlers : Active(h) =>
    \/ handler[h].kind \in {"connect", "disconnect"} /\ conf.connect # "none"
    \/ handler[h].kind = "lock" /\ conf.lock # "none"
    \/ handler[h].kind = "unlock"

\* A wake-up has seen nothing before it probes.
Wakings ==
  \A w \in Wakers :
    waker[w].at # "probing" => \A d \in Devices : waker[w].seen[d] = "none"

\* Who calls, calls the television that it is at.
Places ==
  /\ \A h \in Handlers : Calling(h) =>
       call[h].to = {Head(handler[h].todo)} /\ call[h].key = SlotOf(OpOf(h))
  /\ \A w \in Wakers, d \in Devices : Calling(<<w, d>>) =>
       call[<<w, d>>].to = {d} /\ call[<<w, d>>].key = "on"

\* What runs in the slots, and what it can return.
OwnOps ==
  \A d \in Devices :
    /\ slot[d]["on"].op \in {"none", "power_on"}
    /\ slot[d]["off"].op \in {"none", "blank", "power_off"}
    /\ SameOff => slot[d]["off"].op \in {"none", conf.connect}
    /\ \A k \in Slots : /\ slot[d][k].op = "none" <=> slot[d][k] = Free
                        /\ slot[d][k].res \in {"none"} \cup Gives(slot[d][k].op)

\* Whatever runs, somebody awaits it.
Manned == \A d \in Devices, k \in Slots : slot[d][k] # Free => \E c \in Callers : Joined(c, d, k)

\* Who has joined no other operation awaits the one it asked for.
Matched ==
  "joined" \notin excuse =>
    \A h \in Handlers : Waiting(h) => slot[Head(handler[h].todo)][SlotOf(OpOf(h))].op = OpOf(h)

\* So a stream is answered with what its own operation can return.
Truthful ==
  "joined" \notin excuse \/ SameOff =>
    \A h \in Handlers : Answered(h) /\ handler[h].kind = "connect" => call[h].res \in Gives(conf.connect)

\* Tasks that overlap work in one direction.
OneDirection ==
  "crossed" \notin excuse /\ (\E h \in Handlers : Darkens(h)) =>
    (\A h \in Handlers : ~Lights(h)) /\ (\A w \in Wakers : ~Wakes(w))

\* A stream's end is over before the next stream begins.
OneEnd ==
  "crossed" \notin excuse =>
    \A h \in Handlers : EndsStream(h) => ~streaming /\ \A g \in Handlers : EndsStream(g) => g = h

\* RestoreRemembers, at any time.
Remembered == "crossed" \notin excuse /\ streaming /\ SameOff => changed \subseteq touched

\* While nothing has gone wrong, the stream notes what it has really changed.
Tracked == excuse = {} /\ streaming => touched = changed

\* While nothing has gone wrong, operations do what they are for.
Effective ==
  excuse = {} =>
    /\ \A d \in Devices : /\ slot[d]["off"].res # "none" => panel[d] # "lit"
                          /\ slot[d]["on"].res # "none" => panel[d] = "lit"
    /\ \A h \in Handlers : Answered(h) => (panel[Head(handler[h].todo)] = "lit" <=> Lights(h))
    /\ \A w \in Wakers, d \in Devices : Answered(<<w, d>>) => panel[d] = "lit"

\* While nothing has gone wrong, what is under way is what was last decided.
Wished ==
  excuse = {} =>
    /\ \A h \in Handlers, d \in Devices :
         /\ Darkens(h) => wish[d] = "dark"
         /\ Lights(h) /\ ~Untouched(h, d) => wish[d] = "lit"
    /\ \A w \in Wakers, d \in Devices : waker[w].seen[d] = "called" => wish[d] = "lit"

\* The stream's end asks nothing of a television that it would leave alone.
Asked == excuse = {} => \A h \in Handlers : Calling(h) => ~Untouched(h, Head(handler[h].todo))

\* Something has still to be done about d.
Pending(d) ==
  \/ \E h \in Handlers : Active(h) /\ Has(handler[h].todo, d) /\ ~Untouched(h, d)
  \/ \E w \in Wakers : waker[w].seen[d] = "called"

\* While nothing has gone wrong, a television with nothing pending is as it should be.
Agreed == excuse = {} => \A d \in Devices : ~Pending(d) => (panel[d] = "lit" <=> wish[d] = "lit")

IInv ==
  /\ TypeOK /\ OneWakeAtATime /\ Configured /\ Wakings /\ Places /\ OwnOps /\ Manned
  /\ Matched /\ Truthful /\ OneDirection /\ OneEnd /\ Remembered /\ Tracked
  /\ Effective /\ Wished /\ Asked /\ Agreed
-----------------------------------------------------------------------------
(* Types                                                                   *)

CallRec == [to : SUBSET Devices, key : Slots \cup {"none"},
            res : Results \cup {"none", "cancelled"}]
SlotRec == [op : Ops \cup {"none"}, res : Results \cup {"none"}]
TaskRec == [kind : {"none"} \cup Darkening \cup Lighting, todo : Seq(Devices), lit : BOOLEAN]
WakeRec == [at : {"none", "spawned", "probing"},
            seen : [Devices -> {"none", "probed", "spared", "needed", "called"}]]
ConfRec == [connect : {"none", "blank", "power_off"}, disconnect : {"on", "keep_off", "restore"},
            lock : {"none", "blank", "power_off"}, unlock : {"none", "power_on"},
            wake : BOOLEAN, cooldown : BOOLEAN]

LEMMA TvTypes ==
  TvTypeOK <=> /\ panel \in [Devices -> Panels] /\ slot \in [Devices -> [Slots -> SlotRec]]
               /\ call \in [Callers -> CallRec]
BY DEF TvTypeOK, CallRec, SlotRec

LEMMA Constants ==
  /\ Order \in Seq(Devices) /\ Order # <<>> /\ \A d \in Devices : Has(Order, d)
  /\ Handlers \subseteq Callers
  /\ \A w \in Wakers, d \in Devices : <<w, d>> \in Callers /\ <<w, d>> \notin Handlers
  /\ \A c \in Callers : c \in Handlers \/ \E w \in Wakers, d \in Devices : c = <<w, d>>
  /\ Slots = {"on", "off"} /\ Configs \subseteq ConfRec
<1>1. \A d \in Devices : Has(Order, d)
  <2>1. ToSet(Order) = Devices /\ Order \in Seq(Devices)
    BY AutomationsAssumption
  <2>2. ToSet(Order) = {Order[i] : i \in DOMAIN Order} /\ DOMAIN Order = 1 .. Len(Order)
    BY <2>1 DEF ToSet
  <2>3. QED
    BY <2>1, <2>2 DEF Has
<1>2. QED
  BY <1>1, AutomationsAssumption DEF Slots, ConfRec

LEMMA FreeFacts ==
  /\ Free \in SlotRec /\ Free.op = "none" /\ Free.res = "none"
  /\ NotCalling \in CallRec /\ NotCalling.to = {} /\ NotCalling.res = "none"
  /\ NoTask \in TaskRec /\ NoTask.kind = "none" /\ NoTask.todo = <<>>
  /\ NoWake \in WakeRec /\ NoWake.at = "none" /\ \A d \in Devices : NoWake.seen[d] = "none"
BY DEF Free, SlotRec, NotCalling, CallRec, NoTask, TaskRec, NoWake, WakeRec

LEMMA Types ==
  ASSUME IInv
  PROVE  /\ panel \in [Devices -> Panels] /\ slot \in [Devices -> [Slots -> SlotRec]]
         /\ call \in [Callers -> CallRec] /\ TvTypeOK
         /\ handler \in [Handlers -> TaskRec] /\ waker \in [Wakers -> WakeRec]
         /\ conf \in ConfRec /\ conf \in Configs
         /\ streaming \in BOOLEAN /\ touched \subseteq Devices /\ changed \subseteq Devices
         /\ locked \in BOOLEAN /\ wish \in [Devices -> {"lit", "dark"}]
         /\ excuse \subseteq {"crossed", "failure", "joined", "already dark"}
BY TvTypes, Constants DEF IInv, TypeOK, TaskRec, WakeRec

LEMMA SeqFacts ==
  ASSUME NEW s \in Seq(Devices), s # <<>>
  PROVE  /\ Head(s) \in Devices /\ Tail(s) \in Seq(Devices)
         /\ \A d : Has(s, d) <=> d = Head(s) \/ Has(Tail(s), d)
<1>1. /\ Head(s) \in Devices /\ Tail(s) \in Seq(Devices) /\ Len(Tail(s)) = Len(s) - 1
      /\ Len(s) \in Nat \ {0} /\ Head(s) = s[1]
      /\ \A i \in 1 .. Len(Tail(s)) : Tail(s)[i] = s[i + 1]
  OBVIOUS
<1>2. ASSUME NEW d, Has(s, d), d # Head(s)
      PROVE  Has(Tail(s), d)
  <2>1. PICK i \in 1 .. Len(s) : s[i] = d
    BY <1>2 DEF Has
  <2>2. i - 1 \in 1 .. Len(Tail(s)) /\ Tail(s)[i - 1] = d
    BY <1>1, <1>2, <2>1
  <2>3. QED
    BY <2>2 DEF Has
<1>3. ASSUME NEW d, Has(Tail(s), d)
      PROVE  Has(s, d)
  BY <1>1, <1>3 DEF Has
<1>4. Has(s, Head(s))
  BY <1>1 DEF Has
<1>5. QED
  BY <1>1, <1>2, <1>3, <1>4

\* A task has something left to do, and a kind that says which way it works.
LEMMA TaskFacts ==
  ASSUME IInv, NEW h \in Handlers
  PROVE  /\ handler[h] \in TaskRec /\ handler[h].todo \in Seq(Devices)
         /\ Active(h) <=> handler[h].kind # "none"
         /\ Active(h) <=> handler[h].todo # <<>>
         /\ Active(h) => /\ Head(handler[h].todo) \in Devices /\ Tail(handler[h].todo) \in Seq(Devices)
                         /\ Darkens(h) \/ Lights(h)
                         /\ \A d : Has(handler[h].todo, d) <=>
                              d = Head(handler[h].todo) \/ Has(Tail(handler[h].todo), d)
         /\ ~(Darkens(h) /\ Lights(h))
         /\ Darkens(h) => OpOf(h) \in {"blank", "power_off"} /\ SlotOf(OpOf(h)) = "off"
         /\ Lights(h) => OpOf(h) = "power_on" /\ SlotOf(OpOf(h)) = "on"
         /\ Darkens(h) /\ SameOff => OpOf(h) = conf.connect
         /\ Active(h) /\ handler[h].kind = "connect" => Darkens(h) /\ OpOf(h) = conf.connect
         /\ EndsStream(h) => Lights(h)
         /\ Calling(h) => Active(h)
<1>1. /\ handler[h] \in TaskRec /\ conf \in ConfRec
      /\ Active(h) <=> handler[h].todo # <<>>
      /\ Calling(h) => Active(h)
  BY Types DEF IInv, TypeOK
<1>2. Active(h) <=> handler[h].kind # "none"
  BY FreeFacts DEF IInv, Configured, Active
<1>3. Active(h) => \/ handler[h].kind \in {"connect", "disconnect"} /\ conf.connect # "none"
                   \/ handler[h].kind = "lock" /\ conf.lock # "none"
                   \/ handler[h].kind = "unlock"
  BY DEF IInv, Configured
<1>4. handler[h].todo \in Seq(Devices)
  BY <1>1 DEF TaskRec
<1>5. conf.connect \in {"none", "blank", "power_off"} /\ conf.lock \in {"none", "blank", "power_off"}
  BY <1>1 DEF ConfRec
<1>6. Active(h) => Darkens(h) \/ Lights(h)
  BY <1>3 DEF Darkens, Lights, Darkening, Lighting
<1>7. ~(Darkens(h) /\ Lights(h))
  BY DEF Darkens, Lights, Darkening, Lighting
<1>8. Darkens(h) => /\ handler[h].kind = "connect" => OpOf(h) = conf.connect /\ conf.connect # "none"
                    /\ handler[h].kind = "lock" => OpOf(h) = conf.lock /\ conf.lock # "none"
                    /\ handler[h].kind \in {"connect", "lock"}
  BY <1>3 DEF Darkens, Darkening, Lighting, OpOf
<1>9. Lights(h) => OpOf(h) = "power_on"
  BY <1>3 DEF Lights, Lighting, OpOf
<1>10. Active(h) => /\ Head(handler[h].todo) \in Devices /\ Tail(handler[h].todo) \in Seq(Devices)
                    /\ \A d : Has(handler[h].todo, d) <=>
                              d = Head(handler[h].todo) \/ Has(Tail(handler[h].todo), d)
  BY <1>1, <1>4, SeqFacts
<1>11. Active(h) /\ handler[h].kind = "connect" => Darkens(h)
  BY DEF Darkens, Darkening
<1>12. EndsStream(h) => Lights(h)
  BY DEF EndsStream, Lights, Lighting
<1>13. Darkens(h) => OpOf(h) \in {"blank", "power_off"}
  BY <1>5, <1>8
<1>14. Darkens(h) /\ SameOff => OpOf(h) = conf.connect
  BY <1>8 DEF SameOff
<1>15. QED
  BY <1>1, <1>2, <1>4, <1>6, <1>7, <1>8, <1>9, <1>10, <1>11, <1>12, <1>13, <1>14 DEF SlotOf

\* A wake-up that has called a television, or seen anything, is under way.
LEMMA WakeFacts ==
  ASSUME IInv, NEW w \in Wakers
  PROVE  /\ waker[w] \in WakeRec
         /\ Wakes(w) <=> waker[w].at # "none"
         /\ \A d \in Devices : waker[w].seen[d] # "none" => Wakes(w) /\ waker[w].at = "probing"
         /\ \A d \in Devices : Calling(<<w, d>>) <=> waker[w].seen[d] = "called"
<1>1. waker[w] \in WakeRec /\ \A d \in Devices : Calling(<<w, d>>) <=> waker[w].seen[d] = "called"
  BY Types DEF IInv, TypeOK
<1>2. waker[w].at # "probing" => \A d \in Devices : waker[w].seen[d] = "none"
  BY DEF IInv, Wakings
<1>3. Wakes(w) <=> waker[w].at # "none"
  <2>1. ASSUME waker[w].at = "none"
        PROVE  waker[w] = NoWake
    <3>1. waker[w].seen = NoWake.seen
      BY <1>1, <1>2, <2>1, FreeFacts DEF WakeRec
    <3>2. QED
      BY <1>1, <2>1, <3>1, FreeFacts DEF WakeRec
  <2>2. QED
    BY <2>1, FreeFacts DEF Wakes
<1>4. QED
  BY <1>1, <1>2, <1>3

-----------------------------------------------------------------------------
(* The televisions                                                         *)

\* A call fills its slot if that is free, and changes nothing else.
LEMMA CallsFacts ==
  ASSUME IInv, NEW c \in Callers, NEW d \in Devices, NEW op \in {"power_on", "blank", "power_off"},
         Calls(c, d, op), ~Calling(c), SameOff /\ op # "power_on" => op = conf.connect, conf' = conf
  PROVE  /\ TvTypeOK' /\ OwnOps' /\ Manned' /\ panel' = panel
         /\ call'[c].to = {d} /\ call'[c].key = SlotOf(op) /\ call'[c].res = "none" /\ Calling(c)'
         /\ \A b \in Callers \ {c} : call'[b] = call[b]
         /\ \A e \in Devices, k \in Slots :
              /\ slot'[e][k].res = slot[e][k].res
              /\ slot[e][k].op # "none" => slot'[e][k].op = slot[e][k].op
         /\ slot'[d][SlotOf(op)].op = IF slot[d][SlotOf(op)].op = "none" THEN op
                                      ELSE slot[d][SlotOf(op)].op
<1> DEFINE k == SlotOf(op)
           r == [to |-> {d}, key |-> k, res |-> "none"]
<1>1. k = (IF op = "power_on" THEN "on" ELSE "off") /\ k \in Slots /\ op \in Ops
  BY Constants DEF SlotOf, Ops
<1>2. /\ call' = [call EXCEPT ![c] = r] /\ panel' = panel
      /\ slot' = IF slot[d][k] = Free THEN [slot EXCEPT ![d][k].op = op] ELSE slot
  BY DEF Calls
<1>3. r \in CallRec /\ r # NotCalling /\ r.to = {d} /\ r.key = k /\ r.res = "none"
  BY <1>1 DEF CallRec, NotCalling
<1>4. SlotOf(op) = k
  OBVIOUS
<1> HIDE DEF k, r
<1>5. /\ call' \in [Callers -> CallRec] /\ call'[c] = r
      /\ \A b \in Callers \ {c} : call'[b] = call[b]
  BY <1>2, <1>3, Types
<1>6. /\ slot \in [Devices -> [Slots -> SlotRec]]
      /\ \A e \in Devices, j \in Slots : slot[e][j].op = "none" <=> slot[e][j] = Free
  BY Types DEF IInv, OwnOps
<1>7. /\ slot' \in [Devices -> [Slots -> SlotRec]]
      /\ \A e \in Devices, j \in Slots : e # d \/ j # k => slot'[e][j] = slot[e][j]
      /\ slot[d][k] = Free => slot'[d][k].op = op /\ slot'[d][k].res = "none"
      /\ slot[d][k] # Free => slot'[d][k] = slot[d][k]
  BY <1>1, <1>2, <1>6, FreeFacts DEF SlotRec
<1>8. slot'[d][k] # Free /\ slot'[d][k].op # "none"
  BY <1>1, <1>6, <1>7, FreeFacts
<1>9. TvTypeOK'
  BY <1>2, <1>5, <1>7, Types DEF TvTypeOK, CallRec, SlotRec
<1>10. OwnOps'
  <2>1. SameOff' <=> SameOff
    BY DEF SameOff
  <2>2. ASSUME NEW e \in Devices, NEW j \in Slots
        PROVE  /\ slot'[e][j].op = "none" <=> slot'[e][j] = Free
               /\ slot'[e][j].res \in {"none"} \cup Gives(slot'[e][j].op)
               /\ j = "on" => slot'[e][j].op \in {"none", "power_on"}
               /\ j = "off" => slot'[e][j].op \in {"none", "blank", "power_off"}
               /\ j = "off" /\ SameOff => slot'[e][j].op \in {"none", conf.connect}
    <3>1. /\ slot[e][j].op = "none" <=> slot[e][j] = Free
          /\ slot[e][j].res \in {"none"} \cup Gives(slot[e][j].op)
          /\ j = "on" => slot[e][j].op \in {"none", "power_on"}
          /\ j = "off" => slot[e][j].op \in {"none", "blank", "power_off"}
          /\ j = "off" /\ SameOff => slot[e][j].op \in {"none", conf.connect}
      BY DEF IInv, OwnOps
    <3>2. CASE e # d \/ j # k \/ slot[d][k] # Free
      BY <1>7, <3>1, <3>2
    <3>3. CASE e = d /\ j = k /\ slot[d][k] = Free
      BY <1>1, <1>7, <1>8, <3>3
    <3>4. QED
      BY <3>2, <3>3
  <2>3. QED
    BY <2>1, <2>2, Constants DEF OwnOps, SameOff
<1>11. Manned'
  <2>1. SUFFICES ASSUME NEW e \in Devices, NEW j \in Slots, slot'[e][j] # Free
                 PROVE  \E b \in Callers : Joined(b, e, j)'
    BY DEF Manned
  <2>2. CASE e = d /\ j = k
    BY <1>3, <1>5, <2>2 DEF Joined, Waiting, Calling
  <2>3. CASE e # d \/ j # k
    <3>1. PICK b \in Callers : Joined(b, e, j)
      BY <1>7, <2>1, <2>3 DEF IInv, Manned
    <3>2. b # c
      BY <3>1 DEF Joined, Waiting
    <3>3. QED
      BY <1>5, <3>1, <3>2 DEF Joined, Waiting, Calling
  <2>4. QED
    BY <2>2, <2>3
<1>12. /\ \A e \in Devices, j \in Slots :
              /\ slot'[e][j].res = slot[e][j].res
              /\ slot[e][j].op # "none" => slot'[e][j].op = slot[e][j].op
       /\ slot'[d][k].op = IF slot[d][k].op = "none" THEN op ELSE slot[d][k].op
  BY <1>1, <1>6, <1>7, FreeFacts
<1>13. QED
  BY <1>2, <1>3, <1>4, <1>5, <1>9, <1>10, <1>11, <1>12 DEF Calling

LEMMA ReturnsFacts ==
  ASSUME IInv, NEW c \in Callers, Answered(c), Returns(c), conf' = conf
  PROVE  /\ TvTypeOK' /\ OwnOps' /\ Manned' /\ UNCHANGED <<panel, slot>>
         /\ ~Calling(c)' /\ ~Answered(c)' /\ \A b \in Callers \ {c} : call'[b] = call[b]
<1>1. call' = [call EXCEPT ![c] = NotCalling] /\ UNCHANGED <<panel, slot>>
  BY DEF Returns
<1>2. /\ call' \in [Callers -> CallRec] /\ call'[c] = NotCalling
      /\ \A b \in Callers \ {c} : call'[b] = call[b]
  BY <1>1, Types, FreeFacts
<1>3. TvTypeOK'
  BY <1>1, <1>2, Types DEF TvTypeOK, CallRec, SlotRec
<1>4. OwnOps'
  BY <1>1 DEF IInv, OwnOps, SameOff
<1>5. Manned'
  <2>1. SUFFICES ASSUME NEW e \in Devices, NEW j \in Slots, slot[e][j] # Free
                 PROVE  \E b \in Callers : Joined(b, e, j)'
    BY <1>1 DEF Manned
  <2>2. PICK b \in Callers : Joined(b, e, j)
    BY <2>1 DEF IInv, Manned
  <2>3. b # c
    BY <2>2 DEF Joined, Waiting, Answered
  <2>4. QED
    BY <1>2, <2>2, <2>3 DEF Joined, Waiting, Calling
<1>6. QED
  BY <1>1, <1>2, <1>3, <1>4, <1>5, FreeFacts DEF Calling, Answered

\* Unless it fails, an operation does to the television what it is for.
LEMMA ActsFacts ==
  ASSUME IInv, NEW d \in Devices, NEW k \in Slots, Acts(d, k), conf' = conf
  PROVE  /\ TvTypeOK' /\ OwnOps' /\ Manned' /\ call' = call
         /\ slot[d][k] # Free /\ slot'[d][k] # Free
         /\ \A e \in Devices : e # d => panel'[e] = panel[e]
         /\ \A e \in Devices, j \in Slots : /\ e # d \/ j # k => slot'[e][j] = slot[e][j]
                                            /\ slot'[e][j].op = slot[e][j].op
         /\ Fails(d, k) \/ (panel'[d] = "lit" <=> k = "on")
<1>1. /\ slot[d][k].op # "none" /\ slot[d][k] # Free
      /\ k = "on" => slot[d][k].op = "power_on"
      /\ k = "off" => slot[d][k].op \in {"blank", "power_off"}
  BY FreeFacts, Constants DEF Acts, IInv, OwnOps
<1>2. PICK o \in Outcomes(slot[d][k].op, panel[d]) :
        panel' = [panel EXCEPT ![d] = o[1]] /\ slot' = [slot EXCEPT ![d][k].res = o[2]]
  BY DEF Acts
<1>3. o[1] \in Panels /\ o[2] \in Results /\ o[2] \in Gives(slot[d][k].op)
  <2>1. panel[d] \in {"lit", "dark", "off"}
    BY Types DEF Panels
  <2>2. CASE k = "on"
    BY <1>1, <1>2, <2>1, <2>2 DEF Outcomes, Results, Panels, Gives, OwnOps
  <2>3. CASE slot[d][k].op = "blank" /\ k = "off"
    BY <1>2, <2>1, <2>3 DEF Outcomes, Results, Panels, Gives
  <2>4. CASE slot[d][k].op = "power_off" /\ k = "off"
    BY <1>2, <2>1, <2>4 DEF Outcomes, Results, Panels, Gives
  <2>5. QED
    BY <1>1, <2>2, <2>3, <2>4, Constants
<1>4. /\ panel' \in [Devices -> Panels] /\ panel'[d] = o[1]
      /\ \A e \in Devices : e # d => panel'[e] = panel[e]
      /\ slot' \in [Devices -> [Slots -> SlotRec]]
      /\ \A e \in Devices, j \in Slots : e # d \/ j # k => slot'[e][j] = slot[e][j]
      /\ slot'[d][k].op = slot[d][k].op /\ slot'[d][k].res = o[2]
  <2>1. panel \in [Devices -> Panels] /\ slot \in [Devices -> [Slots -> SlotRec]]
    BY Types
  <2>2. /\ panel' \in [Devices -> Panels] /\ panel'[d] = o[1]
        /\ \A e \in Devices : e # d => panel'[e] = panel[e]
    BY <1>2, <1>3, <2>1
  <2>3. /\ slot' \in [Devices -> [Slots -> SlotRec]]
        /\ slot'[d][k].op = slot[d][k].op /\ slot'[d][k].res = o[2]
    BY <1>2, <1>3, <2>1 DEF SlotRec
  <2>4. \A e \in Devices, j \in Slots : e # d \/ j # k => slot'[e][j] = slot[e][j]
    BY <1>2, <2>1
  <2>5. QED
    BY <2>2, <2>3, <2>4
<1>5. call' = call
  BY DEF Acts
<1>6. slot'[d][k] # Free
  BY <1>1, <1>4, FreeFacts
<1>7. TvTypeOK'
  BY <1>4, <1>5, Types DEF TvTypeOK, CallRec, SlotRec
<1>8. \A e \in Devices, j \in Slots : slot'[e][j].op = slot[e][j].op
  BY <1>4
<1>9. OwnOps'
  <2>1. \A e \in Devices, j \in Slots : /\ slot'[e][j].op = "none" <=> slot'[e][j] = Free
                                        /\ slot'[e][j].res \in {"none"} \cup Gives(slot'[e][j].op)
    <3>1. TAKE e \in Devices, j \in Slots
    <3>2. CASE e = d /\ j = k
      BY <1>1, <1>3, <1>4, <1>6, <3>2
    <3>3. CASE e # d \/ j # k
      BY <1>4, <3>3 DEF IInv, OwnOps
    <3>4. QED
      BY <3>2, <3>3
  <2>2. QED
    BY <1>8, <2>1, Constants DEF IInv, OwnOps, SameOff
<1>10. Manned'
  <2>1. \A e \in Devices, j \in Slots : slot'[e][j] # Free => slot[e][j] # Free
    BY <1>1, <1>4
  <2>2. QED
    BY <1>5, <2>1 DEF IInv, Manned, Joined, Waiting, Calling
<1>11. Fails(d, k) \/ (panel'[d] = "lit" <=> k = "on")
  <2>1. slot[d][k].res = "none" /\ slot'[d][k].res # "none"
    BY <1>3, <1>4 DEF Acts, Results
  <2>2. QED
    BY <2>1, Constants DEF Fails
<1>12. QED
  BY <1>1, <1>4, <1>5, <1>6, <1>7, <1>8, <1>9, <1>10, <1>11

\* When an operation ends, those who await it are answered with its result.
LEMMA EndsFacts ==
  ASSUME IInv, NEW d \in Devices, NEW k \in Slots, Ends(d, k), conf' = conf
  PROVE  /\ TvTypeOK' /\ OwnOps' /\ Manned' /\ panel' = panel
         /\ slot[d][k].res # "none" /\ slot'[d][k] = Free /\ slot[d][k] # Free
         /\ \A e \in Devices, j \in Slots : e # d \/ j # k => slot'[e][j] = slot[e][j]
         /\ \A c \in Callers : /\ call'[c].to = call[c].to /\ call'[c].key = call[c].key
                               /\ Calling(c)' <=> Calling(c)
                               /\ Joined(c, d, k) => call'[c].res = slot[d][k].res
                               /\ ~Joined(c, d, k) => call'[c] = call[c]
<1>1. /\ slot[d][k].res # "none" /\ slot[d][k].res \in Results
      /\ slot' = [slot EXCEPT ![d][k] = Free] /\ panel' = panel
  <2>1. slot[d][k] \in SlotRec
    BY Types
  <2>2. QED
    BY <2>1 DEF Ends, SlotRec
<1> DEFINE r(c) == [call[c] EXCEPT !.res = slot[d][k].res]
<1>2. call' = [c \in Callers |-> IF Joined(c, d, k) THEN r(c) ELSE call[c]]
  BY DEF Ends
<1>3. \A c \in Callers : /\ r(c) \in CallRec /\ r(c).res = slot[d][k].res /\ r(c) # NotCalling
                         /\ r(c).to = call[c].to /\ r(c).key = call[c].key
  BY <1>1, Types DEF CallRec, NotCalling
<1> HIDE DEF r
<1>4. /\ call' \in [Callers -> CallRec]
      /\ \A c \in Callers : /\ call'[c].to = call[c].to /\ call'[c].key = call[c].key
                            /\ Calling(c)' <=> Calling(c)
                            /\ Joined(c, d, k) => call'[c].res = slot[d][k].res
                            /\ ~Joined(c, d, k) => call'[c] = call[c]
  BY <1>2, <1>3, Types DEF Calling, Joined, Waiting
<1>5. /\ slot' \in [Devices -> [Slots -> SlotRec]] /\ slot'[d][k] = Free
      /\ \A e \in Devices, j \in Slots : e # d \/ j # k => slot'[e][j] = slot[e][j]
  BY <1>1, Types, FreeFacts
<1>6. TvTypeOK'
  BY <1>1, <1>4, <1>5, Types DEF TvTypeOK, CallRec, SlotRec
<1>7. OwnOps'
  <2>1. ASSUME NEW e \in Devices, NEW j \in Slots
        PROVE  slot'[e][j] = slot[e][j] \/ slot'[e][j] = Free
    BY <1>5
  <2>2. QED
    BY <2>1, FreeFacts, Constants DEF IInv, OwnOps, SameOff
<1>8. Manned'
  <2>1. SUFFICES ASSUME NEW e \in Devices, NEW j \in Slots, slot'[e][j] # Free
                 PROVE  \E b \in Callers : Joined(b, e, j)'
    BY DEF Manned
  <2>2. (e # d \/ j # k) /\ slot[e][j] # Free
    BY <1>5, <2>1
  <2>3. PICK b \in Callers : Joined(b, e, j)
    BY <2>2 DEF IInv, Manned
  <2>4. ~Joined(b, d, k)
    BY <2>2, <2>3 DEF Joined
  <2>5. QED
    BY <1>4, <2>3, <2>4 DEF Joined, Waiting, Calling
<1>9. slot[d][k] # Free
  BY <1>1, FreeFacts
<1>10. QED
  BY <1>1, <1>4, <1>5, <1>6, <1>7, <1>8, <1>9

-----------------------------------------------------------------------------
(* Who works on what                                                       *)

\* What runs in a slot runs for a task, or for a wake-up, that works in its direction.
LEMMA WhoRuns ==
  ASSUME IInv, NEW d \in Devices, NEW k \in Slots, slot[d][k] # Free
  PROVE  /\ \/ \E h \in Handlers : /\ Calling(h) /\ Active(h) /\ Head(handler[h].todo) = d
                                   /\ IF k = "off" THEN Darkens(h) ELSE Lights(h)
            \/ k = "on" /\ \E w \in Wakers : waker[w].seen[d] = "called"
         /\ excuse = {} => Pending(d)
<1>1. PICK c \in Callers : Joined(c, d, k)
  BY DEF IInv, Manned
<1>2. Calling(c) /\ call[c].to = {d} /\ call[c].key = k
  BY <1>1 DEF Joined, Waiting
<1>3. CASE c \in Handlers
  <2>1. /\ call[c].to = {Head(handler[c].todo)} /\ call[c].key = SlotOf(OpOf(c)) /\ Active(c)
        /\ handler[c].todo # <<>>
    BY <1>2, <1>3, TaskFacts DEF IInv, Places
  <2>2. Head(handler[c].todo) = d
    BY <1>2, <2>1
  <2>3. IF k = "off" THEN Darkens(c) ELSE Lights(c)
    BY <1>2, <1>3, <2>1, TaskFacts
  <2>4. excuse = {} => Pending(d)
    BY <1>2, <1>3, <2>1, <2>2, TaskFacts DEF IInv, Asked, Pending
  <2>5. QED
    BY <1>2, <1>3, <2>1, <2>2, <2>3, <2>4
<1>4. CASE c \notin Handlers
  <2>1. PICK w \in Wakers, e \in Devices : c = <<w, e>>
    BY <1>4, Constants
  <2>2. call[<<w, e>>].to = {e} /\ call[<<w, e>>].key = "on" /\ waker[w].seen[e] = "called"
    BY <1>2, <2>1, WakeFacts DEF IInv, Places
  <2>3. e = d /\ k = "on"
    BY <1>2, <2>1, <2>2
  <2>4. QED
    BY <2>2, <2>3 DEF Pending
<1>5. QED
  BY <1>3, <1>4

\* What is called, or has been answered, is pending.
LEMMA WhoCalls ==
  ASSUME IInv, NEW h \in Handlers, Calling(h)
  PROVE  /\ Active(h) /\ Head(handler[h].todo) \in Devices
         /\ call[h].to = {Head(handler[h].todo)}
         /\ call[h].key = IF Lights(h) THEN "on" ELSE "off"
         /\ Lights(h) \/ Darkens(h)
BY TaskFacts DEF IInv, Places

\* While no tasks have crossed, only one of the two directions is at work.
LEMMA OneWay ==
  ASSUME IInv, "crossed" \notin excuse, NEW d \in Devices, NEW k \in Slots, slot[d][k] # Free
  PROVE  /\ \A e \in Devices, j \in Slots : slot[e][j] # Free => j = k
         /\ \A h \in Handlers : Lights(h) => k = "on"
         /\ \A h \in Handlers : Darkens(h) => k = "off"
         /\ \A w \in Wakers : Wakes(w) => k = "on"
<1>1. ASSUME NEW e \in Devices, NEW j \in Slots, slot[e][j] # Free
      PROVE  /\ j = "off" => \E h \in Handlers : Darkens(h)
             /\ j = "on" => (\E h \in Handlers : Lights(h)) \/ \E w \in Wakers : Wakes(w)
  BY <1>1, WhoRuns, WakeFacts
<1>2. (\E h \in Handlers : Darkens(h)) =>
        (\A h \in Handlers : ~Lights(h)) /\ (\A w \in Wakers : ~Wakes(w))
  BY DEF IInv, OneDirection
<1>3. k \in {"on", "off"}
  BY Constants
<1>4. QED
  BY <1>1, <1>2, <1>3, Constants

-----------------------------------------------------------------------------
(* The televisions' steps                                                  *)

LEMMA TvStepKeeps ==
  ASSUME IInv, TvStep
  PROVE  IInv'
<1>1. /\ UNCHANGED <<conf, streaming, touched, locked, handler, waker, wish, changed>>
      /\ excuse' = excuse \cup
           (IF \E d \in Devices, k \in Slots : Fails(d, k) THEN {"failure"} ELSE {})
  BY DEF TvStep, control
<1>2. /\ excuse' \subseteq {"crossed", "failure", "joined", "already dark"}
      /\ "crossed" \in excuse' <=> "crossed" \in excuse
      /\ "joined" \in excuse' <=> "joined" \in excuse
      /\ excuse' = {} => excuse = {} /\ ~\E d \in Devices, k \in Slots : Fails(d, k)
  BY <1>1, Types
<1>3. PICK d \in Devices, k \in Slots : Acts(d, k) \/ Ends(d, k)
  BY DEF TvStep, TvSteps
<1>4. OneWakeAtATime' /\ Configured' /\ Wakings'
  BY <1>1 DEF IInv, OneWakeAtATime, Configured, Wakings, Wakes, Active
<1>5. OneDirection' /\ OneEnd' /\ Remembered' /\ Tracked'
  BY <1>1, <1>2 DEF IInv, OneDirection, OneEnd, Remembered, Tracked, Darkens, Lights, EndsStream,
                    Wakes, Active, SameOff
<1>6. Wished'
  BY <1>1, <1>2 DEF IInv, Wished, Darkens, Lights, Active, Untouched
<1>7. ASSUME TvTypeOK', \A c \in Callers : Calling(c)' <=> Calling(c)
      PROVE  TypeOK' /\ Asked'
  <2>1. \A h \in Handlers : Calling(h)' <=> Calling(h)
    BY <1>7, Constants
  <2>2. \A w \in Wakers, e \in Devices : Calling(<<w, e>>)' <=> Calling(<<w, e>>)
    BY <1>7, Constants
  <2>3. TypeOK'
    BY <1>1, <1>2, <1>7, <2>1, <2>2 DEF IInv, TypeOK, Active
  <2>4. Asked'
    BY <1>1, <1>2, <2>1 DEF IInv, Asked, Untouched
  <2>5. QED
    BY <2>3, <2>4
<1>8. \A e \in Devices : Pending(e)' <=> Pending(e)
  BY <1>1 DEF Pending, Active, Untouched
<1>9. CASE Acts(d, k)
  <2>1. /\ TvTypeOK' /\ OwnOps' /\ Manned' /\ call' = call
        /\ slot[d][k] # Free /\ slot'[d][k] # Free
        /\ \A e \in Devices : e # d => panel'[e] = panel[e]
        /\ \A e \in Devices, j \in Slots : /\ e # d \/ j # k => slot'[e][j] = slot[e][j]
                                           /\ slot'[e][j].op = slot[e][j].op
        /\ Fails(d, k) \/ (panel'[d] = "lit" <=> k = "on")
    BY <1>1, <1>9, ActsFacts
  <2>2. TypeOK' /\ Asked'
    BY <1>7, <2>1 DEF Calling
  <2>3. Places' /\ Truthful'
    <3>1. Places'
      BY <1>1, <2>1 DEF IInv, Places, Calling, OpOf
    <3>2. Truthful'
      BY <1>1, <1>2, <2>1 DEF IInv, Truthful, Answered, SameOff
    <3>3. QED
      BY <3>1, <3>2
  <2>4. Matched'
    <3>1. SUFFICES ASSUME "joined" \notin excuse, NEW h \in Handlers, Waiting(h)
                   PROVE  slot'[Head(handler[h].todo)][SlotOf(OpOf(h))].op = OpOf(h)
      BY <1>1, <1>2, <2>1 DEF Matched, Waiting, Calling, OpOf
    <3>2. slot[Head(handler[h].todo)][SlotOf(OpOf(h))].op = OpOf(h)
      BY <3>1 DEF IInv, Matched
    <3>3. Head(handler[h].todo) \in Devices /\ SlotOf(OpOf(h)) \in Slots
      BY <3>1, WhoCalls, Constants DEF Waiting, SlotOf
    <3>4. QED
      BY <2>1, <3>2, <3>3
  <2>5. ASSUME excuse' = {}
        PROVE  (panel'[d] = "lit" <=> k = "on") /\ excuse = {} /\ "crossed" \notin excuse
    BY <1>2, <2>1, <2>5
  <2>6. Effective'
    <3>1. SUFFICES ASSUME excuse' = {} PROVE Effective'
      BY DEF Effective
    <3>2. \A e \in Devices : /\ slot'[e]["off"].res # "none" => panel'[e] # "lit"
                             /\ slot'[e]["on"].res # "none" => panel'[e] = "lit"
      <4>1. TAKE e \in Devices
      <4>2. CASE e # d
        BY <2>1, <2>5, <3>1, <4>2, Constants DEF IInv, Effective
      <4>3. CASE e = d
        <5>1. ASSUME NEW j \in Slots, slot'[d][j].res # "none"
              PROVE  j = k
          BY <2>1, <2>5, <3>1, <5>1, OneWay, FreeFacts
        <5>2. QED
          BY <2>5, <3>1, <4>3, <5>1, Constants
      <4>4. QED
        BY <4>2, <4>3
    <3>3. \A h \in Handlers : Answered(h)' => (panel'[Head(handler'[h].todo)] = "lit" <=> Lights(h)')
      <4>1. SUFFICES ASSUME NEW h \in Handlers, Answered(h)
                     PROVE  panel'[Head(handler[h].todo)] = "lit" <=> Lights(h)
        BY <1>1, <2>1 DEF Answered, Lights, Active
      <4>2. Calling(h)
        BY <4>1, FreeFacts DEF Answered, Calling
      <4>3. CASE Head(handler[h].todo) = d
        BY <2>1, <2>5, <3>1, <4>2, <4>3, WhoCalls, OneWay, TaskFacts
      <4>4. CASE Head(handler[h].todo) # d
        BY <2>1, <2>5, <3>1, <4>1, <4>2, <4>4, WhoCalls DEF IInv, Effective
      <4>5. QED
        BY <4>3, <4>4
    <3>4. \A w \in Wakers, e \in Devices : Answered(<<w, e>>)' => panel'[e] = "lit"
      <4>1. SUFFICES ASSUME NEW w \in Wakers, NEW e \in Devices, Answered(<<w, e>>)
                     PROVE  panel'[e] = "lit"
        BY <2>1 DEF Answered
      <4>2. Calling(<<w, e>>)
        BY <4>1, FreeFacts DEF Answered, Calling
      <4>3. Wakes(w)
        BY <4>2, WakeFacts
      <4>4. CASE e = d
        BY <2>1, <2>5, <3>1, <4>3, <4>4, OneWay
      <4>5. CASE e # d
        BY <2>1, <2>5, <3>1, <4>1, <4>5 DEF IInv, Effective
      <4>6. QED
        BY <4>4, <4>5
    <3>5. QED
      BY <3>2, <3>3, <3>4 DEF Effective
  <2>7. Agreed'
    <3>1. SUFFICES ASSUME excuse' = {}, NEW e \in Devices, ~Pending(e)
                   PROVE  panel'[e] = "lit" <=> wish'[e] = "lit"
      BY <1>8 DEF Agreed
    <3>2. e # d
      BY <2>1, <2>5, <3>1, WhoRuns
    <3>3. QED
      BY <1>1, <2>1, <2>5, <3>1, <3>2 DEF IInv, Agreed
  <2>8. QED
    BY <1>4, <1>5, <1>6, <2>1, <2>2, <2>3, <2>4, <2>6, <2>7 DEF IInv
<1>10. CASE Ends(d, k)
  <2>1. /\ TvTypeOK' /\ OwnOps' /\ Manned' /\ panel' = panel
        /\ slot[d][k].res # "none" /\ slot'[d][k] = Free /\ slot[d][k] # Free
        /\ \A e \in Devices, j \in Slots : e # d \/ j # k => slot'[e][j] = slot[e][j]
        /\ \A c \in Callers : /\ call'[c].to = call[c].to /\ call'[c].key = call[c].key
                              /\ Calling(c)' <=> Calling(c)
                              /\ Joined(c, d, k) => call'[c].res = slot[d][k].res
                              /\ ~Joined(c, d, k) => call'[c] = call[c]
    BY <1>1, <1>10, EndsFacts
  <2>2. TypeOK' /\ Asked'
    BY <1>7, <2>1
  <2>3. Places'
    BY <1>1, <2>1, Constants DEF IInv, Places, OpOf
  <2>4. ASSUME NEW h \in Handlers, Joined(h, d, k)
        PROVE  /\ Calling(h) /\ Active(h) /\ Head(handler[h].todo) = d
               /\ k = IF Lights(h) THEN "on" ELSE "off"
    BY <2>4, WhoCalls DEF Joined, Waiting
  <2>5. Matched'
    <3>1. SUFFICES ASSUME "joined" \notin excuse, NEW h \in Handlers, Waiting(h)'
                   PROVE  slot'[Head(handler[h].todo)][SlotOf(OpOf(h))].op = OpOf(h)
      BY <1>1, <1>2 DEF Matched, OpOf
    <3>2. ~Joined(h, d, k) /\ Waiting(h)
      BY <2>1, <3>1, Constants DEF Waiting, Calling
    <3>3. /\ Head(handler[h].todo) \in Devices /\ SlotOf(OpOf(h)) \in Slots
          /\ Head(handler[h].todo) # d \/ SlotOf(OpOf(h)) # k
      BY <3>2, WhoCalls, Constants DEF Waiting, SlotOf, Joined, IInv, Places
    <3>4. slot[Head(handler[h].todo)][SlotOf(OpOf(h))].op = OpOf(h)
      BY <3>1, <3>2 DEF IInv, Matched
    <3>5. QED
      BY <2>1, <3>3, <3>4
  <2>6. Truthful'
    <3>1. SUFFICES ASSUME "joined" \notin excuse \/ SameOff, NEW h \in Handlers,
                          Answered(h)', handler[h].kind = "connect"
                   PROVE  call'[h].res \in Gives(conf.connect)
      BY <1>1, <1>2 DEF Truthful, SameOff
    <3>2. CASE ~Joined(h, d, k)
      BY <2>1, <3>1, <3>2, Constants DEF IInv, Truthful, Answered
    <3>3. CASE Joined(h, d, k)
      <4>1. /\ Head(handler[h].todo) = d /\ k = "off" /\ SlotOf(OpOf(h)) = "off"
            /\ OpOf(h) = conf.connect /\ Waiting(h)
        BY <2>4, <3>1, <3>3, TaskFacts DEF Joined
      <4>2. slot[d][k].op = conf.connect
        BY <2>1, <3>1, <4>1 DEF IInv, Matched, OwnOps
      <4>3. slot[d][k].res \in Gives(conf.connect)
        BY <2>1, <4>2 DEF IInv, OwnOps
      <4>4. QED
        BY <2>1, <3>3, <4>3, Constants
    <3>4. QED
      BY <3>2, <3>3
  <2>7. Effective'
    <3>1. SUFFICES ASSUME excuse' = {} PROVE Effective'
      BY DEF Effective
    <3>2. /\ slot[d]["off"].res # "none" => panel[d] # "lit"
          /\ slot[d]["on"].res # "none" => panel[d] = "lit"
          /\ \A h \in Handlers : Answered(h) => (panel[Head(handler[h].todo)] = "lit" <=> Lights(h))
          /\ \A w \in Wakers, e \in Devices : Answered(<<w, e>>) => panel[e] = "lit"
      BY <1>2, <3>1 DEF IInv, Effective
    <3>3. \A e \in Devices : /\ slot'[e]["off"].res # "none" => panel'[e] # "lit"
                             /\ slot'[e]["on"].res # "none" => panel'[e] = "lit"
      <4>1. \A e \in Devices, j \in Slots : slot'[e][j].res # "none" => slot'[e][j] = slot[e][j]
        BY <2>1, FreeFacts
      <4>2. QED
        BY <1>2, <2>1, <3>1, <4>1, Constants DEF IInv, Effective
    <3>4. \A h \in Handlers : Answered(h)' => (panel'[Head(handler'[h].todo)] = "lit" <=> Lights(h)')
      <4>1. SUFFICES ASSUME NEW h \in Handlers, Answered(h)'
                     PROVE  panel[Head(handler[h].todo)] = "lit" <=> Lights(h)
        BY <1>1, <2>1 DEF Lights, Active
      <4>2. CASE Joined(h, d, k)
        BY <2>1, <2>4, <3>2, <4>2, Constants
      <4>3. CASE ~Joined(h, d, k)
        BY <2>1, <3>2, <4>1, <4>3, Constants DEF Answered
      <4>4. QED
        BY <4>2, <4>3
    <3>5. \A w \in Wakers, e \in Devices : Answered(<<w, e>>)' => panel'[e] = "lit"
      <4>1. SUFFICES ASSUME NEW w \in Wakers, NEW e \in Devices, Answered(<<w, e>>)'
                     PROVE  panel[e] = "lit"
        BY <2>1
      <4>2. CASE Joined(<<w, e>>, d, k)
        <5>1. e = d /\ k = "on"
          BY <4>2 DEF Joined, Waiting, IInv, Places
        <5>2. QED
          BY <2>1, <3>2, <5>1
      <4>3. CASE ~Joined(<<w, e>>, d, k)
        BY <2>1, <3>2, <4>1, <4>3, Constants DEF Answered
      <4>4. QED
        BY <4>2, <4>3
    <3>6. QED
      BY <3>3, <3>4, <3>5 DEF Effective
  <2>8. Agreed'
    BY <1>1, <1>2, <1>8, <2>1 DEF IInv, Agreed
  <2>9. QED
    BY <1>4, <1>5, <1>6, <2>1, <2>2, <2>3, <2>5, <2>6, <2>7, <2>8 DEF IInv
<1>11. QED
  BY <1>3, <1>9, <1>10

-----------------------------------------------------------------------------
(* The steps of a task that goes through the televisions                   *)

LEMMA SameControl ==
  ASSUME IInv, handler' \in [Handlers -> TaskRec], UNCHANGED <<conf, touched, waker>>,
         \A g \in Handlers : handler'[g].kind = handler[g].kind /\ handler'[g].todo = handler[g].todo,
         \A g \in Handlers : Active(g)' <=> Active(g)
  PROVE  /\ \A g \in Handlers : /\ OpOf(g)' = OpOf(g)
                                /\ Darkens(g)' <=> Darkens(g)
                                /\ Lights(g)' <=> Lights(g)
                                /\ EndsStream(g)' <=> EndsStream(g)
                                /\ \A d \in Devices : Untouched(g, d)' <=> Untouched(g, d)
         /\ \A d \in Devices : Pending(d)' <=> Pending(d)
<1>1. \A g \in Handlers : /\ OpOf(g)' = OpOf(g)
                          /\ Darkens(g)' <=> Darkens(g)
                          /\ Lights(g)' <=> Lights(g)
                          /\ EndsStream(g)' <=> EndsStream(g)
                          /\ \A d \in Devices : Untouched(g, d)' <=> Untouched(g, d)
  BY DEF OpOf, Darkens, Lights, EndsStream, Untouched
<1>2. \A d \in Devices : Pending(d)' <=> Pending(d)
  BY <1>1 DEF Pending
<1>3. QED
  BY <1>1, <1>2

LEMMA CallsNextKeeps ==
  ASSUME IInv, NEW h \in Handlers, CallsNext(h)
  PROVE  IInv'
<1> DEFINE d == Head(handler[h].todo)
           op == OpOf(h)
           b == (panel[d] = "lit")
<1>1. /\ Active(h) /\ ~Calling(h) /\ ~Untouched(h, d) /\ Calls(h, d, op)
      /\ handler' = [handler EXCEPT ![h].lit = b]
      /\ excuse' = excuse \cup (IF slot[d][SlotOf(op)].op \notin {"none", op} THEN {"joined"} ELSE {})
      /\ UNCHANGED <<conf, streaming, touched, locked, waker, wish, changed>>
  BY DEF CallsNext
<1>2. b \in BOOLEAN
  OBVIOUS
<1>3. /\ d \in Devices /\ op \in {"power_on", "blank", "power_off"} /\ SlotOf(op) \in Slots
      /\ SlotOf(op) = IF Lights(h) THEN "on" ELSE "off"
      /\ SameOff /\ op # "power_on" => op = conf.connect
  BY <1>1, TaskFacts, Constants
<1> HIDE DEF d, op, b
<1>4. /\ TvTypeOK' /\ OwnOps' /\ Manned' /\ panel' = panel
      /\ call'[h].to = {d} /\ call'[h].key = SlotOf(op) /\ call'[h].res = "none" /\ Calling(h)'
      /\ \A c \in Callers \ {h} : call'[c] = call[c]
      /\ \A e \in Devices, k \in Slots :
           /\ slot'[e][k].res = slot[e][k].res
           /\ slot[e][k].op # "none" => slot'[e][k].op = slot[e][k].op
      /\ slot'[d][SlotOf(op)].op = IF slot[d][SlotOf(op)].op = "none" THEN op
                                   ELSE slot[d][SlotOf(op)].op
  BY <1>1, <1>3, CallsFacts, Constants
<1>5. /\ excuse' \subseteq {"crossed", "failure", "joined", "already dark"} /\ excuse \subseteq excuse'
      /\ "crossed" \in excuse' <=> "crossed" \in excuse
      /\ "joined" \notin excuse' => slot[d][SlotOf(op)].op \in {"none", op}
  BY <1>1, Types
<1>6. /\ handler' \in [Handlers -> TaskRec]
      /\ \A g \in Handlers : handler'[g].kind = handler[g].kind /\ handler'[g].todo = handler[g].todo
      /\ \A g \in Handlers \ {h} : handler'[g] = handler[g]
  BY <1>1, <1>2, Types DEF TaskRec
<1>7. \A g \in Handlers : Active(g)' <=> Active(g)
  <2>1. handler[h].kind # "none"
    BY <1>1, TaskFacts
  <2>2. handler'[h].kind # NoTask.kind
    BY <1>6, <2>1, FreeFacts
  <2>3. Active(h)'
    BY <2>2 DEF Active
  <2>4. QED
    BY <1>1, <1>6, <2>3 DEF Active
<1>8. /\ \A g \in Handlers : /\ OpOf(g)' = OpOf(g)
                             /\ Darkens(g)' <=> Darkens(g)
                             /\ Lights(g)' <=> Lights(g)
                             /\ EndsStream(g)' <=> EndsStream(g)
                             /\ \A e \in Devices : Untouched(g, e)' <=> Untouched(g, e)
      /\ \A e \in Devices : Pending(e)' <=> Pending(e)
  BY <1>1, <1>6, <1>7, SameControl
<1>9. \A g \in Handlers : g # h => (Calling(g)' <=> Calling(g)) /\ call'[g] = call[g]
  BY <1>4, Constants DEF Calling
<1>10. \A w \in Wakers, e \in Devices :
         (Calling(<<w, e>>)' <=> Calling(<<w, e>>)) /\ call'[<<w, e>>] = call[<<w, e>>]
  BY <1>4, Constants DEF Calling
<1>11. TypeOK'
  <2>1. \A g \in Handlers : (Active(g)' <=> handler'[g].todo # <<>>) /\ (Calling(g)' => Active(g)')
    BY <1>1, <1>6, <1>7, <1>9, TaskFacts
  <2>2. \A w \in Wakers, e \in Devices : Calling(<<w, e>>)' <=> waker'[w].seen[e] = "called"
    BY <1>1, <1>10, WakeFacts
  <2>3. QED
    BY <1>1, <1>4, <1>5, <1>6, <2>1, <2>2, Types DEF TypeOK, TaskRec, IInv
<1>12. OneWakeAtATime' /\ Configured' /\ Wakings'
  BY <1>1, <1>6, <1>7 DEF IInv, OneWakeAtATime, Configured, Wakings, Wakes
<1>13. Places'
  BY <1>3, <1>4, <1>6, <1>8, <1>9, <1>10 DEF IInv, Places, d, op
<1>14. Matched'
  <2>1. SUFFICES ASSUME "joined" \notin excuse', NEW g \in Handlers, Waiting(g)'
                 PROVE  slot'[Head(handler[g].todo)][SlotOf(OpOf(g))].op = OpOf(g)
    BY <1>6, <1>8 DEF Matched
  <2>2. CASE g = h
    BY <1>3, <1>4, <1>5, <2>1, <2>2 DEF d, op
  <2>3. CASE g # h
    <3>1. Waiting(g) /\ Active(g) /\ OpOf(g) # "none"
      BY <1>9, <2>1, <2>3, TaskFacts DEF Waiting
    <3>2. Head(handler[g].todo) \in Devices /\ SlotOf(OpOf(g)) \in Slots
      BY <3>1, TaskFacts, Constants DEF SlotOf
    <3>3. slot[Head(handler[g].todo)][SlotOf(OpOf(g))].op = OpOf(g)
      BY <1>5, <2>1, <3>1 DEF IInv, Matched
    <3>4. QED
      BY <1>4, <3>1, <3>2, <3>3
  <2>4. QED
    BY <2>2, <2>3
<1>15. Truthful'
  BY <1>1, <1>4, <1>5, <1>6, <1>9 DEF IInv, Truthful, Answered, SameOff
<1>16. OneDirection' /\ OneEnd' /\ Remembered' /\ Tracked'
  BY <1>1, <1>5, <1>8 DEF IInv, OneDirection, OneEnd, Remembered, Tracked, Wakes, SameOff
<1>17. Effective'
  <2>1. SUFFICES ASSUME excuse' = {} PROVE Effective'
    BY DEF Effective
  <2>2. excuse = {}
    BY <1>5, <2>1
  <2>3. \A e \in Devices : /\ slot'[e]["off"].res # "none" => panel'[e] # "lit"
                           /\ slot'[e]["on"].res # "none" => panel'[e] = "lit"
    BY <1>4, <2>2, Constants DEF IInv, Effective
  <2>4. \A g \in Handlers : Answered(g)' => (panel'[Head(handler'[g].todo)] = "lit" <=> Lights(g)')
    BY <1>4, <1>6, <1>8, <1>9, <2>2 DEF IInv, Effective, Answered
  <2>5. \A w \in Wakers, e \in Devices : Answered(<<w, e>>)' => panel'[e] = "lit"
    BY <1>4, <1>10, <2>2 DEF IInv, Effective, Answered
  <2>6. QED
    BY <2>3, <2>4, <2>5 DEF Effective
<1>18. Wished'
  BY <1>1, <1>5, <1>8 DEF IInv, Wished
<1>19. Asked'
  <2>1. SUFFICES ASSUME excuse' = {}, NEW g \in Handlers, Calling(g)'
                 PROVE  ~Untouched(g, Head(handler[g].todo))
    <3>1. \A g \in Handlers : Active(g) => Head(handler[g].todo) \in Devices
      BY TaskFacts
    <3>2. \A g \in Handlers : Calling(g)' => Active(g)
      BY <1>1, <1>9, TaskFacts
    <3>3. QED
      BY <1>6, <1>8, <3>1, <3>2 DEF Asked
  <2>2. QED
    BY <1>1, <1>5, <1>9, <2>1 DEF IInv, Asked, d
<1>20. Agreed'
  BY <1>1, <1>4, <1>5, <1>8 DEF IInv, Agreed
<1>21. QED
  BY <1>4, <1>11, <1>12, <1>13, <1>14, <1>15, <1>16, <1>17, <1>18, <1>19, <1>20 DEF IInv

\* A task goes on to the next television, or ends.
LEMMA AdvanceFacts ==
  ASSUME IInv, NEW h \in Handlers, Active(h), NEW t \in SUBSET Devices, Advances(h, t),
         t = touched \/ Darkens(h), UNCHANGED <<conf, streaming, waker, wish>>,
         excuse \subseteq excuse', "crossed" \in excuse' <=> "crossed" \in excuse
  PROVE  /\ handler' \in [Handlers -> TaskRec]
         /\ \A g \in Handlers \ {h} : handler'[g] = handler[g] /\ (Active(g)' <=> Active(g))
         /\ \A g \in Handlers : /\ Active(g)' <=> handler'[g].todo # <<>>
                                /\ Darkens(g)' => Darkens(g)
                                /\ Lights(g)' => Lights(g)
                                /\ Active(g)' => Active(g) /\ OpOf(g)' = OpOf(g)
         /\ touched' \subseteq Devices /\ (~EndsStream(h) => touched' = t)
         /\ "crossed" \notin excuse => \A g \in Handlers, d \in Devices :
              Active(g)' => (Untouched(g, d)' <=> Untouched(g, d))
         /\ "crossed" \notin excuse => \A d \in Devices :
              ~Pending(d)' => ~Pending(d) \/ (d = Head(handler[h].todo) /\ ~Untouched(h, d))
         /\ Configured' /\ Wakings' /\ OneWakeAtATime' /\ OneDirection' /\ OneEnd' /\ Wished'
<1> DEFINE rest == Tail(handler[h].todo)
           task == [handler[h] EXCEPT !.todo = rest]
<1>1. /\ handler' = [handler EXCEPT ![h] = IF rest = <<>> THEN NoTask ELSE task]
      /\ touched' = IF rest = <<>> /\ handler[h].kind = "disconnect" THEN {} ELSE t
  BY DEF Advances
<1>2. /\ handler[h] \in TaskRec /\ rest \in Seq(Devices) /\ handler[h].kind # "none"
      /\ \A d : Has(handler[h].todo, d) <=> d = Head(handler[h].todo) \/ Has(rest, d)
  BY TaskFacts
<1>3. task \in TaskRec /\ task.kind = handler[h].kind /\ task.todo = rest
  BY <1>2 DEF TaskRec
<1> HIDE DEF rest, task
<1>4. /\ handler' \in [Handlers -> TaskRec]
      /\ \A g \in Handlers \ {h} : handler'[g] = handler[g]
      /\ handler'[h] = IF rest = <<>> THEN NoTask ELSE task
  BY <1>1, <1>3, Types, FreeFacts
<1>5. /\ \A g \in Handlers \ {h} : Active(g)' <=> Active(g)
      /\ Active(h)' <=> rest # <<>>
  BY <1>2, <1>3, <1>4, FreeFacts DEF Active
<1>6. \A g \in Handlers :
        Active(g)' => Active(g) /\ handler'[g].kind = handler[g].kind /\ OpOf(g)' = OpOf(g)
  <2>1. \A g \in Handlers : Active(g)' => Active(g) /\ handler'[g].kind = handler[g].kind
    BY <1>3, <1>4, <1>5
  <2>2. QED
    BY <2>1 DEF OpOf
<1>7. \A g \in Handlers : /\ Active(g)' <=> handler'[g].todo # <<>>
                          /\ Darkens(g)' => Darkens(g)
                          /\ Lights(g)' => Lights(g)
                          /\ EndsStream(g)' => EndsStream(g)
  <2>1. \A g \in Handlers : Active(g)' <=> handler'[g].todo # <<>>
    BY <1>3, <1>4, <1>5, FreeFacts, TaskFacts
  <2>2. QED
    BY <1>6, <2>1 DEF Darkens, Lights, EndsStream
<1>8. touched' \subseteq Devices /\ (~EndsStream(h) => touched' = t)
  BY <1>1 DEF EndsStream
<1>9. OneDirection' /\ OneEnd'
  BY <1>7 DEF IInv, OneDirection, OneEnd, Wakes
<1>10. ASSUME "crossed" \notin excuse, NEW g \in Handlers, NEW d \in Devices, Active(g)'
       PROVE  Untouched(g, d)' <=> Untouched(g, d)
  <2>1. handler'[g].kind = handler[g].kind /\ Active(g)
    BY <1>6, <1>10
  <2>2. CASE handler[g].kind # "disconnect"
    BY <2>1, <2>2 DEF Untouched
  <2>3. CASE handler[g].kind = "disconnect"
    <3>1. EndsStream(g) /\ Lights(g)
      BY <2>1, <2>3, TaskFacts DEF EndsStream
    <3>2. ~Darkens(h)
      BY <1>10, <3>1 DEF IInv, OneDirection
    <3>3. EndsStream(h) => g = h
      BY <1>10, <3>1 DEF IInv, OneEnd
    <3>4. touched' = touched
      BY <1>1, <1>5, <1>10, <3>2, <3>3 DEF EndsStream
    <3>5. QED
      BY <2>1, <3>4 DEF Untouched
  <2>4. QED
    BY <2>2, <2>3
<1>11. ASSUME "crossed" \notin excuse, NEW d \in Devices, ~Pending(d)', Pending(d)
       PROVE  d = Head(handler[h].todo) /\ ~Untouched(h, d)
  <2>1. PICK g \in Handlers : Active(g) /\ Has(handler[g].todo, d) /\ ~Untouched(g, d)
    BY <1>11 DEF Pending
  <2>2. ~(Active(g)' /\ Has(handler'[g].todo, d) /\ ~Untouched(g, d)')
    BY <1>11 DEF Pending
  <2>3. g = h
    BY <1>4, <1>5, <1>10, <1>11, <2>1, <2>2
  <2>4. ~Has(rest, d)
    <3>1. CASE rest = <<>>
      BY <3>1 DEF Has
    <3>2. CASE rest # <<>>
      BY <1>3, <1>4, <1>5, <1>10, <1>11, <2>1, <2>2, <2>3, <3>2
    <3>3. QED
      BY <3>1, <3>2
  <2>5. QED
    BY <1>2, <2>1, <2>3, <2>4
<1>12. Configured' /\ Wakings' /\ OneWakeAtATime'
  BY <1>6 DEF IInv, Configured, Wakings, OneWakeAtATime, Wakes
<1>13. Wished'
  <2>1. SUFFICES ASSUME excuse' = {} PROVE Wished'
    BY DEF Wished
  <2>2. excuse = {} /\ "crossed" \notin excuse
    BY <2>1
  <2>3. \A g \in Handlers, d \in Devices :
          Lights(g)' /\ ~Untouched(g, d)' => Lights(g) /\ ~Untouched(g, d)
    BY <1>7, <1>10, <2>2 DEF Lights
  <2>4. QED
    BY <1>7, <2>2, <2>3 DEF IInv, Wished
<1>14. QED
  BY <1>4, <1>5, <1>6, <1>7, <1>8, <1>9, <1>10, <1>11, <1>12, <1>13

LEMMA SkipsUntouchedKeeps ==
  ASSUME IInv, NEW h \in Handlers, SkipsUntouched(h)
  PROVE  IInv'
<1> DEFINE d == Head(handler[h].todo)
<1>1. /\ Active(h) /\ ~Calling(h) /\ Untouched(h, d) /\ Advances(h, touched)
      /\ UNCHANGED <<panel, slot, call, conf, streaming, locked, waker, wish, changed, excuse>>
  BY DEF SkipsUntouched, tvVars, history
<1>2. EndsStream(h) /\ Lights(h)
  BY <1>1, TaskFacts DEF Untouched, EndsStream
<1>3. /\ handler' \in [Handlers -> TaskRec]
      /\ \A g \in Handlers \ {h} : handler'[g] = handler[g] /\ (Active(g)' <=> Active(g))
      /\ \A g \in Handlers : /\ Active(g)' <=> handler'[g].todo # <<>>
                             /\ Darkens(g)' => Darkens(g)
                             /\ Lights(g)' => Lights(g)
                             /\ Active(g)' => Active(g) /\ OpOf(g)' = OpOf(g)
      /\ touched' \subseteq Devices
      /\ "crossed" \notin excuse => \A g \in Handlers, e \in Devices :
           Active(g)' => (Untouched(g, e)' <=> Untouched(g, e))
      /\ "crossed" \notin excuse => \A e \in Devices :
           ~Pending(e)' => ~Pending(e) \/ (e = d /\ ~Untouched(h, e))
      /\ Configured' /\ Wakings' /\ OneWakeAtATime' /\ OneDirection' /\ OneEnd' /\ Wished'
  BY <1>1, Types, AdvanceFacts
<1> HIDE DEF d
<1>4. \A g \in Handlers : Calling(g)' => g # h /\ Calling(g) /\ Active(g) /\ Active(g)'
                                         /\ handler'[g] = handler[g] /\ OpOf(g)' = OpOf(g)
  BY <1>1, <1>3, TaskFacts DEF Calling
<1>5. \A g \in Handlers : Answered(g)' \/ Waiting(g)' => Calling(g)'
  BY <1>1, FreeFacts DEF Answered, Waiting, Calling
<1>6. TypeOK'
  <2>1. TvTypeOK'
    BY <1>1, Types DEF TvTypeOK
  <2>2. \A w \in Wakers, e \in Devices : Calling(<<w, e>>)' <=> waker'[w].seen[e] = "called"
    BY <1>1, WakeFacts DEF Calling
  <2>3. QED
    BY <1>1, <1>3, <1>4, <2>1, <2>2, Types DEF TypeOK, TaskRec, IInv
<1>7. Places' /\ Manned' /\ OwnOps'
  <2>1. Places'
    <3>1. \A g \in Handlers : Calling(g)' =>
            call'[g].to = {Head(handler'[g].todo)} /\ call'[g].key = SlotOf(OpOf(g)')
      BY <1>1, <1>4 DEF IInv, Places
    <3>2. \A w \in Wakers, e \in Devices : Calling(<<w, e>>)' =>
            call'[<<w, e>>].to = {e} /\ call'[<<w, e>>].key = "on"
      BY <1>1 DEF IInv, Places, Calling
    <3>3. QED
      BY <3>1, <3>2 DEF Places
  <2>2. Manned' /\ OwnOps'
    BY <1>1 DEF IInv, Manned, OwnOps, Joined, Waiting, Calling, SameOff
  <2>3. QED
    BY <2>1, <2>2
<1>8. Matched'
  <2>1. SUFFICES ASSUME "joined" \notin excuse, NEW g \in Handlers, Waiting(g)'
                 PROVE  slot[Head(handler'[g].todo)][SlotOf(OpOf(g)')].op = OpOf(g)'
    BY <1>1 DEF Matched
  <2>2. Waiting(g) /\ handler'[g] = handler[g] /\ OpOf(g)' = OpOf(g)
    BY <1>1, <1>4, <1>5, <2>1 DEF Waiting
  <2>3. QED
    BY <2>1, <2>2 DEF IInv, Matched
<1>9. Truthful'
  BY <1>1, <1>4, <1>5 DEF IInv, Truthful, Answered, SameOff
<1>10. Remembered' /\ Tracked'
  BY <1>1, <1>2 DEF IInv, OneEnd, Remembered, Tracked
<1>11. Effective'
  <2>1. SUFFICES ASSUME excuse = {} PROVE Effective'
    BY <1>1 DEF Effective
  <2>2. \A g \in Handlers : Answered(g)' => (panel'[Head(handler'[g].todo)] = "lit" <=> Lights(g)')
    <3>1. SUFFICES ASSUME NEW g \in Handlers, Answered(g)'
                   PROVE  panel[Head(handler'[g].todo)] = "lit" <=> Lights(g)'
      BY <1>1
    <3>2. /\ Answered(g) /\ handler'[g] = handler[g] /\ (Lights(g)' <=> Lights(g))
      BY <1>1, <1>4, <1>5, <3>1 DEF Answered, Lights
    <3>3. QED
      BY <2>1, <3>2 DEF IInv, Effective
  <2>3. QED
    BY <1>1, <2>1, <2>2 DEF IInv, Effective, Answered
<1>12. Asked'
  <2>1. SUFFICES ASSUME excuse = {}, NEW g \in Handlers, Calling(g)'
                 PROVE  ~Untouched(g, Head(handler[g].todo))' 
    BY <1>1, <1>4 DEF Asked
  <2>2. Head(handler[g].todo) \in Devices /\ ~Untouched(g, Head(handler[g].todo))
    BY <1>4, <2>1, TaskFacts DEF IInv, Asked
  <2>3. handler'[g] = handler[g]
    BY <1>4, <2>1
  <2>4. QED
    BY <1>3, <1>4, <2>1, <2>2, <2>3
<1>13. Agreed'
  BY <1>1, <1>3 DEF IInv, Agreed
<1>14. QED
  BY <1>3, <1>6, <1>7, <1>8, <1>9, <1>10, <1>11, <1>12, <1>13 DEF IInv

\* The results that count as a change, and those that mean that one was made.
LEMMA ResultFacts ==
  ASSUME NEW op \in {"blank", "power_off"}, NEW r \in Gives(op)
  PROVE  r \in {"off", "blanked"} <=> r = Changing(op)
BY DEF Gives, Changing

LEMMA TakesAnswerKeeps ==
  ASSUME IInv, NEW h \in Handlers, TakesAnswer(h)
  PROVE  IInv'
<1> DEFINE d == Head(handler[h].todo)
           r == call[h].res
           stream == handler[h].kind = "connect"
<1>1. /\ Answered(h) /\ Returns(h) /\ Advances(h, Touches(h))
      /\ changed' = IF stream /\ r \in {"off", "blanked"} /\ handler[h].lit
                    THEN changed \cup {d} ELSE changed
      /\ excuse' = excuse \cup
           (IF stream /\ r = Changing(OpOf(h)) /\ ~handler[h].lit THEN {"already dark"} ELSE {})
      /\ Touches(h) = IF stream /\ r = Changing(OpOf(h)) THEN touched \cup {d} ELSE touched
      /\ UNCHANGED <<conf, streaming, locked, waker, wish>>
  BY DEF TakesAnswer, Touches
<1>2. /\ Calling(h) /\ Active(h) /\ d \in Devices
      /\ Darkens(h) \/ Lights(h)
      /\ stream => Darkens(h) /\ OpOf(h) = conf.connect /\ OpOf(h) \in {"blank", "power_off"}
  BY <1>1, TaskFacts, FreeFacts DEF Answered, Calling
<1>3. /\ TvTypeOK' /\ OwnOps' /\ Manned' /\ UNCHANGED <<panel, slot>>
      /\ ~Calling(h)' /\ ~Answered(h)' /\ \A b \in Callers \ {h} : call'[b] = call[b]
  BY <1>1, ReturnsFacts, Constants
<1>4. /\ excuse' \subseteq {"crossed", "failure", "joined", "already dark"} /\ excuse \subseteq excuse'
      /\ "crossed" \in excuse' <=> "crossed" \in excuse
      /\ "joined" \in excuse' <=> "joined" \in excuse
      /\ excuse' = {} => excuse = {} /\ (stream /\ r = Changing(OpOf(h)) => handler[h].lit)
  BY <1>1, Types
<1>5. Touches(h) \subseteq Devices /\ (Touches(h) = touched \/ Darkens(h))
  BY <1>1, <1>2, Types
<1>6. /\ handler' \in [Handlers -> TaskRec]
      /\ \A g \in Handlers \ {h} : handler'[g] = handler[g] /\ (Active(g)' <=> Active(g))
      /\ \A g \in Handlers : /\ Active(g)' <=> handler'[g].todo # <<>>
                             /\ Darkens(g)' => Darkens(g)
                             /\ Lights(g)' => Lights(g)
                             /\ Active(g)' => Active(g) /\ OpOf(g)' = OpOf(g)
      /\ touched' \subseteq Devices /\ (~EndsStream(h) => touched' = Touches(h))
      /\ "crossed" \notin excuse => \A g \in Handlers, e \in Devices :
           Active(g)' => (Untouched(g, e)' <=> Untouched(g, e))
      /\ "crossed" \notin excuse => \A e \in Devices :
           ~Pending(e)' => ~Pending(e) \/ (e = d /\ ~Untouched(h, e))
      /\ Configured' /\ Wakings' /\ OneWakeAtATime' /\ OneDirection' /\ OneEnd' /\ Wished'
  BY <1>1, <1>2, <1>4, <1>5, AdvanceFacts
<1> HIDE DEF d, r, stream
<1>7. /\ \A g \in Handlers : Calling(g)' => g # h /\ Calling(g) /\ Active(g) /\ Active(g)'
      /\ \A g \in Handlers : g # h => /\ handler'[g] = handler[g] /\ call'[g] = call[g]
                                      /\ Calling(g)' <=> Calling(g)
                                      /\ Active(g)' => OpOf(g)' = OpOf(g)
  BY <1>3, <1>6, TaskFacts, Constants DEF Calling
<1>8. \A w \in Wakers, e \in Devices :
        call'[<<w, e>>] = call[<<w, e>>] /\ (Calling(<<w, e>>)' <=> Calling(<<w, e>>))
  BY <1>3, Constants DEF Calling
<1>9. \A g \in Handlers : Answered(g)' \/ Waiting(g)' => Calling(g)'
  BY <1>3, FreeFacts DEF Answered, Waiting, Calling
<1>10. TypeOK'
  <2>1. \A w \in Wakers, e \in Devices : Calling(<<w, e>>)' <=> waker'[w].seen[e] = "called"
    <3>1. waker' = waker
      BY <1>1
    <3>2. QED
      BY <1>8, <3>1, WakeFacts
  <2>2. changed' \subseteq Devices
    <3>1. changed' = changed \/ changed' = changed \cup {d}
      BY <1>1
    <3>2. QED
      BY <1>2, <3>1, Types
  <2>3. QED
    BY <1>1, <1>3, <1>4, <1>6, <1>7, <2>1, <2>2, Types DEF TypeOK, TaskRec, IInv
<1>11. Places'
  <2>1. \A g \in Handlers : Calling(g)' =>
          call'[g].to = {Head(handler'[g].todo)} /\ call'[g].key = SlotOf(OpOf(g)')
    BY <1>7 DEF IInv, Places
  <2>2. \A w \in Wakers, e \in Devices : Calling(<<w, e>>) =>
          call[<<w, e>>].to = {e} /\ call[<<w, e>>].key = "on"
    BY DEF IInv, Places
  <2>3. \A w \in Wakers, e \in Devices : Calling(<<w, e>>)' =>
          call'[<<w, e>>].to = {e} /\ call'[<<w, e>>].key = "on"
    BY <1>8, <2>2 DEF Calling
  <2>4. QED
    BY <2>1, <2>3 DEF Places
<1>12. Matched'
  <2>1. SUFFICES ASSUME "joined" \notin excuse, NEW g \in Handlers, Waiting(g)'
                 PROVE  slot[Head(handler'[g].todo)][SlotOf(OpOf(g)')].op = OpOf(g)'
    BY <1>3, <1>4 DEF Matched
  <2>2. Waiting(g) /\ handler'[g] = handler[g] /\ OpOf(g)' = OpOf(g)
    BY <1>7, <1>9, <2>1 DEF Waiting
  <2>3. QED
    BY <2>1, <2>2 DEF IInv, Matched
<1>13. Truthful'
  BY <1>1, <1>4, <1>7, <1>9 DEF IInv, Truthful, Answered, SameOff
<1>14. ASSUME stream, "joined" \notin excuse \/ SameOff
       PROVE  r \in {"off", "blanked"} <=> r = Changing(OpOf(h))
  <2>1. r \in Gives(conf.connect)
    BY <1>1, <1>14 DEF IInv, Truthful, stream, r
  <2>2. QED
    BY <1>2, <1>14, <2>1, ResultFacts
<1>15. ASSUME "crossed" \notin excuse, streaming
       PROVE  touched' = Touches(h)
  BY <1>6, <1>15 DEF IInv, OneEnd
<1>16. Remembered'
  <2>1. SUFFICES ASSUME "crossed" \notin excuse, streaming, SameOff
                 PROVE  changed' \subseteq touched'
    BY <1>1, <1>4 DEF Remembered, SameOff
  <2>2. changed \subseteq touched /\ touched' = Touches(h)
    BY <1>15, <2>1 DEF IInv, Remembered
  <2>3. QED
    BY <1>1, <1>14, <2>1, <2>2
<1>17. Tracked'
  <2>1. SUFFICES ASSUME excuse' = {}, streaming
                 PROVE  touched' = changed'
    BY <1>1 DEF Tracked
  <2>2. excuse = {} /\ touched = changed /\ touched' = Touches(h)
    BY <1>4, <1>15, <2>1 DEF IInv, Tracked
  <2>3. QED
    BY <1>1, <1>4, <1>14, <2>1, <2>2
<1>18. Effective'
  <2>1. SUFFICES ASSUME excuse = {} PROVE Effective'
    BY <1>4 DEF Effective
  <2>2. \A g \in Handlers : Answered(g)' => (panel'[Head(handler'[g].todo)] = "lit" <=> Lights(g)')
    <3>1. SUFFICES ASSUME NEW g \in Handlers, Answered(g)'
                   PROVE  panel[Head(handler'[g].todo)] = "lit" <=> Lights(g)'
      BY <1>3
    <3>2. /\ Answered(g) /\ handler'[g] = handler[g] /\ (Lights(g)' <=> Lights(g))
      BY <1>7, <1>9, <3>1 DEF Answered, Lights
    <3>3. QED
      BY <2>1, <3>2 DEF IInv, Effective
  <2>3. \A w \in Wakers, e \in Devices : Answered(<<w, e>>)' => panel'[e] = "lit"
    BY <1>3, <1>8, <2>1 DEF IInv, Effective, Answered
  <2>4. QED
    BY <1>3, <2>1, <2>2, <2>3 DEF IInv, Effective
<1>19. Asked'
  <2>1. SUFFICES ASSUME excuse = {}, NEW g \in Handlers, Calling(g)'
                 PROVE  ~Untouched(g, Head(handler[g].todo))'
    BY <1>4, <1>7 DEF Asked
  <2>2. Head(handler[g].todo) \in Devices /\ ~Untouched(g, Head(handler[g].todo))
    BY <1>7, <2>1, TaskFacts DEF IInv, Asked
  <2>3. handler'[g] = handler[g]
    BY <1>7, <2>1
  <2>4. QED
    BY <1>6, <1>7, <2>1, <2>2, <2>3
<1>20. Agreed'
  <2>1. SUFFICES ASSUME excuse' = {}, NEW e \in Devices, ~Pending(e)'
                 PROVE  panel[e] = "lit" <=> wish[e] = "lit"
    BY <1>1, <1>3 DEF Agreed
  <2>2. excuse = {} /\ "crossed" \notin excuse
    BY <1>4, <2>1
  <2>3. CASE ~Pending(e)
    BY <2>2, <2>3 DEF IInv, Agreed
  <2>4. CASE e = d /\ ~Untouched(h, e)
    <3>1. panel[e] = "lit" <=> Lights(h)
      BY <1>1, <2>2, <2>4 DEF IInv, Effective, d
    <3>2. (Darkens(h) => wish[e] = "dark") /\ (Lights(h) => wish[e] = "lit")
      BY <2>2, <2>4 DEF IInv, Wished
    <3>3. QED
      BY <1>2, <3>1, <3>2, TaskFacts
  <2>5. QED
    BY <1>6, <2>1, <2>2, <2>3, <2>4
<1>21. QED
  BY <1>3, <1>6, <1>10, <1>11, <1>12, <1>13, <1>16, <1>17, <1>18, <1>19, <1>20 DEF IInv

-----------------------------------------------------------------------------
(* Events                                                                  *)

LEMMA QuietFacts ==
  ASSUME IInv, Quiet
  PROVE  /\ \A h \in Handlers : ~Active(h)
         /\ \A w \in Wakers : ~Wakes(w) /\ \A d \in Devices : waker[w].seen[d] = "none"
         /\ \A d \in Devices, k \in Slots : slot[d][k] = Free
         /\ \A c \in Callers : ~Calling(c)
         /\ \A d \in Devices : ~Pending(d)
<1>1. /\ \A h \in Handlers : ~Active(h)
      /\ \A w \in Wakers : ~Wakes(w)
      /\ \A d \in Devices, k \in Slots : slot[d][k] = Free
  BY DEF Quiet, Settled, busy
<1>2. \A w \in Wakers, d \in Devices : waker[w].seen[d] = "none"
  BY <1>1, WakeFacts
<1>3. \A c \in Callers : ~Calling(c)
  <2>1. \A h \in Handlers : ~Calling(h)
    BY <1>1, TaskFacts
  <2>2. \A w \in Wakers, d \in Devices : ~Calling(<<w, d>>)
    BY <1>2, WakeFacts
  <2>3. QED
    BY <2>1, <2>2, Constants
<1>4. \A d \in Devices : ~Pending(d)
  BY <1>1, <1>2 DEF Pending
<1>5. QED
  BY <1>1, <1>2, <1>3, <1>4

\* What an event does not touch: those who call, and what they are answered.
LEMMA CallersKept ==
  ASSUME IInv, UNCHANGED <<panel, slot, call, conf>>,
         \A g \in Handlers : Active(g) => handler'[g] = handler[g],
         "joined" \notin excuse' => "joined" \notin excuse \/ Quiet,
         excuse' = {} => excuse = {} \/ Quiet,
         excuse' = {} => \A g \in Handlers, e \in Devices :
           Active(g) => (Untouched(g, e)' <=> Untouched(g, e))
  PROVE  /\ TvTypeOK' /\ Places' /\ OwnOps' /\ Manned' /\ Matched' /\ Truthful' /\ Effective' /\ Asked'
         /\ \A c \in Callers : Calling(c)' <=> Calling(c)
<1>1. \A c \in Callers : /\ Calling(c)' <=> Calling(c)
                         /\ Answered(c)' <=> Answered(c)
                         /\ Waiting(c)' <=> Waiting(c)
                         /\ Answered(c) \/ Waiting(c) => Calling(c)
  BY FreeFacts DEF Calling, Answered, Waiting
<1>2. \A g \in Handlers : g \in Callers /\ (Calling(g) => Active(g))
  BY TaskFacts, Constants
<1>3. \A g \in Handlers : Calling(g) => /\ OpOf(g)' = OpOf(g) /\ handler'[g] = handler[g]
                                        /\ Lights(g)' <=> Lights(g)
  BY <1>2 DEF OpOf, Lights, Active
<1>4. TvTypeOK' /\ OwnOps' /\ Manned'
  <2>1. TvTypeOK'
    BY Types DEF TvTypeOK
  <2>2. OwnOps'
    BY DEF IInv, OwnOps, SameOff
  <2>3. Manned'
    BY DEF IInv, Manned, Joined, Waiting, Calling
  <2>4. QED
    BY <2>1, <2>2, <2>3
<1>5. Places'
  <2>1. \A g \in Handlers : Calling(g)' =>
          call'[g].to = {Head(handler'[g].todo)} /\ call'[g].key = SlotOf(OpOf(g)')
    BY <1>1, <1>2, <1>3 DEF IInv, Places
  <2>2. \A w \in Wakers, e \in Devices : Calling(<<w, e>>)' =>
          call'[<<w, e>>].to = {e} /\ call'[<<w, e>>].key = "on"
    BY DEF IInv, Places, Calling
  <2>3. QED
    BY <2>1, <2>2 DEF Places
<1>6. Quiet => \A c \in Callers : ~Calling(c)
  BY QuietFacts
<1>7. Matched'
  <2>1. SUFFICES ASSUME "joined" \notin excuse', NEW g \in Handlers, Waiting(g)'
                 PROVE  slot[Head(handler'[g].todo)][SlotOf(OpOf(g)')].op = OpOf(g)'
    BY DEF Matched
  <2>2. Waiting(g) /\ handler'[g] = handler[g] /\ OpOf(g)' = OpOf(g) /\ "joined" \notin excuse
    BY <1>1, <1>2, <1>3, <1>6, <2>1
  <2>3. QED
    BY <2>2 DEF IInv, Matched
<1>8. Truthful'
  <2>1. SUFFICES ASSUME "joined" \notin excuse' \/ SameOff, NEW g \in Handlers, Answered(g)',
                        handler'[g].kind = "connect"
                 PROVE  call[g].res \in Gives(conf.connect)
    BY DEF Truthful, SameOff
  <2>2. Answered(g) /\ handler'[g] = handler[g] /\ ("joined" \notin excuse \/ SameOff)
    BY <1>1, <1>2, <1>3, <1>6, <2>1
  <2>3. QED
    BY <2>1, <2>2 DEF IInv, Truthful
<1>9. Effective'
  <2>1. SUFFICES ASSUME excuse' = {} PROVE Effective'
    BY DEF Effective
  <2>2. CASE Quiet
    <3>1. \A d \in Devices, k \in Slots : slot'[d][k].res = "none"
      BY <2>2, QuietFacts, FreeFacts
    <3>2. \A c \in Callers : ~Answered(c)'
      BY <1>1, <2>2, QuietFacts
    <3>3. QED
      BY <3>1, <3>2, Constants DEF Effective
  <2>3. CASE excuse = {}
    <3>1. \A g \in Handlers : Answered(g)' => (panel'[Head(handler'[g].todo)] = "lit" <=> Lights(g)')
      BY <1>1, <1>2, <1>3, <2>3 DEF IInv, Effective
    <3>2. QED
      BY <2>3, <3>1 DEF IInv, Effective, Answered
  <2>4. QED
    BY <2>1, <2>2, <2>3
<1>10. Asked'
  <2>1. SUFFICES ASSUME excuse' = {}, NEW g \in Handlers, Calling(g)
                 PROVE  ~Untouched(g, Head(handler[g].todo))'
    BY <1>1, <1>2, <1>3 DEF Asked
  <2>2. excuse = {} /\ Active(g) /\ Head(handler[g].todo) \in Devices
    BY <1>2, <1>6, <2>1, TaskFacts
  <2>3. ~Untouched(g, Head(handler[g].todo))
    BY <2>1, <2>2 DEF IInv, Asked
  <2>4. handler'[g] = handler[g]
    BY <2>2
  <2>5. QED
    BY <2>1, <2>2, <2>3, <2>4
<1>11. QED
  BY <1>1, <1>4, <1>5, <1>7, <1>8, <1>9, <1>10

\* Where nothing runs in the other direction.
LEMMA OpposedFacts ==
  ASSUME IInv, NEW kind \in Darkening \cup Lighting, ~Opposed(kind)
  PROVE  /\ kind \in Darkening => /\ \A h \in Handlers : ~Lights(h)
                                  /\ \A w \in Wakers : ~Wakes(w)
         /\ kind \in Lighting => \A h \in Handlers : ~Darkens(h)
BY DEF Opposed, Lights, Darkens, Darkening, Lighting

\* A decision starts afresh when all is quiet, and else adds to what was decided.
LEMMA DecidesFacts ==
  ASSUME IInv, NEW kind \in Darkening \cup Lighting, NEW ds \in SUBSET Devices,
         NEW p \in {"lit", "dark"}, Decides(kind, ds, p)
  PROVE  /\ wish' \in [Devices -> {"lit", "dark"}]
         /\ excuse' \subseteq {"crossed", "failure", "joined", "already dark"}
         /\ "crossed" \notin excuse' => ~Opposed(kind) /\ (Fresh \/ "crossed" \notin excuse)
         /\ "joined" \notin excuse' => Fresh \/ "joined" \notin excuse
         /\ excuse' = {} => (Fresh \/ excuse = {}) /\ "crossed" \notin excuse'
         /\ Fresh => Quiet /\ (streaming => touched = changed)
         /\ \A d \in ds : wish'[d] = p
         /\ ~Fresh => \A d \in Devices \ ds : wish'[d] = wish[d]
         /\ excuse' = {} => \A d \in Devices \ ds :
              ~Pending(d) => (panel[d] = "lit" <=> wish'[d] = "lit")
<1>1. /\ wish' = [d \in Devices |-> IF d \in ds THEN p ELSE IF Fresh THEN Lit(d) ELSE wish[d]]
      /\ excuse' = (IF Fresh THEN {} ELSE excuse) \cup (IF Opposed(kind) THEN {"crossed"} ELSE {})
  BY DEF Decides
<1>2. wish' \in [Devices -> {"lit", "dark"}]
  BY <1>1, Types DEF Lit
<1>3. /\ excuse' \subseteq {"crossed", "failure", "joined", "already dark"}
      /\ "crossed" \notin excuse' => ~Opposed(kind) /\ (Fresh \/ "crossed" \notin excuse)
      /\ "joined" \notin excuse' => Fresh \/ "joined" \notin excuse
      /\ excuse' = {} => (Fresh \/ excuse = {}) /\ "crossed" \notin excuse'
  BY <1>1, Types
<1>4. Fresh => Quiet /\ (streaming => touched = changed)
  BY DEF Fresh
<1>5. /\ \A d \in ds : wish'[d] = p
      /\ ~Fresh => \A d \in Devices \ ds : wish'[d] = wish[d]
  BY <1>1
<1>6. ASSUME excuse' = {}, NEW d \in Devices \ ds, ~Pending(d)
      PROVE  panel[d] = "lit" <=> wish'[d] = "lit"
  <2>1. CASE Fresh
    BY <1>1, <2>1 DEF Lit
  <2>2. CASE ~Fresh
    BY <1>3, <1>5, <1>6, <2>2 DEF IInv, Agreed
  <2>3. QED
    BY <2>1, <2>2
<1>7. QED
  BY <1>2, <1>3, <1>4, <1>5, <1>6

\* An event that starts a task: what was decided, and what the task will do, agree.
LEMMA SpawnKeeps ==
  ASSUME IInv, NEW h \in Handlers, ~Active(h), UNCHANGED <<panel, slot, call, conf, waker>>,
         NEW kind \in {"connect", "disconnect", "lock", "unlock"}, NEW ds \in SUBSET Devices,
         Spawns(h, kind, ds), locked' \in BOOLEAN,
         kind \in {"connect", "disconnect"} => conf.connect # "none",
         kind = "lock" => conf.lock # "none",
         kind = "connect" => streaming' = TRUE /\ touched' = {} /\ changed' = {},
         kind = "disconnect" => /\ streaming = TRUE /\ streaming' = FALSE
                                /\ touched' = touched /\ changed' = {}
                                /\ ds = IF conf.disconnect = "restore" THEN changed ELSE Devices,
         kind # "disconnect" => ds = Devices,
         kind \in {"lock", "unlock"} => UNCHANGED <<streaming, touched, changed>>
  PROVE  IInv'
<1> DEFINE task == [kind |-> kind, todo |-> Order, lit |-> FALSE]
<1>1. /\ kind \in Darkening \cup Lighting /\ ~(kind \in Darkening /\ kind \in Lighting)
      /\ kind \in Darkening <=> kind \in {"connect", "lock"}
      /\ kind \in Lighting <=> kind \in {"disconnect", "unlock"}
      /\ task \in TaskRec /\ task # NoTask /\ task.kind = kind /\ task.todo = Order
  BY Constants, FreeFacts DEF TaskRec, NoTask, Darkening, Lighting
<1>2. PICK p \in {"lit", "dark"} : /\ handler' = [handler EXCEPT ![h] = task] /\ Decides(kind, ds, p)
                                   /\ kind \in Darkening => p = "dark"
                                   /\ kind \in Lighting => p = "lit"
  BY <1>1 DEF Spawns
<1> HIDE DEF task
<1>3. /\ handler' \in [Handlers -> TaskRec] /\ handler'[h] = task
      /\ \A g \in Handlers \ {h} : handler'[g] = handler[g]
  BY <1>1, <1>2, Types
<1>4. /\ Active(h)' /\ handler'[h].kind = kind /\ handler'[h].todo = Order
      /\ Darkens(h)' <=> kind \in Darkening
      /\ Lights(h)' <=> kind \in Lighting
      /\ EndsStream(h)' <=> kind = "disconnect"
  BY <1>1, <1>2, <1>3 DEF Active, Darkens, Lights, EndsStream
<1>5. \A g \in Handlers \ {h} : /\ Active(g)' <=> Active(g)
                                /\ Darkens(g)' <=> Darkens(g)
                                /\ Lights(g)' <=> Lights(g)
                                /\ EndsStream(g)' <=> EndsStream(g)
  BY <1>3 DEF Active, Darkens, Lights, EndsStream
<1>6. /\ wish' \in [Devices -> {"lit", "dark"}]
      /\ excuse' \subseteq {"crossed", "failure", "joined", "already dark"}
      /\ "crossed" \notin excuse' => ~Opposed(kind) /\ (Fresh \/ "crossed" \notin excuse)
      /\ "joined" \notin excuse' => Fresh \/ "joined" \notin excuse
      /\ excuse' = {} => (Fresh \/ excuse = {}) /\ "crossed" \notin excuse'
      /\ Fresh => Quiet /\ (streaming => touched = changed)
      /\ \A d \in ds : wish'[d] = p
      /\ ~Fresh => \A d \in Devices \ ds : wish'[d] = wish[d]
      /\ excuse' = {} => \A d \in Devices \ ds :
              ~Pending(d) => (panel[d] = "lit" <=> wish'[d] = "lit")
  <2>1. /\ kind \in Darkening \cup Lighting /\ ds \in SUBSET Devices
        /\ p \in {"lit", "dark"} /\ Decides(kind, ds, p)
    BY <1>1, <1>2
  <2>2. /\ \A d \in ds : wish'[d] = p
        /\ ~Fresh => \A d \in Devices \ ds : wish'[d] = wish[d]
    BY <2>1 DEF Decides
  <2>3. excuse' = {} => \A d \in Devices \ ds :
              ~Pending(d) => (panel[d] = "lit" <=> wish'[d] = "lit")
    BY <2>1, DecidesFacts
  <2>4. /\ wish' \in [Devices -> {"lit", "dark"}]
        /\ excuse' \subseteq {"crossed", "failure", "joined", "already dark"}
    BY <2>1, DecidesFacts
  <2>5. /\ "crossed" \notin excuse' => ~Opposed(kind) /\ (Fresh \/ "crossed" \notin excuse)
        /\ "joined" \notin excuse' => Fresh \/ "joined" \notin excuse
        /\ excuse' = {} => (Fresh \/ excuse = {}) /\ "crossed" \notin excuse'
        /\ Fresh => Quiet /\ (streaming => touched = changed)
    BY <2>1, DecidesFacts
  <2>6. QED
    BY <2>2, <2>3, <2>4, <2>5
<1>7. "crossed" \notin excuse' =>
        /\ kind \in Darkening => /\ \A g \in Handlers : ~Lights(g)
                                 /\ \A w \in Wakers : ~Wakes(w)
        /\ kind \in Lighting => \A g \in Handlers : ~Darkens(g)
  BY <1>1, <1>2, <1>6, OpposedFacts
<1>8. /\ \A g \in Handlers : Active(g) \/ Darkens(g) \/ Lights(g) \/ EndsStream(g) => ~Fresh /\ g # h
      /\ \A w \in Wakers : Wakes(w) => ~Fresh
      /\ \A g \in Handlers : EndsStream(g) => Lights(g)
  BY <1>6, QuietFacts, TaskFacts DEF Darkens, Lights, EndsStream
<1>9. "crossed" \notin excuse' =>
        \A g \in Handlers, e \in Devices : Active(g) => (Untouched(g, e)' <=> Untouched(g, e))
  <2>1. SUFFICES ASSUME "crossed" \notin excuse', NEW g \in Handlers, NEW e \in Devices, Active(g)
                 PROVE  Untouched(g, e)' <=> Untouched(g, e)
    OBVIOUS
  <2>2. g # h /\ handler'[g] = handler[g]
    BY <1>3, <2>1
  <2>3. CASE kind = "connect"
    BY <1>1, <1>2, <1>7, <1>8, <2>1, <2>2, <2>3 DEF Untouched, EndsStream
  <2>4. CASE kind # "connect"
    BY <2>2, <2>4 DEF Untouched
  <2>5. QED
    BY <2>3, <2>4
<1>10. /\ TvTypeOK' /\ Places' /\ OwnOps' /\ Manned' /\ Matched' /\ Truthful' /\ Effective' /\ Asked'
       /\ \A c \in Callers : Calling(c)' <=> Calling(c)
  <2>1. \A g \in Handlers : Active(g) => handler'[g] = handler[g]
    BY <1>3
  <2>2. "joined" \notin excuse' => "joined" \notin excuse \/ Quiet
    BY <1>6
  <2>3. excuse' = {} => excuse = {} \/ Quiet
    BY <1>6
  <2>4. excuse' = {} => \A g \in Handlers, e \in Devices :
           Active(g) => (Untouched(g, e)' <=> Untouched(g, e))
    BY <1>6, <1>9
  <2>5. QED
    BY <2>1, <2>2, <2>3, <2>4, CallersKept
<1>11. TypeOK'
  <2>1. \A g \in Handlers : /\ Active(g)' <=> handler'[g].todo # <<>>
                            /\ Calling(g)' => Active(g)'
    <3>1. TAKE g \in Handlers
    <3>2. CASE g = h
      BY <1>4, <3>2, Constants
    <3>3. CASE g # h
      BY <1>3, <1>5, <1>10, <3>3, TaskFacts, Constants
    <3>4. QED
      BY <3>2, <3>3
  <2>2. \A w \in Wakers, e \in Devices : Calling(<<w, e>>)' <=> waker'[w].seen[e] = "called"
    <3>1. waker' = waker
      OBVIOUS
    <3>2. QED
      BY <1>10, <3>1, WakeFacts, Constants
  <2>3. streaming' \in BOOLEAN /\ touched' \subseteq Devices /\ changed' \subseteq Devices
    BY Types
  <2>4. QED
    BY <1>3, <1>6, <1>10, <2>1, <2>2, <2>3, Types DEF TypeOK, TaskRec, IInv
<1>12. OneWakeAtATime' /\ Wakings'
  BY DEF IInv, OneWakeAtATime, Wakings, Wakes
<1>13. Configured'
  <2>1. \A g \in Handlers \ {h} : Active(g)' =>
          \/ handler'[g].kind \in {"connect", "disconnect"} /\ conf'.connect # "none"
          \/ handler'[g].kind = "lock" /\ conf'.lock # "none"
          \/ handler'[g].kind = "unlock"
    BY <1>3, <1>5 DEF IInv, Configured
  <2>2. QED
    BY <1>4, <2>1 DEF Configured
<1>14. OneDirection'
  <2>1. SUFFICES ASSUME "crossed" \notin excuse', NEW f \in Handlers, Darkens(f)'
                 PROVE  (\A g \in Handlers : ~Lights(g)') /\ (\A w \in Wakers : ~Wakes(w))
    BY DEF OneDirection, Wakes
  <2>2. kind \in Darkening
    BY <1>1, <1>2, <1>4, <1>5, <1>7, <2>1
  <2>3. QED
    BY <1>1, <1>2, <1>4, <1>5, <1>7, <2>1, <2>2
<1>15. OneEnd'
  <2>1. SUFFICES ASSUME "crossed" \notin excuse', NEW f \in Handlers, EndsStream(f)'
                 PROVE  ~streaming' /\ \A g \in Handlers : EndsStream(g)' => g = f
    BY DEF OneEnd
  <2>2. kind \in {"disconnect", "unlock"}
    BY <1>1, <1>2, <1>4, <1>5, <1>7, <1>8, <2>1
  <2>3. \A g \in Handlers : EndsStream(g) =>
          ~streaming /\ \A e \in Handlers : EndsStream(e) => e = g
    BY <1>6, <1>8, <2>1 DEF IInv, OneEnd
  <2>4. CASE kind = "disconnect"
    BY <1>5, <2>1, <2>3, <2>4
  <2>5. CASE kind = "unlock"
    BY <1>4, <1>5, <2>1, <2>3, <2>5
  <2>6. QED
    BY <2>2, <2>4, <2>5
<1>16. Remembered'
  <2>1. SUFFICES ASSUME "crossed" \notin excuse', streaming', SameOff
                 PROVE  changed' \subseteq touched'
    BY DEF Remembered, SameOff
  <2>2. CASE kind \in {"lock", "unlock"}
    <3>1. UNCHANGED <<streaming, touched, changed>>
      BY <2>2
    <3>2. CASE Fresh
      BY <1>6, <2>1, <3>1, <3>2
    <3>3. CASE ~Fresh
      BY <1>6, <2>1, <3>1, <3>3 DEF IInv, Remembered
    <3>4. QED
      BY <3>2, <3>3
  <2>3. QED
    BY <2>1, <2>2
<1>17. excuse' = {} /\ streaming => touched = changed
  BY <1>6 DEF IInv, Tracked
<1>18. Tracked'
  <2>1. SUFFICES ASSUME excuse' = {}, streaming' PROVE touched' = changed'
    BY DEF Tracked
  <2>2. QED
    BY <1>17, <2>1
<1>19. ASSUME excuse' = {}, NEW d \in Devices, d \notin ds
       PROVE  kind = "disconnect" /\ Untouched(h, d)'
  <2>1. kind = "disconnect" /\ conf.disconnect = "restore" /\ ds = changed
    BY <1>19
  <2>2. touched' = changed
    BY <1>17, <1>19, <2>1
  <2>3. QED
    BY <1>4, <1>19, <2>1, <2>2 DEF Untouched
<1>20. Wished'
  <2>1. SUFFICES ASSUME excuse' = {}, NEW d \in Devices
                 PROVE  /\ \A g \in Handlers : /\ Darkens(g)' => wish'[d] = "dark"
                                               /\ Lights(g)' /\ ~Untouched(g, d)' => wish'[d] = "lit"
                        /\ \A w \in Wakers : waker[w].seen[d] = "called" => wish'[d] = "lit"
    BY DEF Wished
  <2>2. "crossed" \notin excuse'
    BY <2>1
  <2>3. ASSUME NEW g \in Handlers, Darkens(g)'
        PROVE  wish'[d] = "dark"
    <3>1. kind \in Darkening
      BY <1>1, <1>2, <1>4, <1>5, <1>7, <2>2, <2>3
    <3>2. QED
      BY <1>1, <1>2, <1>6, <3>1
  <2>4. ASSUME ~Fresh, kind \in Lighting, wish[d] = "lit"
        PROVE  wish'[d] = "lit"
    BY <1>1, <1>2, <1>6, <2>4
  <2>5. ASSUME NEW g \in Handlers, Lights(g)', ~Untouched(g, d)'
        PROVE  wish'[d] = "lit"
    <3>1. kind \in Lighting
      BY <1>1, <1>2, <1>4, <1>5, <1>7, <2>2, <2>5
    <3>2. CASE g = h
      BY <1>1, <1>2, <1>6, <1>19, <2>1, <2>5, <3>1, <3>2
    <3>3. CASE g # h
      <4>1. Lights(g) /\ Active(g)
        BY <1>5, <2>5, <3>3 DEF Lights
      <4>2. ~Fresh /\ excuse = {} /\ ~Untouched(g, d)
        BY <1>6, <1>8, <1>9, <2>1, <2>2, <2>5, <4>1
      <4>3. QED
        BY <2>4, <3>1, <4>1, <4>2 DEF IInv, Wished
    <3>4. QED
      BY <3>2, <3>3
  <2>6. ASSUME NEW w \in Wakers, waker[w].seen[d] = "called"
        PROVE  wish'[d] = "lit"
    <3>1. Wakes(w)
      BY <2>6, WakeFacts
    <3>2. kind \in Lighting /\ ~Fresh /\ excuse = {}
      BY <1>1, <1>2, <1>6, <1>7, <1>8, <2>1, <2>2, <3>1
    <3>3. QED
      BY <2>4, <2>6, <3>2 DEF IInv, Wished
  <2>7. QED
    BY <2>3, <2>5, <2>6
<1>21. Agreed'
  <2>1. SUFFICES ASSUME excuse' = {}, NEW d \in Devices, ~Pending(d)'
                 PROVE  panel[d] = "lit" <=> wish'[d] = "lit"
    BY DEF Agreed
  <2>2. Untouched(h, d)'
    BY <1>4, <2>1, Constants DEF Pending
  <2>3. kind = "disconnect" /\ conf.disconnect = "restore" /\ d \notin touched
    BY <1>4, <2>2 DEF Untouched
  <2>4. d \notin ds
    BY <1>17, <2>1, <2>3
  <2>5. ~Pending(d)
    <3>1. ~\E w \in Wakers : waker[w].seen[d] = "called"
      BY <2>1 DEF Pending
    <3>2. ASSUME NEW g \in Handlers, Active(g), Has(handler[g].todo, d), ~Untouched(g, d)
          PROVE  FALSE
      <4>1. handler'[g] = handler[g] /\ Active(g)' /\ ~Untouched(g, d)'
        BY <1>3, <1>5, <1>6, <1>9, <2>1, <3>2
      <4>2. QED
        BY <2>1, <3>2, <4>1 DEF Pending
    <3>3. QED
      BY <3>1, <3>2 DEF Pending
  <2>6. QED
    BY <1>6, <2>1, <2>4, <2>5
<1>22. QED
  BY <1>10, <1>11, <1>12, <1>13, <1>14, <1>15, <1>16, <1>18, <1>20, <1>21 DEF IInv

\* An event that no reaction is configured for.
LEMMA PlainKeeps ==
  ASSUME IInv, UNCHANGED <<panel, slot, call, conf, handler, waker, wish, excuse>>,
         locked' \in BOOLEAN,
         \/ streaming' = TRUE /\ touched' = {} /\ changed' = {} /\ conf.connect = "none"
         \/ streaming' = FALSE /\ touched' = touched /\ changed' = {}
         \/ UNCHANGED <<streaming, touched, changed>>
  PROVE  IInv'
<1>1. conf.connect = "none" => \A g \in Handlers : handler[g].kind # "disconnect"
  BY TaskFacts DEF IInv, Configured
<1>2. \A g \in Handlers, d \in Devices : Untouched(g, d)' <=> Untouched(g, d)
  <2>1. CASE conf.connect = "none"
    BY <1>1, <2>1 DEF Untouched
  <2>2. CASE touched' = touched
    BY <2>2 DEF Untouched
  <2>3. QED
    BY <2>1, <2>2
<1>3. /\ \A g \in Handlers : /\ Active(g)' <=> Active(g)
                             /\ Darkens(g)' <=> Darkens(g)
                             /\ Lights(g)' <=> Lights(g)
                             /\ EndsStream(g)' <=> EndsStream(g)
                             /\ OpOf(g)' = OpOf(g)
      /\ \A w \in Wakers : Wakes(w)' <=> Wakes(w)
      /\ \A c \in Callers : Calling(c)' <=> Calling(c)
      /\ SameOff' <=> SameOff
  BY DEF Active, Darkens, Lights, EndsStream, OpOf, Wakes, Calling, SameOff
<1>4. \A d \in Devices : Pending(d)' <=> Pending(d)
  BY <1>2, <1>3 DEF Pending
<1>5. /\ TvTypeOK' /\ Places' /\ OwnOps' /\ Manned' /\ Matched' /\ Truthful' /\ Effective' /\ Asked'
      /\ \A c \in Callers : Calling(c)' <=> Calling(c)
  <2>1. \A g \in Handlers : Active(g) => handler'[g] = handler[g]
    OBVIOUS
  <2>2. "joined" \notin excuse' => "joined" \notin excuse \/ Quiet
    OBVIOUS
  <2>3. excuse' = {} => excuse = {} \/ Quiet
    OBVIOUS
  <2>4. excuse' = {} => \A g \in Handlers, e \in Devices :
           Active(g) => (Untouched(g, e)' <=> Untouched(g, e))
    BY <1>2
  <2>5. QED
    BY <2>1, <2>2, <2>3, <2>4, CallersKept
<1>6. streaming' \in BOOLEAN /\ touched' \subseteq Devices /\ changed' \subseteq Devices
  BY Types
<1>7. TypeOK'
  <2>1. \A g \in Handlers : /\ Active(g)' <=> handler'[g].todo # <<>>
                            /\ Calling(g)' => Active(g)'
    BY <1>3, TaskFacts, Constants
  <2>2. \A w \in Wakers, e \in Devices : Calling(<<w, e>>)' <=> waker'[w].seen[e] = "called"
    <3>1. waker' = waker
      OBVIOUS
    <3>2. QED
      BY <1>3, <3>1, WakeFacts, Constants
  <2>3. QED
    BY <1>5, <1>6, <2>1, <2>2, Types DEF TypeOK, TaskRec, IInv
<1>8. OneWakeAtATime' /\ Wakings' /\ Configured' /\ OneDirection'
  <2>1. OneWakeAtATime' /\ Wakings'
    BY <1>3 DEF IInv, OneWakeAtATime, Wakings
  <2>2. Configured'
    BY <1>3 DEF IInv, Configured
  <2>3. OneDirection'
    BY <1>3 DEF IInv, OneDirection
  <2>4. QED
    BY <2>1, <2>2, <2>3
<1>9. OneEnd'
  <2>1. conf.connect = "none" => \A g \in Handlers : ~EndsStream(g)
    BY <1>1 DEF EndsStream
  <2>2. QED
    BY <1>3, <2>1 DEF IInv, OneEnd
<1>10. Remembered' /\ Tracked'
  BY <1>3 DEF IInv, Remembered, Tracked
<1>11. Wished' /\ Agreed'
  <2>1. Wished'
    BY <1>2, <1>3 DEF IInv, Wished
  <2>2. Agreed'
    BY <1>4 DEF IInv, Agreed
  <2>3. QED
    BY <2>1, <2>2
<1>12. QED
  BY <1>5, <1>7, <1>8, <1>9, <1>10, <1>11 DEF IInv

LEMMA StreamConnectsKeeps ==
  ASSUME IInv, NEW h \in Handlers, StreamConnects(h)
  PROVE  IInv'
<1>1. /\ ~Active(h) /\ streaming' = TRUE /\ touched' = {} /\ changed' = {}
      /\ UNCHANGED <<panel, slot, call, conf, waker>> /\ locked' = locked
  BY DEF StreamConnects, tvVars
<1>2. locked' \in BOOLEAN
  BY <1>1, Types
<1>3. CASE conf.connect = "none"
  <2>1. UNCHANGED <<handler, wish, excuse>>
    BY <1>3 DEF StreamConnects
  <2>2. QED
    BY <1>1, <1>2, <1>3, <2>1, PlainKeeps
<1>4. CASE conf.connect # "none"
  <2>1. Spawns(h, "connect", Devices)
    BY <1>4 DEF StreamConnects
  <2>2. QED
    BY <1>1, <1>2, <1>4, <2>1, SpawnKeeps
<1>5. QED
  BY <1>3, <1>4

LEMMA StreamDisconnectsKeeps ==
  ASSUME IInv, NEW h \in Handlers, StreamDisconnects(h)
  PROVE  IInv'
<1>1. /\ ~Active(h) /\ streaming = TRUE /\ streaming' = FALSE /\ touched' = touched /\ changed' = {}
      /\ UNCHANGED <<panel, slot, call, conf, waker>> /\ locked' = locked
  BY Types DEF StreamDisconnects, tvVars
<1>2. locked' \in BOOLEAN
  BY <1>1, Types
<1>3. CASE conf.connect = "none" \/ conf.disconnect = "keep_off"
  <2>1. UNCHANGED <<handler, wish, excuse>>
    BY <1>3 DEF StreamDisconnects
  <2>2. QED
    BY <1>1, <1>2, <2>1, PlainKeeps
<1>4. CASE ~(conf.connect = "none" \/ conf.disconnect = "keep_off")
  <2>1. PICK ds \in SUBSET Devices : /\ ds = IF conf.disconnect = "restore" THEN changed ELSE Devices
                                     /\ Spawns(h, "disconnect", ds)
    BY <1>4, Types DEF StreamDisconnects
  <2>2. QED
    BY <1>1, <1>2, <1>4, <2>1, SpawnKeeps
<1>5. QED
  BY <1>3, <1>4

LEMMA LockChangesKeeps ==
  ASSUME IInv, NEW h \in Handlers, LockChanges(h)
  PROVE  IInv'
<1>1. /\ ~Active(h) /\ locked' \in BOOLEAN
      /\ UNCHANGED <<panel, slot, call, conf, waker, streaming, touched, changed>>
  BY Types DEF LockChanges, tvVars
<1>2. CASE (IF locked' THEN conf.lock ELSE conf.unlock) = "none"
  <2>1. UNCHANGED <<handler, wish, excuse>>
    BY <1>2 DEF LockChanges
  <2>2. QED
    BY <1>1, <2>1, PlainKeeps
<1>3. CASE (IF locked' THEN conf.lock ELSE conf.unlock) # "none"
  <2>1. PICK kind \in {"lock", "unlock"} : /\ Spawns(h, kind, Devices)
                                           /\ kind = "lock" => conf.lock # "none"
    BY <1>3 DEF LockChanges
  <2>2. QED
    BY <1>1, <2>1, SpawnKeeps
<1>4. QED
  BY <1>2, <1>3

-----------------------------------------------------------------------------
(* The steps of a wake-up                                                  *)

\* A wake-up that moves on, or begins, without a call or an answer.
LEMMA WakerMoves ==
  ASSUME IInv, NEW w \in Wakers,
         UNCHANGED <<panel, slot, call, conf, streaming, touched, locked, handler, changed>>,
         waker' \in [Wakers -> WakeRec], \A v \in Wakers \ {w} : waker'[v] = waker[v],
         \A d \in Devices : waker'[w].seen[d] = "called" <=> waker[w].seen[d] = "called",
         waker'[w].at # "probing" => \A d \in Devices : waker'[w].seen[d] = "none",
         Wakes(w)' => Wakes(w) \/ ~conf.cooldown \/ \A v \in Wakers : ~Wakes(v),
         wish' \in [Devices -> {"lit", "dark"}],
         excuse' \subseteq {"crossed", "failure", "joined", "already dark"},
         "joined" \notin excuse' => "joined" \notin excuse \/ Fresh,
         "crossed" \notin excuse' => "crossed" \notin excuse \/ Fresh,
         "crossed" \notin excuse' /\ Wakes(w)' => Wakes(w) \/ \A g \in Handlers : ~Darkens(g),
         excuse' = {} => excuse = {} \/ Fresh,
         excuse' = {} => \A d \in Devices :
           /\ ~Pending(d) => (panel[d] = "lit" <=> wish'[d] = "lit")
           /\ wish'[d] = wish[d] \/ Fresh
  PROVE  IInv'
<1>1. Fresh => Quiet /\ (streaming => touched = changed)
  BY DEF Fresh
<1>2. /\ \A g \in Handlers : /\ Active(g)' <=> Active(g)
                             /\ Darkens(g)' <=> Darkens(g)
                             /\ Lights(g)' <=> Lights(g)
                             /\ EndsStream(g)' <=> EndsStream(g)
                             /\ OpOf(g)' = OpOf(g)
                             /\ \A d \in Devices : Untouched(g, d)' <=> Untouched(g, d)
      /\ \A v \in Wakers : v # w => (Wakes(v)' <=> Wakes(v))
      /\ \A c \in Callers : Calling(c)' <=> Calling(c)
      /\ SameOff' <=> SameOff
  BY DEF Active, Darkens, Lights, EndsStream, OpOf, Untouched, Wakes, Calling, SameOff
<1>3. \A v \in Wakers, d \in Devices : waker'[v].seen[d] = "called" <=> waker[v].seen[d] = "called"
  <2>1. TAKE v \in Wakers, d \in Devices
  <2>2. CASE v = w
    BY <2>2
  <2>3. CASE v # w
    BY <2>3
  <2>4. QED
    BY <2>2, <2>3
<1>4. \A d \in Devices : Pending(d)' <=> Pending(d)
  BY <1>2, <1>3 DEF Pending
<1>5. /\ TvTypeOK' /\ Places' /\ OwnOps' /\ Manned' /\ Matched' /\ Truthful' /\ Effective' /\ Asked'
      /\ \A c \in Callers : Calling(c)' <=> Calling(c)
  <2>1. \A g \in Handlers : Active(g) => handler'[g] = handler[g]
    OBVIOUS
  <2>2. "joined" \notin excuse' => "joined" \notin excuse \/ Quiet
    BY <1>1
  <2>3. excuse' = {} => excuse = {} \/ Quiet
    BY <1>1
  <2>4. excuse' = {} => \A g \in Handlers, e \in Devices :
           Active(g) => (Untouched(g, e)' <=> Untouched(g, e))
    BY <1>2
  <2>5. QED
    BY <2>1, <2>2, <2>3, <2>4, CallersKept
<1>6. TypeOK'
  <2>1. \A g \in Handlers : /\ Active(g)' <=> handler'[g].todo # <<>>
                            /\ Calling(g)' => Active(g)'
    BY <1>2, TaskFacts, Constants
  <2>2. \A v \in Wakers, e \in Devices : Calling(<<v, e>>)' <=> waker'[v].seen[e] = "called"
    BY <1>2, <1>3, WakeFacts, Constants
  <2>3. QED
    BY <1>5, <2>1, <2>2, Types DEF TypeOK, TaskRec, WakeRec, IInv
<1>7. OneWakeAtATime'
  <2>1. SUFFICES ASSUME conf.cooldown, NEW u \in Wakers, NEW v \in Wakers, Wakes(u)', Wakes(v)'
                 PROVE  u = v
    BY DEF OneWakeAtATime
  <2>2. \A x, y \in Wakers : Wakes(x) /\ Wakes(y) => x = y
    BY <2>1 DEF IInv, OneWakeAtATime
  <2>3. QED
    BY <1>2, <2>1, <2>2
<1>8. Wakings' /\ Configured'
  <2>1. Wakings'
    <3>1. SUFFICES ASSUME NEW v \in Wakers, waker'[v].at # "probing", NEW d \in Devices
                   PROVE  waker'[v].seen[d] = "none"
      BY DEF Wakings
    <3>2. CASE v = w
      BY <3>1, <3>2
    <3>3. CASE v # w
      <4>1. waker'[v] = waker[v]
        BY <3>3
      <4>2. waker[v].at # "probing" => waker[v].seen[d] = "none"
        BY <3>1, WakeFacts
      <4>3. QED
        BY <3>1, <4>1, <4>2
    <3>4. QED
      BY <3>2, <3>3
  <2>2. Configured'
    BY <1>2 DEF IInv, Configured
  <2>3. QED
    BY <2>1, <2>2
<1>9. (\A g \in Handlers : ~Active(g)) => \A g \in Handlers : ~Darkens(g) /\ ~EndsStream(g) /\ ~Lights(g)
  BY DEF Darkens, EndsStream, Lights
<1>10. Fresh => \A g \in Handlers : ~Darkens(g) /\ ~EndsStream(g) /\ ~Lights(g)
  BY <1>1, <1>9, QuietFacts
<1>11. OneDirection'
  <2>1. SUFFICES ASSUME "crossed" \notin excuse', NEW f \in Handlers, Darkens(f)
                 PROVE  (\A g \in Handlers : ~Lights(g)') /\ (\A v \in Wakers : ~Wakes(v)')
    BY <1>2 DEF OneDirection
  <2>2. (\A g \in Handlers : ~Lights(g)) /\ (\A v \in Wakers : ~Wakes(v))
    BY <1>10, <2>1 DEF IInv, OneDirection
  <2>3. QED
    BY <1>2, <2>1, <2>2
<1>12. OneEnd'
  BY <1>2, <1>10 DEF IInv, OneEnd
<1>13. Remembered'
  BY <1>1, <1>2 DEF IInv, Remembered
<1>14. Tracked'
  BY <1>1 DEF IInv, Tracked
<1>15. Wished'
  <2>1. SUFFICES ASSUME excuse' = {}, NEW d \in Devices
                 PROVE  /\ \A g \in Handlers : /\ Darkens(g)' => wish'[d] = "dark"
                                               /\ Lights(g)' /\ ~Untouched(g, d)' => wish'[d] = "lit"
                        /\ \A v \in Wakers : waker'[v].seen[d] = "called" => wish'[d] = "lit"
    BY DEF Wished
  <2>2. CASE Fresh
    <3>1. \A v \in Wakers : waker[v].seen[d] # "called"
      BY <1>1, <2>2, QuietFacts
    <3>2. QED
      BY <1>2, <1>3, <1>10, <2>2, <3>1
  <2>3. CASE ~Fresh
    <3>1. excuse = {} /\ wish'[d] = wish[d]
      BY <2>1, <2>3
    <3>2. QED
      BY <1>2, <1>3, <3>1 DEF IInv, Wished
  <2>4. QED
    BY <2>2, <2>3
<1>16. Agreed'
  BY <1>4 DEF Agreed
<1>17. QED
  BY <1>5, <1>6, <1>7, <1>8, <1>11, <1>12, <1>13, <1>14, <1>15, <1>16 DEF IInv

LEMMA KeyPressKeeps ==
  ASSUME IInv, NEW w \in Wakers, NEW source, KeyPress(w, source)
  PROVE  IInv'
<1>1. /\ ~Wakes(w) /\ MayNotify /\ waker' = [waker EXCEPT ![w].at = "spawned"]
      /\ Decides("wake", {}, "lit")
      /\ UNCHANGED <<panel, slot, call, conf, streaming, touched, locked, handler, changed>>
  BY DEF KeyPress, tvVars, control
<1>2. /\ waker[w] \in WakeRec /\ waker \in [Wakers -> WakeRec]
      /\ \A d \in Devices : waker[w].seen[d] = "none"
  BY <1>1, Types, WakeFacts
<1>3. /\ waker' \in [Wakers -> WakeRec] /\ \A v \in Wakers \ {w} : waker'[v] = waker[v]
      /\ waker'[w].seen = waker[w].seen
  BY <1>1, <1>2 DEF WakeRec
<1>4. conf.cooldown => \A v \in Wakers : ~Wakes(v)
  <2>1. SUFFICES ASSUME conf.cooldown, NEW v \in Wakers PROVE ~Wakes(v)
    OBVIOUS
  <2>2. waker[v].at # "spawned" /\ waker[v].at # "probing"
    BY <1>1, <2>1 DEF MayNotify, Cooled, WakeBusy
  <2>3. QED
    BY <2>2, WakeFacts DEF WakeRec
<1>5. "wake" \in Darkening \cup Lighting /\ "wake" \in Lighting
  BY DEF Lighting
<1>6. /\ wish' \in [Devices -> {"lit", "dark"}]
      /\ excuse' \subseteq {"crossed", "failure", "joined", "already dark"}
      /\ "crossed" \notin excuse' => ~Opposed("wake") /\ (Fresh \/ "crossed" \notin excuse)
      /\ "joined" \notin excuse' => Fresh \/ "joined" \notin excuse
      /\ excuse' = {} => (Fresh \/ excuse = {})
      /\ ~Fresh => \A d \in Devices : wish'[d] = wish[d]
      /\ excuse' = {} => \A d \in Devices : ~Pending(d) => (panel[d] = "lit" <=> wish'[d] = "lit")
  BY <1>1, <1>5, DecidesFacts
<1>7. "crossed" \notin excuse' => \A g \in Handlers : ~Darkens(g)
  BY <1>5, <1>6, OpposedFacts
<1>8. /\ wish' \in [Devices -> {"lit", "dark"}]
      /\ excuse' \subseteq {"crossed", "failure", "joined", "already dark"}
      /\ "joined" \notin excuse' => "joined" \notin excuse \/ Fresh
      /\ "crossed" \notin excuse' => "crossed" \notin excuse \/ Fresh
      /\ "crossed" \notin excuse' /\ Wakes(w)' => Wakes(w) \/ \A g \in Handlers : ~Darkens(g)
      /\ excuse' = {} => excuse = {} \/ Fresh
      /\ excuse' = {} => \A e \in Devices :
           /\ ~Pending(e) => (panel[e] = "lit" <=> wish'[e] = "lit")
           /\ wish'[e] = wish[e] \/ Fresh
  BY <1>6, <1>7
<1>9. Wakes(w)' => Wakes(w) \/ ~conf.cooldown \/ \A v \in Wakers : ~Wakes(v)
  BY <1>4
<1>10. /\ waker'[w].at # "probing" => \A e \in Devices : waker'[w].seen[e] = "none"
      /\ \A e \in Devices : waker'[w].seen[e] = "called" <=> waker[w].seen[e] = "called"
  BY <1>2, <1>3
<1>11. QED
  BY <1>1, <1>3, <1>8, <1>9, <1>10, WakerMoves

LEMMA WakeStartsKeeps ==
  ASSUME IInv, NEW w \in Wakers, WakeStarts(w)
  PROVE  IInv'
<1> DEFINE probe == [at |-> "probing",
                     seen |-> [d \in Devices |-> IF busy(d) THEN "spared" ELSE "probed"]]
<1>1. /\ waker[w].at = "spawned" /\ waker' = [waker EXCEPT ![w] = waker'[w]]
      /\ waker'[w] = IF \A d \in Devices : busy(d) THEN NoWake ELSE probe
      /\ UNCHANGED <<panel, slot, call, conf, streaming, touched, locked, handler, changed, wish, excuse>>
  BY Types DEF WakeStarts, tvVars, control, history
<1>2. probe \in WakeRec /\ \A d \in Devices : probe.seen[d] # "called"
  BY DEF WakeRec
<1> HIDE DEF probe
<1>3. /\ Wakes(w) /\ \A d \in Devices : waker[w].seen[d] = "none"
  BY <1>1, WakeFacts
<1>4. /\ waker'[w] \in WakeRec /\ \A d \in Devices : waker'[w].seen[d] # "called"
      /\ waker'[w] = NoWake \/ waker'[w] = probe
  BY <1>1, <1>2, FreeFacts
<1>5. /\ waker' \in [Wakers -> WakeRec] /\ \A v \in Wakers \ {w} : waker'[v] = waker[v]
  BY <1>1, <1>4, Types
<1>6. waker'[w].at # "probing" => \A d \in Devices : waker'[w].seen[d] = "none"
  BY <1>4, FreeFacts DEF probe
<1>7. excuse = {} => \A d \in Devices : ~Pending(d) => (panel[d] = "lit" <=> wish[d] = "lit")
  BY DEF IInv, Agreed
<1>8. /\ wish' \in [Devices -> {"lit", "dark"}]
      /\ excuse' \subseteq {"crossed", "failure", "joined", "already dark"}
      /\ "joined" \notin excuse' => "joined" \notin excuse \/ Fresh
      /\ "crossed" \notin excuse' => "crossed" \notin excuse \/ Fresh
      /\ "crossed" \notin excuse' /\ Wakes(w)' => Wakes(w) \/ \A g \in Handlers : ~Darkens(g)
      /\ excuse' = {} => excuse = {} \/ Fresh
      /\ excuse' = {} => \A e \in Devices :
           /\ ~Pending(e) => (panel[e] = "lit" <=> wish'[e] = "lit")
           /\ wish'[e] = wish[e] \/ Fresh
  BY <1>1, <1>3, <1>7, Types
<1>9. Wakes(w)' => Wakes(w) \/ ~conf.cooldown \/ \A v \in Wakers : ~Wakes(v)
  BY <1>3
<1>10. /\ waker'[w].at # "probing" => \A e \in Devices : waker'[w].seen[e] = "none"
      /\ \A e \in Devices : waker'[w].seen[e] = "called" <=> waker[w].seen[e] = "called"
  BY <1>3, <1>4, <1>6
<1>11. QED
  BY <1>1, <1>5, <1>8, <1>9, <1>10, WakerMoves

LEMMA ProbeAnswersKeeps ==
  ASSUME IInv, NEW w \in Wakers, NEW d \in Devices, ProbeAnswers(w, d)
  PROVE  IInv'
<1>1. PICK v \in {"spared", "needed"} :
        /\ waker' = [waker EXCEPT ![w].seen[d] = v]
        /\ excuse' = excuse \cup (IF v = "spared" <=> panel[d] # "lit" THEN {"failure"} ELSE {})
  BY DEF ProbeAnswers
<1>2. /\ waker[w].seen[d] = "probed"
      /\ UNCHANGED <<panel, slot, call, conf, streaming, touched, locked, handler, changed, wish>>
  BY DEF ProbeAnswers, tvVars, control
<1>3. waker[w] \in WakeRec /\ Wakes(w) /\ waker[w].at = "probing"
  BY <1>2, WakeFacts
<1>4. /\ waker' \in [Wakers -> WakeRec] /\ \A u \in Wakers \ {w} : waker'[u] = waker[u]
      /\ waker'[w].at = waker[w].at /\ waker'[w].seen[d] = v
      /\ \A e \in Devices \ {d} : waker'[w].seen[e] = waker[w].seen[e]
  BY <1>1, <1>3, Types DEF WakeRec
<1>5. \A e \in Devices : waker'[w].seen[e] = "called" <=> waker[w].seen[e] = "called"
  BY <1>2, <1>4
<1>6. /\ excuse' \subseteq {"crossed", "failure", "joined", "already dark"}
      /\ "crossed" \in excuse' <=> "crossed" \in excuse
      /\ "joined" \in excuse' <=> "joined" \in excuse
      /\ excuse' = {} => excuse = {}
  BY <1>1, Types
<1>7. excuse = {} => \A e \in Devices : ~Pending(e) => (panel[e] = "lit" <=> wish[e] = "lit")
  BY DEF IInv, Agreed
<1>8. /\ wish' \in [Devices -> {"lit", "dark"}]
      /\ excuse' \subseteq {"crossed", "failure", "joined", "already dark"}
      /\ "joined" \notin excuse' => "joined" \notin excuse \/ Fresh
      /\ "crossed" \notin excuse' => "crossed" \notin excuse \/ Fresh
      /\ "crossed" \notin excuse' /\ Wakes(w)' => Wakes(w) \/ \A g \in Handlers : ~Darkens(g)
      /\ excuse' = {} => excuse = {} \/ Fresh
      /\ excuse' = {} => \A e \in Devices :
           /\ ~Pending(e) => (panel[e] = "lit" <=> wish'[e] = "lit")
           /\ wish'[e] = wish[e] \/ Fresh
  BY <1>2, <1>3, <1>6, <1>7, Types
<1>9. Wakes(w)' => Wakes(w) \/ ~conf.cooldown \/ \A u \in Wakers : ~Wakes(u)
  BY <1>3
<1>10. /\ waker'[w].at # "probing" => \A e \in Devices : waker'[w].seen[e] = "none"
      /\ \A e \in Devices : waker'[w].seen[e] = "called" <=> waker[w].seen[e] = "called"
  BY <1>3, <1>4, <1>5
<1>11. QED
  BY <1>2, <1>4, <1>8, <1>9, <1>10, WakerMoves

LEMMA WakeEndsKeeps ==
  ASSUME IInv, NEW w \in Wakers, WakeEnds(w)
  PROVE  IInv'
<1>1. /\ waker[w].at = "probing" /\ \A d \in Devices : waker[w].seen[d] = "spared"
      /\ waker' = [waker EXCEPT ![w] = NoWake]
      /\ UNCHANGED <<panel, slot, call, conf, streaming, touched, locked, handler, changed, wish, excuse>>
  BY DEF WakeEnds, tvVars, control, history
<1>2. /\ waker' \in [Wakers -> WakeRec] /\ \A v \in Wakers \ {w} : waker'[v] = waker[v]
      /\ waker'[w] = NoWake
  BY <1>1, FreeFacts, Types
<1>3. Wakes(w)
  BY <1>1, WakeFacts
<1>4. excuse = {} => \A e \in Devices : ~Pending(e) => (panel[e] = "lit" <=> wish[e] = "lit")
  BY DEF IInv, Agreed
<1>5. /\ wish' \in [Devices -> {"lit", "dark"}]
      /\ excuse' \subseteq {"crossed", "failure", "joined", "already dark"}
      /\ "joined" \notin excuse' => "joined" \notin excuse \/ Fresh
      /\ "crossed" \notin excuse' => "crossed" \notin excuse \/ Fresh
      /\ "crossed" \notin excuse' /\ Wakes(w)' => Wakes(w) \/ \A g \in Handlers : ~Darkens(g)
      /\ excuse' = {} => excuse = {} \/ Fresh
      /\ excuse' = {} => \A e \in Devices :
           /\ ~Pending(e) => (panel[e] = "lit" <=> wish'[e] = "lit")
           /\ wish'[e] = wish[e] \/ Fresh
  BY <1>1, <1>3, <1>4, Types
<1>6. Wakes(w)' => Wakes(w) \/ ~conf.cooldown \/ \A v \in Wakers : ~Wakes(v)
  BY <1>3
<1>7. /\ waker'[w].at # "probing" => \A e \in Devices : waker'[w].seen[e] = "none"
      /\ \A e \in Devices : waker'[w].seen[e] = "called" <=> waker[w].seen[e] = "called"
  BY <1>1, <1>2, FreeFacts
<1>8. QED
  BY <1>1, <1>2, <1>5, <1>6, <1>7, WakerMoves

LEMMA WakeCallsKeeps ==
  ASSUME IInv, NEW w \in Wakers, NEW d \in Devices, WakeCalls(w, d)
  PROVE  IInv'
<1> DEFINE c == <<w, d>>
<1>1. /\ waker[w].seen[d] = "needed" /\ Calls(c, d, "power_on")
      /\ waker' = [waker EXCEPT ![w].seen[d] = "called"]
      /\ wish' = [wish EXCEPT ![d] = "lit"]
      /\ UNCHANGED <<conf, streaming, touched, locked, handler, changed, excuse>>
  BY DEF WakeCalls, control
<1>2. /\ waker[w] \in WakeRec /\ Wakes(w) /\ waker[w].at = "probing" /\ ~Calling(c)
      /\ c \in Callers /\ SlotOf("power_on") = "on"
  BY <1>1, WakeFacts, Constants DEF SlotOf
<1>3. /\ \A g \in Handlers : g # c
      /\ \A v \in Wakers, e \in Devices : <<v, e>> = c <=> v = w /\ e = d
  BY <1>2, Constants
<1> HIDE DEF c
<1>4. /\ TvTypeOK' /\ OwnOps' /\ Manned' /\ panel' = panel
      /\ call'[c].to = {d} /\ call'[c].key = "on" /\ call'[c].res = "none" /\ Calling(c)'
      /\ \A b \in Callers \ {c} : call'[b] = call[b]
      /\ \A e \in Devices, k \in Slots :
           /\ slot'[e][k].res = slot[e][k].res
           /\ slot[e][k].op # "none" => slot'[e][k].op = slot[e][k].op
  BY <1>1, <1>2, CallsFacts
<1>5. /\ waker' \in [Wakers -> WakeRec] /\ \A v \in Wakers \ {w} : waker'[v] = waker[v]
      /\ waker'[w].at = waker[w].at /\ waker'[w].seen[d] = "called"
      /\ \A e \in Devices \ {d} : waker'[w].seen[e] = waker[w].seen[e]
  BY <1>1, <1>2, Types DEF WakeRec
<1>6. /\ wish' \in [Devices -> {"lit", "dark"}] /\ wish'[d] = "lit"
      /\ \A e \in Devices : e # d => wish'[e] = wish[e]
  BY <1>1, Types
<1>7. /\ \A v \in Wakers : v # w => (Wakes(v)' <=> Wakes(v))
      /\ Wakes(w)'
  BY <1>2, <1>5, FreeFacts DEF Wakes
<1>8. /\ \A v \in Wakers : Wakes(v)' <=> Wakes(v)
      /\ \A v \in Wakers, e \in Devices : waker'[v].seen[e] = "called" <=>
           waker[v].seen[e] = "called" \/ <<v, e>> = c
  <2>1. \A v \in Wakers : Wakes(v)' <=> Wakes(v)
    BY <1>2, <1>7
  <2>2. \A v \in Wakers, e \in Devices : waker'[v].seen[e] = "called" <=>
           waker[v].seen[e] = "called" \/ <<v, e>> = c
    <3>1. TAKE v \in Wakers, e \in Devices
    <3>2. CASE v = w
      BY <1>3, <1>5, <3>2
    <3>3. CASE v # w
      BY <1>3, <1>5, <3>3
    <3>4. QED
      BY <3>2, <3>3
  <2>3. QED
    BY <2>1, <2>2
<1>9. /\ \A g \in Handlers : /\ Active(g)' <=> Active(g)
                             /\ Darkens(g)' <=> Darkens(g)
                             /\ Lights(g)' <=> Lights(g)
                             /\ EndsStream(g)' <=> EndsStream(g)
                             /\ OpOf(g)' = OpOf(g)
                             /\ \A e \in Devices : Untouched(g, e)' <=> Untouched(g, e)
      /\ SameOff' <=> SameOff
  BY <1>1 DEF Active, Darkens, Lights, EndsStream, OpOf, Untouched, SameOff
<1>10. /\ \A g \in Handlers : (Calling(g)' <=> Calling(g)) /\ call'[g] = call[g]
       /\ \A v \in Wakers, e \in Devices :
            <<v, e>> # c => (Calling(<<v, e>>)' <=> Calling(<<v, e>>)) /\ call'[<<v, e>>] = call[<<v, e>>]
  BY <1>3, <1>4, Constants DEF Calling
<1>11. TypeOK'
  <2>1. \A g \in Handlers : (Active(g)' <=> handler'[g].todo # <<>>) /\ (Calling(g)' => Active(g)')
    BY <1>1, <1>9, <1>10, TaskFacts
  <2>2. \A v \in Wakers, e \in Devices : Calling(<<v, e>>)' <=> waker'[v].seen[e] = "called"
    <3>1. TAKE v \in Wakers, e \in Devices
    <3>2. CASE <<v, e>> = c
      BY <1>4, <1>8, <3>2
    <3>3. CASE <<v, e>> # c
      BY <1>8, <1>10, <3>3, WakeFacts
    <3>4. QED
      BY <3>2, <3>3
  <2>3. QED
    BY <1>1, <1>4, <1>5, <1>6, <2>1, <2>2, Types DEF TypeOK, TaskRec, WakeRec, IInv
<1>12. OneWakeAtATime' /\ Configured'
  <2>1. OneWakeAtATime'
    BY <1>1, <1>8 DEF IInv, OneWakeAtATime
  <2>2. Configured'
    BY <1>1, <1>9 DEF IInv, Configured
  <2>3. QED
    BY <2>1, <2>2
<1>13. Wakings'
  <2>1. SUFFICES ASSUME NEW v \in Wakers, waker'[v].at # "probing", NEW e \in Devices
                 PROVE  waker'[v].seen[e] = "none"
    BY DEF Wakings
  <2>2. waker'[v] = waker[v]
    BY <1>2, <1>5, <2>1
  <2>3. QED
    BY <2>1, <2>2, WakeFacts
<1>14. Places'
  <2>1. \A g \in Handlers : Calling(g)' =>
          call'[g].to = {Head(handler'[g].todo)} /\ call'[g].key = SlotOf(OpOf(g)')
    BY <1>1, <1>9, <1>10 DEF IInv, Places
  <2>2. \A v \in Wakers, e \in Devices : Calling(<<v, e>>)' =>
          call'[<<v, e>>].to = {e} /\ call'[<<v, e>>].key = "on"
    <3>1. TAKE v \in Wakers, e \in Devices
    <3>2. CASE <<v, e>> = c
      BY <1>3, <1>4, <3>2
    <3>3. CASE <<v, e>> # c
      <4>1. Calling(<<v, e>>) => call[<<v, e>>].to = {e} /\ call[<<v, e>>].key = "on"
        BY DEF IInv, Places
      <4>2. QED
        BY <1>10, <3>3, <4>1
    <3>4. QED
      BY <3>2, <3>3
  <2>3. QED
    BY <2>1, <2>2 DEF Places
<1>15. Matched'
  <2>1. SUFFICES ASSUME "joined" \notin excuse, NEW g \in Handlers, Waiting(g)'
                 PROVE  slot'[Head(handler[g].todo)][SlotOf(OpOf(g))].op = OpOf(g)
    BY <1>1, <1>9 DEF Matched
  <2>2. Waiting(g) /\ Active(g) /\ OpOf(g) # "none"
    BY <1>10, <2>1, TaskFacts DEF Waiting
  <2>3. Head(handler[g].todo) \in Devices /\ SlotOf(OpOf(g)) \in Slots
    BY <2>2, TaskFacts, Constants DEF SlotOf
  <2>4. slot[Head(handler[g].todo)][SlotOf(OpOf(g))].op = OpOf(g)
    BY <2>1, <2>2 DEF IInv, Matched
  <2>5. QED
    BY <1>4, <2>2, <2>3, <2>4
<1>16. Truthful'
  BY <1>1, <1>9, <1>10 DEF IInv, Truthful, Answered
<1>17. OneDirection' /\ OneEnd' /\ Remembered' /\ Tracked'
  <2>1. OneDirection'
    BY <1>1, <1>8, <1>9 DEF IInv, OneDirection
  <2>2. OneEnd' /\ Remembered' /\ Tracked'
    BY <1>1, <1>9 DEF IInv, OneEnd, Remembered, Tracked
  <2>3. QED
    BY <2>1, <2>2
<1>18. Effective'
  <2>1. SUFFICES ASSUME excuse' = {} PROVE Effective'
    BY DEF Effective
  <2>2. excuse = {}
    BY <1>1, <2>1
  <2>3. \A e \in Devices : /\ slot'[e]["off"].res # "none" => panel'[e] # "lit"
                           /\ slot'[e]["on"].res # "none" => panel'[e] = "lit"
    BY <1>4, <2>2, Constants DEF IInv, Effective
  <2>4. \A g \in Handlers : Answered(g)' => (panel'[Head(handler'[g].todo)] = "lit" <=> Lights(g)')
    BY <1>1, <1>4, <1>9, <1>10, <2>2 DEF IInv, Effective, Answered
  <2>5. \A v \in Wakers, e \in Devices : Answered(<<v, e>>)' => panel'[e] = "lit"
    <3>1. \A v \in Wakers, e \in Devices : Answered(<<v, e>>) => panel[e] = "lit"
      BY <2>2 DEF IInv, Effective
    <3>2. QED
      BY <1>4, <1>10, <3>1 DEF Answered
  <2>6. QED
    BY <2>3, <2>4, <2>5 DEF Effective
<1>19. Wished'
  <2>1. SUFFICES ASSUME excuse = {}, NEW e \in Devices
                 PROVE  /\ \A g \in Handlers : /\ Darkens(g) => wish'[e] = "dark"
                                               /\ Lights(g) /\ ~Untouched(g, e) => wish'[e] = "lit"
                        /\ \A v \in Wakers : waker'[v].seen[e] = "called" => wish'[e] = "lit"
    BY <1>1, <1>9 DEF Wished
  <2>2. \A g \in Handlers : ~Darkens(g)
    BY <1>2, <2>1 DEF IInv, OneDirection
  <2>3. /\ \A g \in Handlers : Lights(g) /\ ~Untouched(g, e) => wish[e] = "lit"
        /\ \A v \in Wakers : waker[v].seen[e] = "called" => wish[e] = "lit"
    BY <2>1 DEF IInv, Wished
  <2>4. wish[e] = "lit" => wish'[e] = "lit"
    BY <1>6
  <2>5. QED
    BY <1>3, <1>6, <1>8, <2>2, <2>3, <2>4
<1>20. Asked'
  BY <1>1, <1>9, <1>10, TaskFacts DEF IInv, Asked
<1>21. Agreed'
  <2>1. SUFFICES ASSUME excuse = {}, NEW e \in Devices, ~Pending(e)'
                 PROVE  panel[e] = "lit" <=> wish'[e] = "lit"
    BY <1>1, <1>4 DEF Agreed
  <2>2. \A v \in Wakers : waker'[v].seen[e] # "called"
    BY <2>1 DEF Pending
  <2>3. e # d /\ \A v \in Wakers : waker[v].seen[e] # "called"
    BY <1>5, <1>8, <2>2
  <2>4. ~\E g \in Handlers : Active(g) /\ Has(handler[g].todo, e) /\ ~Untouched(g, e)
    BY <1>1, <1>9, <2>1 DEF Pending
  <2>5. ~Pending(e)
    BY <2>3, <2>4 DEF Pending
  <2>6. QED
    BY <1>6, <2>1, <2>3, <2>5 DEF IInv, Agreed
<1>22. QED
  BY <1>4, <1>11, <1>12, <1>13, <1>14, <1>15, <1>16, <1>17, <1>18, <1>19, <1>20, <1>21 DEF IInv

LEMMA WakeAnsweredKeeps ==
  ASSUME IInv, NEW w \in Wakers, NEW d \in Devices, WakeAnswered(w, d)
  PROVE  IInv'
<1> DEFINE c == <<w, d>>
<1>1. /\ Answered(c) /\ Returns(c)
      /\ waker' = [waker EXCEPT ![w].seen[d] = "spared"]
      /\ UNCHANGED <<conf, streaming, touched, locked, handler, wish, changed, excuse>>
  BY DEF WakeAnswered, control, history
<1>2. /\ c \in Callers /\ Calling(c)
      /\ \A g \in Handlers : g # c
      /\ \A v \in Wakers, e \in Devices : <<v, e>> = c <=> v = w /\ e = d
  BY <1>1, Constants, FreeFacts DEF Answered, Calling
<1>3. waker[w] \in WakeRec /\ waker[w].seen[d] = "called" /\ Wakes(w) /\ waker[w].at = "probing"
  BY <1>2, WakeFacts
<1> HIDE DEF c
<1>4. /\ TvTypeOK' /\ OwnOps' /\ Manned' /\ UNCHANGED <<panel, slot>>
      /\ ~Calling(c)' /\ ~Answered(c)' /\ \A b \in Callers \ {c} : call'[b] = call[b]
  BY <1>1, <1>2, ReturnsFacts
<1>5. /\ waker' \in [Wakers -> WakeRec] /\ \A v \in Wakers \ {w} : waker'[v] = waker[v]
      /\ waker'[w].at = waker[w].at /\ waker'[w].seen[d] = "spared"
      /\ \A e \in Devices \ {d} : waker'[w].seen[e] = waker[w].seen[e]
  BY <1>1, <1>3, Types DEF WakeRec
<1>6. /\ \A v \in Wakers : v # w => (Wakes(v)' <=> Wakes(v))
      /\ Wakes(w)'
  BY <1>3, <1>5, FreeFacts DEF Wakes
<1>7. /\ \A v \in Wakers : Wakes(v)' <=> Wakes(v)
      /\ \A v \in Wakers, e \in Devices : waker'[v].seen[e] = "called" <=>
           waker[v].seen[e] = "called" /\ <<v, e>> # c
  <2>1. \A v \in Wakers : Wakes(v)' <=> Wakes(v)
    BY <1>3, <1>6
  <2>2. \A v \in Wakers, e \in Devices : waker'[v].seen[e] = "called" <=>
           waker[v].seen[e] = "called" /\ <<v, e>> # c
    <3>1. TAKE v \in Wakers, e \in Devices
    <3>2. CASE v = w
      BY <1>2, <1>5, <3>2
    <3>3. CASE v # w
      BY <1>2, <1>5, <3>3
    <3>4. QED
      BY <3>2, <3>3
  <2>3. QED
    BY <2>1, <2>2
<1>8. /\ \A g \in Handlers : /\ Active(g)' <=> Active(g)
                             /\ Darkens(g)' <=> Darkens(g)
                             /\ Lights(g)' <=> Lights(g)
                             /\ EndsStream(g)' <=> EndsStream(g)
                             /\ OpOf(g)' = OpOf(g)
                             /\ \A e \in Devices : Untouched(g, e)' <=> Untouched(g, e)
      /\ SameOff' <=> SameOff
  BY <1>1 DEF Active, Darkens, Lights, EndsStream, OpOf, Untouched, SameOff
<1>9. /\ \A g \in Handlers : (Calling(g)' <=> Calling(g)) /\ call'[g] = call[g]
      /\ \A v \in Wakers, e \in Devices :
            <<v, e>> # c => (Calling(<<v, e>>)' <=> Calling(<<v, e>>)) /\ call'[<<v, e>>] = call[<<v, e>>]
  BY <1>2, <1>4, Constants DEF Calling
<1>10. TypeOK'
  <2>1. \A g \in Handlers : (Active(g)' <=> handler'[g].todo # <<>>) /\ (Calling(g)' => Active(g)')
    BY <1>1, <1>8, <1>9, TaskFacts
  <2>2. \A v \in Wakers, e \in Devices : Calling(<<v, e>>)' <=> waker'[v].seen[e] = "called"
    <3>1. TAKE v \in Wakers, e \in Devices
    <3>2. CASE <<v, e>> = c
      BY <1>4, <1>7, <3>2
    <3>3. CASE <<v, e>> # c
      BY <1>7, <1>9, <3>3, WakeFacts
    <3>4. QED
      BY <3>2, <3>3
  <2>3. QED
    BY <1>1, <1>4, <1>5, <2>1, <2>2, Types DEF TypeOK, TaskRec, WakeRec, IInv
<1>11. OneWakeAtATime' /\ Configured'
  <2>1. OneWakeAtATime'
    BY <1>1, <1>7 DEF IInv, OneWakeAtATime
  <2>2. Configured'
    BY <1>1, <1>8 DEF IInv, Configured
  <2>3. QED
    BY <2>1, <2>2
<1>12. Wakings'
  <2>1. SUFFICES ASSUME NEW v \in Wakers, waker'[v].at # "probing", NEW e \in Devices
                 PROVE  waker'[v].seen[e] = "none"
    BY DEF Wakings
  <2>2. waker'[v] = waker[v]
    BY <1>3, <1>5, <2>1
  <2>3. QED
    BY <2>1, <2>2, WakeFacts
<1>13. Places'
  <2>1. \A g \in Handlers : Calling(g)' =>
          call'[g].to = {Head(handler'[g].todo)} /\ call'[g].key = SlotOf(OpOf(g)')
    BY <1>1, <1>8, <1>9 DEF IInv, Places
  <2>2. \A v \in Wakers, e \in Devices : Calling(<<v, e>>)' =>
          call'[<<v, e>>].to = {e} /\ call'[<<v, e>>].key = "on"
    <3>1. TAKE v \in Wakers, e \in Devices
    <3>2. CASE <<v, e>> = c
      BY <1>4, <3>2
    <3>3. CASE <<v, e>> # c
      <4>1. Calling(<<v, e>>) => call[<<v, e>>].to = {e} /\ call[<<v, e>>].key = "on"
        BY DEF IInv, Places
      <4>2. QED
        BY <1>9, <3>3, <4>1
    <3>4. QED
      BY <3>2, <3>3
  <2>3. QED
    BY <2>1, <2>2 DEF Places
<1>14. Matched'
  BY <1>1, <1>4, <1>8, <1>9 DEF IInv, Matched, Waiting
<1>15. Truthful'
  BY <1>1, <1>8, <1>9 DEF IInv, Truthful, Answered
<1>16. OneDirection' /\ OneEnd' /\ Remembered' /\ Tracked'
  <2>1. OneDirection'
    BY <1>1, <1>7, <1>8 DEF IInv, OneDirection
  <2>2. OneEnd' /\ Remembered' /\ Tracked'
    BY <1>1, <1>8 DEF IInv, OneEnd, Remembered, Tracked
  <2>3. QED
    BY <2>1, <2>2
<1>17. Effective'
  <2>1. SUFFICES ASSUME excuse = {} PROVE Effective'
    BY <1>1 DEF Effective
  <2>2. \A e \in Devices : /\ slot'[e]["off"].res # "none" => panel'[e] # "lit"
                           /\ slot'[e]["on"].res # "none" => panel'[e] = "lit"
    BY <1>4, <2>1 DEF IInv, Effective
  <2>3. \A g \in Handlers : Answered(g)' => (panel'[Head(handler'[g].todo)] = "lit" <=> Lights(g)')
    BY <1>1, <1>4, <1>8, <1>9, <2>1 DEF IInv, Effective, Answered
  <2>4. \A v \in Wakers, e \in Devices : Answered(<<v, e>>)' => panel'[e] = "lit"
    <3>1. \A v \in Wakers, e \in Devices : Answered(<<v, e>>) => panel[e] = "lit"
      BY <2>1 DEF IInv, Effective
    <3>2. QED
      BY <1>4, <1>9, <3>1 DEF Answered
  <2>5. QED
    BY <2>2, <2>3, <2>4 DEF Effective
<1>18. Wished'
  BY <1>1, <1>7, <1>8 DEF IInv, Wished
<1>19. Asked'
  BY <1>1, <1>8, <1>9, TaskFacts DEF IInv, Asked
<1>20. Agreed'
  <2>1. SUFFICES ASSUME excuse = {}, NEW e \in Devices, ~Pending(e)'
                 PROVE  panel[e] = "lit" <=> wish[e] = "lit"
    BY <1>1, <1>4 DEF Agreed
  <2>2. CASE e = d
    <3>1. panel[d] = "lit"
      BY <1>1, <2>1 DEF IInv, Effective, c
    <3>2. wish[d] = "lit"
      BY <1>3, <2>1 DEF IInv, Wished
    <3>3. QED
      BY <2>2, <3>1, <3>2
  <2>3. CASE e # d
    <3>1. \A v \in Wakers : waker[v].seen[e] # "called"
      BY <1>2, <1>7, <2>1, <2>3 DEF Pending
    <3>2. ~\E g \in Handlers : Active(g) /\ Has(handler[g].todo, e) /\ ~Untouched(g, e)
      BY <1>1, <1>8, <2>1 DEF Pending
    <3>3. ~Pending(e)
      BY <3>1, <3>2 DEF Pending
    <3>4. QED
      BY <2>1, <3>3 DEF IInv, Agreed
  <2>4. QED
    BY <2>2, <2>3
<1>21. QED
  BY <1>4, <1>10, <1>11, <1>12, <1>13, <1>14, <1>15, <1>16, <1>17, <1>18, <1>19, <1>20 DEF IInv

-----------------------------------------------------------------------------
(* The invariants of the specification                                     *)

LEMMA InitHolds == ASSUME Init PROVE IInv
<1>1. /\ panel \in [Devices -> Panels] /\ slot = [d \in Devices |-> [k \in Slots |-> Free]]
      /\ call = [c \in Callers |-> NotCalling] /\ conf \in Configs
      /\ streaming = FALSE /\ touched = {} /\ locked = FALSE
      /\ handler = [h \in Handlers |-> NoTask] /\ waker = [w \in Wakers |-> NoWake]
      /\ wish = [d \in Devices |-> Lit(d)] /\ changed = {} /\ excuse = {}
  BY DEF Init, TvInit
<1>2. /\ \A c \in Callers : call[c] = NotCalling /\ ~Calling(c) /\ ~Waiting(c) /\ ~Answered(c)
      /\ \A d \in Devices, k \in Slots : slot[d][k] = Free
  BY <1>1, FreeFacts DEF Calling, Waiting, Answered
<1>3. /\ \A h \in Handlers : /\ handler[h] = NoTask /\ ~Active(h) /\ ~Darkens(h) /\ ~Lights(h)
                             /\ ~EndsStream(h)
      /\ \A w \in Wakers : waker[w] = NoWake /\ ~Wakes(w)
  BY <1>1 DEF Active, Darkens, Lights, EndsStream, Wakes
<1>4. \A h \in Handlers : ~Calling(h) /\ ~Waiting(h) /\ ~Answered(h)
  BY <1>2, Constants
<1>5. \A w \in Wakers, d \in Devices : ~Calling(<<w, d>>) /\ ~Answered(<<w, d>>)
  BY <1>2, Constants
<1>6. TvTypeOK
  <2>1. slot \in [Devices -> [Slots -> SlotRec]] /\ call \in [Callers -> CallRec]
    BY <1>1, FreeFacts
  <2>2. QED
    BY <1>1, <2>1, TvTypes
<1>7. TypeOK
  <2>1. handler \in [Handlers -> TaskRec] /\ waker \in [Wakers -> WakeRec]
    BY <1>1, FreeFacts
  <2>2. wish \in [Devices -> {"lit", "dark"}]
    BY <1>1 DEF Lit
  <2>3. QED
    BY <1>1, <1>3, <1>4, <1>5, <1>6, <2>1, <2>2, FreeFacts DEF TypeOK, TaskRec, WakeRec
<1>8. OneWakeAtATime /\ Configured /\ Wakings
  BY <1>3, FreeFacts DEF OneWakeAtATime, Configured, Wakings
<1>9. Places /\ Matched /\ Truthful /\ Asked
  BY <1>4, <1>5 DEF Places, Matched, Truthful, Asked
<1>10. OwnOps /\ Manned
  BY <1>2, FreeFacts, Constants DEF OwnOps, Manned
<1>11. OneDirection /\ OneEnd /\ Remembered /\ Tracked
  BY <1>1, <1>3 DEF OneDirection, OneEnd, Remembered, Tracked
<1>12. Effective /\ Wished
  BY <1>2, <1>3, <1>4, <1>5, FreeFacts, Constants DEF Effective, Wished
<1>13. Agreed
  BY <1>1 DEF Agreed, Lit
<1>14. QED
  BY <1>7, <1>8, <1>9, <1>10, <1>11, <1>12, <1>13 DEF IInv

LEMMA StutterKeeps == ASSUME IInv, UNCHANGED vars PROVE IInv'
<1>1. /\ UNCHANGED <<panel, slot, call, conf, handler, waker, wish, excuse>>
      /\ UNCHANGED <<streaming, touched, changed>> /\ locked' = locked
  BY DEF vars, tvVars, control, history
<1>2. locked' \in BOOLEAN
  BY <1>1, Types
<1>3. QED
  BY <1>1, <1>2, PlainKeeps

LEMMA NextKeeps == ASSUME IInv, [Next]_vars PROVE IInv'
<1>1. CASE TvStep
  BY <1>1, TvStepKeeps
<1>2. ASSUME NEW h \in Handlers, HandlerSteps(h)
      PROVE  IInv'
  BY <1>2, CallsNextKeeps, SkipsUntouchedKeeps, TakesAnswerKeeps DEF HandlerSteps
<1>3. ASSUME NEW h \in Handlers, StreamConnects(h) \/ StreamDisconnects(h) \/ LockChanges(h)
      PROVE  IInv'
  BY <1>3, StreamConnectsKeeps, StreamDisconnectsKeeps, LockChangesKeeps
<1>4. ASSUME NEW w \in Wakers, WakerSteps(w)
      PROVE  IInv'
  <2>1. ASSUME NEW d \in Devices, ProbeAnswers(w, d) \/ WakeCalls(w, d) \/ WakeAnswered(w, d)
        PROVE  IInv'
    BY <2>1, ProbeAnswersKeeps, WakeCallsKeeps, WakeAnsweredKeeps
  <2>2. QED
    BY <1>4, <2>1, WakeStartsKeeps, WakeEndsKeeps DEF WakerSteps
<1>5. ASSUME NEW w \in Wakers, NEW s \in {"agent", "local"}, KeyPress(w, s)
      PROVE  IInv'
  BY <1>5, KeyPressKeeps
<1>6. QED
  BY <1>1, <1>2, <1>3, <1>4, <1>5, StutterKeeps DEF Next

LEMMA IInvHolds == Spec => []IInv
<1>1. Init => IInv
  BY InitHolds
<1>2. IInv /\ [Next]_vars => IInv'
  BY NextKeeps
<1>3. QED
  BY <1>1, <1>2, PTL DEF Spec

\* The state is well-typed whatever streams, locks and key presses come and however
\* the televisions answer; and while the cooldown is not zero, a second wake-up never
\* starts beside the first (daemon/wake.py: notify_input, _busy).
THEOREM InvHolds == Spec => []Inv
<1>1. IInv => Inv
  BY DEF IInv, Inv
<1>2. QED
  BY <1>1, IInvHolds, PTL

\* Once the tasks of daemon/streams.py, daemon/main.py (_on_lock) and daemon/wake.py
\* are done, every television is as the last report meant it to be, whatever the
\* order in which tasks of one direction joined and finished; the four ways in which
\* that can fail are those that excuse names.
THEOREM LastWordWinsHolds == Spec => []LastWordWins
<1>1. ASSUME IInv PROVE LastWordWins
  <2>1. SUFFICES ASSUME Quiet, NEW d \in Devices,
                        excuse \cap {"crossed", "failure", "joined", "already dark"} = {}
                 PROVE  panel[d] = "lit" <=> wish[d] = "lit"
    BY DEF LastWordWins
  <2>2. excuse = {}
    BY <1>1, <2>1, Types
  <2>3. ~Pending(d)
    BY <1>1, <2>1, QuietFacts
  <2>4. QED
    BY <1>1, <2>2, <2>3 DEF IInv, Agreed
<1>2. QED
  BY <1>1, IInvHolds, PTL

\* StreamController._touched holds every television that the stream has darkened, so
\* that on_disconnect ("restore") lights it again, also when blank and power_off of
\* other tasks were joined or failed: only an end of an earlier stream that is still
\* under way can forget one, or the lock, if it uses the other operation.
THEOREM RestoreRemembersHolds == Spec => []RestoreRemembers
<1>1. IInv => RestoreRemembers
  BY DEF IInv, Remembered, RestoreRemembers, SameOff
<1>2. QED
  BY <1>1, IInvHolds, PTL
=============================================================================
