--------------------------- MODULE SurroundingsProofs ---------------------------
(***************************************************************************)
(* Proofs about what surrounds a TV and about what others are told of it:  *)
(* the displays (Topology), the monitors of input devices (Inputs), the    *)
(* reports of the session agent (Reports), and the MQTT bridge (Bridge);   *)
(* for any managed TVs and whichever of them drop hot-plug in standby, any *)
(* names of nodes, any size of the queues and of the log, and whatever the *)
(* bounds on moves, devices, commands and frames.                          *)
(***************************************************************************)
EXTENDS Topology, Inputs, Bridge, Reports,
        FiniteSetTheorems, WellFoundedInduction, TLAPS

-----------------------------------------------------------------------------
(* The inductive invariant                                                 *)

Todos == {SubSeq(Managed, i, Len(Managed)) : i \in 1..Len(Managed) + 1}

\* TopologyTypeOK, with the memories and the jobs as what they can hold.
TopologyTypes ==
  /\ keep \in BOOLEAN /\ booted \in BOOLEAN
  /\ daemon \in {"down", "up", "stopping"}
  /\ last = {} \/ \E keys \in SUBSET Tvs : last = {keys}
  /\ file = {} \/ \E keys \in SUBSET Tvs : file = {keys}
  /\ jobs \in [Handlers -> SUBSET Job]
  /\ \A h \in Handlers : jobs[h] = {} \/ \E job \in Job : jobs[h] = {job}
  /\ plugged \subseteq Tvs /\ on \subseteq Tvs
  /\ moves \in 0..MaxMoves /\ applied \in BOOLEAN
  /\ told \in [Tvs -> Handlers \cup {"nobody"}] /\ saver \in Handlers \cup {"nobody"}

\* The watcher works while the daemon is up and only after its first poll.
HandlersLive ==
  /\ jobs["watch"] # {} => daemon = "up" /\ last # {}
  /\ jobs["boot"] # {} => daemon # "down" /\ booted
  /\ applied => last # {}

\* If h was the last to tell the TV, the TV is as the keys say.
Agrees(h, keys, t) == told[t] = h => (t \in on <=> t \in keys)

\* A handler at work has told the TVs that are no longer to be told.
Told ==
  \A h \in Handlers : \A job \in jobs[h] :
    \A t \in Tvs \ ToSet(job.todo) : Agrees(h, job.keys, t)

\* What the watcher has noted it has applied.
Noted ==
  jobs["watch"] = {} /\ applied => \A keys \in last, t \in Tvs : Agrees("watch", keys, t)

\* What a handler has saved it has applied, until it begins the next time.
Saved ==
  \A h \in Handlers :
    saver = h /\ jobs[h] = {} => \A keys \in file, t \in Tvs : Agrees(h, keys, t)

TopologyIInv == TopologyTypes /\ HandlersLive /\ Told /\ Noted /\ Saved

-----------------------------------------------------------------------------
(* Lists of TVs                                                            *)

LEMMA NobodyIsNoHandler == "nobody" \notin Handlers /\ "watch" # "boot"
                           /\ Handlers = {"watch", "boot"}
BY DEF Handlers

\* What is left of the list after the next TV, and who that is.
LEMMA TodoFacts ==
  ASSUME NEW todo \in Todos, todo # <<>>
  PROVE  /\ Tail(todo) \in Todos /\ Head(todo) \in Tvs
         /\ \A t : t \in ToSet(todo) => t = Head(todo) \/ t \in ToSet(Tail(todo))
<1> DEFINE n == Len(Managed)
<1>1. Managed \in Seq(Tvs) /\ n \in Nat /\ \A i \in 1..n : Managed[i] \in Tvs
  BY TopologyAssumption
<1>2. PICK i \in 1..n + 1 : todo = SubSeq(Managed, i, n)
  BY DEF Todos
<1>3. /\ Len(todo) = n - i + 1 /\ todo \in Seq(Tvs)
      /\ \A j \in 1..Len(todo) : todo[j] = Managed[i + j - 1]
  BY <1>1, <1>2
<1>4. i \in 1..n
  BY <1>1, <1>3
<1>5. Tail(todo) = SubSeq(Managed, i + 1, n)
  BY <1>1, <1>2, <1>4
<1>6. Tail(todo) \in Todos
  <2>1. i + 1 \in 1..n + 1
    BY <1>1, <1>4
  <2>2. QED
    BY <2>1, <1>5 DEF Todos
<1>7. Head(todo) = todo[1] /\ Head(todo) \in Tvs
  BY <1>1, <1>3, <1>4
<1>8. ASSUME NEW t, t \in ToSet(todo), t # Head(todo) PROVE t \in ToSet(Tail(todo))
  <2>1. PICK j \in 1..Len(todo) : t = todo[j]
    BY <1>8 DEF ToSet
  <2>2. j # 1 /\ todo \in Seq(Tvs)
    BY <2>1, <1>3, <1>7, <1>8
  <2>3. j - 1 \in 1..Len(Tail(todo)) /\ Tail(todo)[j - 1] = todo[j]
    BY <2>1, <2>2
  <2>4. Tail(todo) \in Seq(Tvs) /\ DOMAIN Tail(todo) = 1..Len(Tail(todo))
    BY <2>2, todo # <<>>
  <2>5. QED
    BY <2>1, <2>3, <2>4 DEF ToSet
<1>9. QED
  BY <1>6, <1>7, <1>8

\* A handler that begins has all TVs to tell, one that is done has none.
LEMMA ListEnds ==
  /\ Managed \in Todos /\ Tvs \ ToSet(Managed) = {}
  /\ ToSet(<<>>) = {}
<1>1. Managed \in Seq(Tvs)
  BY TopologyAssumption
<1>2. SubSeq(Managed, 1, Len(Managed)) = Managed /\ 1 \in 1..Len(Managed) + 1
  BY <1>1
<1>3. QED
  BY <1>2 DEF Todos, Tvs, ToSet

LEMMA JobIs == Job = [keys : SUBSET Tvs, todo : Todos]
BY DEF Job, Todos

\* The exceptions that a cut leaves behind.
LEMMA CutFacts ==
  ASSUME TopologyIInv, NEW cut \in SUBSET Handlers, told' = ToldWithout(cut)
  PROVE  /\ told' \in [Tvs -> Handlers \cup {"nobody"}]
         /\ \A t \in Tvs, h \in Handlers :
              told'[t] = h => told[t] = h /\ (h \in cut => jobs[h] = {})
BY NobodyIsNoHandler DEF ToldWithout, TopologyIInv, TopologyTypes

LEMMA Singletons == ASSUME NEW S, NEW s \in SUBSET S, s = {} \/ \E x \in S : s = {x}
                    PROVE  Cardinality(s) <= 1
<1>1. CASE s = {}
  BY <1>1, FS_EmptySet
<1>2. CASE \E x \in S : s = {x}
  <2>1. PICK x \in S : s = {x}
    BY <1>2
  <2>2. Cardinality(s) = 1
    BY <2>1, FS_Singleton
  <2>3. QED
    BY <2>2
<1>3. QED
  BY <1>1, <1>2

LEMMA TopologyTypesHold == TopologyIInv => TopologyTypeOK
<1> SUFFICES ASSUME TopologyIInv PROVE TopologyTypeOK
  OBVIOUS
<1>1. \A h \in Handlers : jobs[h] \subseteq Job /\ Cardinality(jobs[h]) <= 1
  BY Singletons DEF TopologyIInv, TopologyTypes
<1>2. /\ last \subseteq SUBSET Tvs /\ Cardinality(last) <= 1
      /\ file \subseteq SUBSET Tvs /\ Cardinality(file) <= 1
  <2>1. last \in SUBSET SUBSET Tvs /\ file \in SUBSET SUBSET Tvs
    BY DEF TopologyIInv, TopologyTypes
  <2>2. QED
    BY <2>1, Singletons DEF TopologyIInv, TopologyTypes
<1>3. QED
  BY <1>1, <1>2 DEF TopologyTypeOK, TopologyIInv, TopologyTypes, HandlersLive

-----------------------------------------------------------------------------
(* The initial states, and the properties                                  *)

LEMMA TopologyInitHolds == TopologyInit => TopologyIInv
<1> SUFFICES ASSUME TopologyInit PROVE TopologyIInv
  OBVIOUS
<1>1. moves \in 0..MaxMoves
  BY TopologyAssumption DEF TopologyInit
<1>2. TopologyTypes
  BY <1>1, NobodyIsNoHandler DEF TopologyInit, TopologyTypes
<1>3. HandlersLive /\ Told /\ Noted /\ Saved
  BY NobodyIsNoHandler DEF TopologyInit, HandlersLive, Told, Noted, Saved
<1>4. QED
  BY <1>2, <1>3 DEF TopologyIInv

LEMMA FollowsHolds == TopologyIInv => Follows
BY DEF TopologyIInv, Noted, Agrees, Follows

LEMMA SavedHolds == TopologyIInv => AsSaved
<1> SUFFICES ASSUME TopologyIInv, AtRest, NEW t \in Tvs, NEW keys \in file,
                    told[t] = saver, saver # "nobody"
             PROVE  t \in on <=> t \in keys
  BY DEF AsSaved
<1>1. saver \in Handlers /\ jobs[saver] = {}
  BY DEF TopologyIInv, TopologyTypes, AtRest
<1>2. QED
  BY <1>1 DEF TopologyIInv, Saved, Agrees

-----------------------------------------------------------------------------
(* The steps                                                               *)

\* A step that begins no job and turns and tells nothing.
LEMMA TopologyStutters == TopologyIInv /\ UNCHANGED topologyVars => TopologyIInv'
BY DEF TopologyIInv, TopologyTypes, HandlersLive, Told, Noted, Saved, Agrees, topologyVars, topologyHistory

LEMMA BootsHolds == TopologyIInv /\ Boots => TopologyIInv'
BY DEF TopologyIInv, TopologyTypes, HandlersLive, Told, Noted, Saved, Agrees, topologyHistory, Boots

LEMMA MovesBound == TopologyIInv /\ Moves => moves' \in 0..MaxMoves
BY TopologyAssumption DEF TopologyIInv, TopologyTypes, Moves

LEMMA ReplugsHolds == ASSUME TopologyIInv, NEW t \in Tvs, Replugs(t) PROVE TopologyIInv'
<1>1. TopologyTypes'
  BY MovesBound DEF TopologyIInv, TopologyTypes, Replugs, topologyHistory
<1>2. QED
  BY <1>1 DEF TopologyIInv, HandlersLive, Told, Noted, Saved, Agrees, topologyHistory, Replugs

LEMMA FirstPollHolds == TopologyIInv /\ FirstPoll => TopologyIInv'
<1> SUFFICES ASSUME TopologyIInv, FirstPoll PROVE TopologyIInv'
  OBVIOUS
<1>1. Present \in SUBSET Tvs
  BY DEF Present, TopologyIInv, TopologyTypes
<1>2. QED
  BY <1>1 DEF TopologyIInv, TopologyTypes, HandlersLive, Told, Noted, Saved, Agrees, topologyHistory, FirstPoll

\* A handler that is not at work begins.
LEMMA BegunFacts ==
  ASSUME TopologyIInv, NEW h \in Handlers, jobs[h] = {}, NEW keys \in SUBSET Tvs,
         jobs' = Begun(h, keys), UNCHANGED <<keep, last, file, plugged, on, moves, topologyHistory>>
  PROVE  /\ jobs' \in [Handlers -> SUBSET Job]
         /\ \A g \in Handlers : jobs'[g] = {} \/ \E job \in Job : jobs'[g] = {job}
         /\ \A g \in Handlers : g # h => jobs'[g] = jobs[g]
         /\ jobs'[h] # {} /\ Told' /\ Noted' /\ Saved'
<1> DEFINE begun == [keys |-> keys, todo |-> Managed]
<1>1. begun \in Job /\ Tvs \ ToSet(begun.todo) = {}
  BY ListEnds, JobIs
<1>2. /\ jobs \in [Handlers -> SUBSET Job] /\ jobs' = [jobs EXCEPT ![h] = {begun}]
      /\ \A g \in Handlers : jobs[g] = {} \/ \E job \in Job : jobs[g] = {job}
  BY DEF Begun, TopologyIInv, TopologyTypes
<1> HIDE DEF begun
<1>3. jobs' \in [Handlers -> SUBSET Job] /\ jobs'[h] = {begun}
      /\ \A g \in Handlers : g # h => jobs'[g] = jobs[g]
  BY <1>1, <1>2
<1>4. \A g \in Handlers : jobs'[g] = {} \/ \E job \in Job : jobs'[g] = {job}
  BY <1>1, <1>2, <1>3
<1>5. Told'
  BY <1>1, <1>3 DEF Told, Agrees, TopologyIInv, topologyHistory
<1>6. Noted' /\ Saved'
  BY <1>3, NobodyIsNoHandler DEF Noted, Saved, Agrees, TopologyIInv, topologyHistory
<1>7. QED
  BY <1>3, <1>4, <1>5, <1>6

LEMMA PollHolds == TopologyIInv /\ Poll => TopologyIInv'
<1> SUFFICES ASSUME TopologyIInv, Poll PROVE TopologyIInv'
  OBVIOUS
<1>1. Present \in SUBSET Tvs /\ jobs' = Begun("watch", Present) /\ jobs["watch"] = {}
  BY DEF Present, TopologyIInv, TopologyTypes, Poll
<1>2. UNCHANGED <<keep, last, file, plugged, on, moves, topologyHistory>>
      /\ daemon' = daemon /\ booted' = booted /\ daemon = "up" /\ last # {}
  BY DEF Poll
<1>3. /\ jobs' \in [Handlers -> SUBSET Job]
      /\ \A g \in Handlers : jobs'[g] = {} \/ \E job \in Job : jobs'[g] = {job}
      /\ jobs'["boot"] = jobs["boot"] /\ Told' /\ Noted' /\ Saved'
  BY <1>1, <1>2, BegunFacts, NobodyIsNoHandler
<1>4. QED
  BY <1>2, <1>3 DEF TopologyIInv, TopologyTypes, HandlersLive, topologyHistory

LEMMA OnBootHolds == TopologyIInv /\ OnBoot => TopologyIInv'
<1> SUFFICES ASSUME TopologyIInv, OnBoot PROVE TopologyIInv'
  OBVIOUS
<1>1. jobs["boot"] = {} /\ daemon # "down" /\ booted' = TRUE /\ daemon' = daemon
      /\ UNCHANGED <<keep, last, file, plugged, on, moves, topologyHistory>>
  BY DEF OnBoot, TopologyIInv, HandlersLive
<1>2. CASE jobs' = jobs
  BY <1>1, <1>2 DEF TopologyIInv, TopologyTypes, HandlersLive, Told, Noted, Saved, Agrees, topologyHistory
<1>3. ASSUME NEW keys \in SUBSET Tvs, jobs' = Begun("boot", keys) PROVE TopologyIInv'
  <2>1. /\ jobs' \in [Handlers -> SUBSET Job]
        /\ \A g \in Handlers : jobs'[g] = {} \/ \E job \in Job : jobs'[g] = {job}
        /\ jobs'["watch"] = jobs["watch"] /\ Told' /\ Noted' /\ Saved'
    BY <1>1, <1>3, BegunFacts, NobodyIsNoHandler
  <2>2. QED
    BY <1>1, <2>1 DEF TopologyIInv, TopologyTypes, HandlersLive, topologyHistory
<1>4. jobs' = jobs \/ \E keys \in SUBSET Tvs : jobs' = Begun("boot", keys)
  BY DEF OnBoot, RestoreTopology, TopologyIInv, TopologyTypes
<1>5. QED
  BY <1>2, <1>3, <1>4

LEMMA TurnsHolds == ASSUME TopologyIInv, NEW t \in Tvs, Turns(t) PROVE TopologyIInv'
<1>1. TopologyTypes'
  <2>1. moves' \in 0..MaxMoves /\ on' \subseteq Tvs
    BY MovesBound DEF TopologyIInv, TopologyTypes, Turns
  <2>2. told' \in [Tvs -> Handlers \cup {"nobody"}]
    BY DEF TopologyIInv, TopologyTypes, Turns
  <2>3. QED
    BY <2>1, <2>2 DEF TopologyIInv, TopologyTypes, Turns
<1>2. /\ told' = [told EXCEPT ![t] = "nobody"] /\ told \in [Tvs -> Handlers \cup {"nobody"}]
      /\ on' = IF t \in on THEN on \ {t} ELSE on \cup {t}
      /\ UNCHANGED <<daemon, booted, last, jobs, file, saver, applied>>
  BY DEF Turns, TopologyIInv, TopologyTypes
<1>3. ASSUME NEW h \in Handlers, NEW keys, NEW s \in Tvs, Agrees(h, keys, s)
      PROVE  Agrees(h, keys, s)'
  BY <1>2, <1>3, NobodyIsNoHandler DEF Agrees
<1>4. QED
  BY <1>1, <1>2, <1>3, NobodyIsNoHandler DEF TopologyIInv, HandlersLive, Told, Noted, Saved

\* What h has told is no longer told by the other one.
LEMMA TellHolds == ASSUME TopologyIInv, NEW h \in Handlers, Tell(h) PROVE TopologyIInv'
<1>1. PICK job \in jobs[h] :
        /\ job.todo # <<>>
        /\ jobs' = [jobs EXCEPT ![h] = {[job EXCEPT !.todo = Tail(job.todo)]}]
        /\ \E ok \in BOOLEAN :
             /\ on' = IF ~ok THEN on ELSE IF Wanted(job, Head(job.todo))
                                         THEN on \cup {Head(job.todo)} ELSE on \ {Head(job.todo)}
             /\ told' = [told EXCEPT ![Head(job.todo)] = IF ok THEN h ELSE "nobody"]
        /\ UNCHANGED <<keep, daemon, booted, last, file, plugged, moves, saver, applied>>
  BY DEF Tell
<1> DEFINE first == Head(job.todo)
           rest == [job EXCEPT !.todo = Tail(job.todo)]
<1>2. job \in [keys : SUBSET Tvs, todo : Todos] /\ jobs[h] = {job}
  BY <1>1, JobIs DEF TopologyIInv, TopologyTypes
<1>3. /\ rest \in Job /\ rest.keys = job.keys /\ rest.todo = Tail(job.todo)
      /\ job.keys \in SUBSET Tvs /\ first \in Tvs
      /\ \A t \in Tvs \ ToSet(rest.todo) : t = first \/ t \in Tvs \ ToSet(job.todo)
  <2>1. Tail(job.todo) \in Todos /\ first \in Tvs
        /\ \A t : t \in ToSet(job.todo) => t = first \/ t \in ToSet(Tail(job.todo))
    BY <1>1, <1>2, TodoFacts
  <2>2. rest \in [keys : SUBSET Tvs, todo : Todos]
        /\ rest.keys = job.keys /\ rest.todo = Tail(job.todo)
    BY <2>1, <1>2
  <2>3. QED
    BY <2>1, <2>2, <1>2, JobIs
<1>4. PICK ok \in BOOLEAN :
        /\ on' = IF ~ok THEN on ELSE IF first \in job.keys THEN on \cup {first} ELSE on \ {first}
        /\ told' = [told EXCEPT ![first] = IF ok THEN h ELSE "nobody"]
  BY <1>1 DEF Wanted
<1> HIDE DEF first, rest
<1>5. jobs' = [jobs EXCEPT ![h] = {rest}]
  BY <1>1 DEF rest
<1>6. /\ jobs' \in [Handlers -> SUBSET Job] /\ jobs'[h] = {rest}
      /\ \A g \in Handlers : g # h => jobs'[g] = jobs[g]
      /\ \A g \in Handlers : jobs'[g] = {} \/ \E j \in Job : jobs'[g] = {j}
      /\ \A g \in Handlers : jobs'[g] = {} <=> jobs[g] = {}
  BY <1>2, <1>3, <1>5 DEF TopologyIInv, TopologyTypes
<1>7. /\ told \in [Tvs -> Handlers \cup {"nobody"}] /\ told' \in [Tvs -> Handlers \cup {"nobody"}]
      /\ told'[first] \in {h, "nobody"} /\ \A t \in Tvs : t # first => told'[t] = told[t]
      /\ told'[first] = h => (first \in on' <=> first \in job.keys)
      /\ on' \subseteq Tvs /\ \A t \in Tvs : t # first => (t \in on' <=> t \in on)
  BY <1>3, <1>4, NobodyIsNoHandler DEF TopologyIInv, TopologyTypes
<1>8. Agrees(h, job.keys, first)'
  BY <1>7 DEF Agrees
<1>9. ASSUME NEW g \in Handlers, NEW keys, NEW t \in Tvs, Agrees(g, keys, t), g # h \/ t # first
      PROVE  Agrees(g, keys, t)'
  BY <1>7, <1>9, NobodyIsNoHandler DEF Agrees
<1>10. TopologyTypes' /\ HandlersLive'
  BY <1>1, <1>6, <1>7, NobodyIsNoHandler DEF TopologyIInv, TopologyTypes, HandlersLive
<1>11. Told'
  <2> SUFFICES ASSUME NEW g \in Handlers, NEW j \in jobs'[g], NEW t \in Tvs \ ToSet(j.todo)
               PROVE  Agrees(g, j.keys, t)'
    BY DEF Told
  <2>1. CASE g # h
    BY <2>1, <1>6, <1>9 DEF TopologyIInv, Told
  <2>2. CASE g = h
    <3>1. j = rest
      BY <2>2, <1>6
    <3>2. t = first \/ Agrees(h, job.keys, t)
      BY <3>1, <1>2, <1>3 DEF TopologyIInv, Told
    <3>3. QED
      BY <3>1, <3>2, <2>2, <1>3, <1>8, <1>9
  <2>3. QED
    BY <2>1, <2>2
<1>12. Noted'
  BY <1>1, <1>2, <1>6, <1>9, NobodyIsNoHandler DEF TopologyIInv, Noted
<1>13. Saved'
  BY <1>1, <1>2, <1>6, <1>9 DEF TopologyIInv, Saved
<1>14. QED
  BY <1>10, <1>11, <1>12, <1>13 DEF TopologyIInv

LEMMA FinishHolds == ASSUME TopologyIInv, NEW h \in Handlers, Finish(h) PROVE TopologyIInv'
<1>1. PICK job \in jobs[h] :
        /\ job.todo = <<>> /\ jobs' = [jobs EXCEPT ![h] = {}]
        /\ last' = IF h = "watch" THEN {job.keys} ELSE last
        /\ applied' = (applied \/ h = "watch")
        /\ Saves(h, job.keys)
        /\ UNCHANGED <<keep, daemon, booted, plugged, on, moves, told>>
  BY DEF Finish
<1>2. /\ job \in [keys : SUBSET Tvs, todo : Todos] /\ jobs[h] = {job}
      /\ job.keys \in SUBSET Tvs
  BY <1>1, JobIs DEF TopologyIInv, TopologyTypes
<1>3. \A t \in Tvs : Agrees(h, job.keys, t)
  BY <1>1, <1>2, ListEnds DEF TopologyIInv, Told
<1>4. /\ jobs' \in [Handlers -> SUBSET Job] /\ jobs'[h] = {}
      /\ \A g \in Handlers : g # h => jobs'[g] = jobs[g]
      /\ \A g \in Handlers : jobs'[g] = {} \/ \E j \in Job : jobs'[g] = {j}
  BY <1>1 DEF TopologyIInv, TopologyTypes
<1>5. \/ file' = {job.keys} /\ saver' = h
      \/ file' = file /\ saver' = "nobody"
      \/ file' = {job.keys} /\ saver' = "nobody"
  BY <1>1 DEF Saves
<1>6. ASSUME NEW g \in Handlers, NEW keys, NEW t \in Tvs, Agrees(g, keys, t)
      PROVE  Agrees(g, keys, t)'
  BY <1>1, <1>6 DEF Agrees
<1>7. TopologyTypes'
  BY <1>1, <1>2, <1>4, <1>5 DEF TopologyIInv, TopologyTypes
<1>8. HandlersLive'
  BY <1>1, <1>2, <1>4, NobodyIsNoHandler DEF TopologyIInv, HandlersLive
<1>9. Told'
  BY <1>4, <1>6 DEF TopologyIInv, Told
<1>10. Noted'
  BY <1>1, <1>3, <1>4, <1>6, NobodyIsNoHandler DEF TopologyIInv, Noted
<1>11. Saved'
  BY <1>3, <1>4, <1>5, <1>6, NobodyIsNoHandler DEF TopologyIInv, Saved
<1>12. QED
  BY <1>7, <1>8, <1>9, <1>10, <1>11 DEF TopologyIInv

\* Cutting handlers short, and forgetting what the watcher has noted.
LEMMA CutHolds ==
  ASSUME TopologyIInv, NEW cut \in SUBSET Handlers, "watch" \in cut, told' = ToldWithout(cut),
         jobs' \in [Handlers -> SUBSET Job],
         \A h \in Handlers : jobs'[h] = IF h \in cut THEN {} ELSE jobs[h],
         last' = {}, applied' = FALSE, file' \in {file, {}},
         UNCHANGED <<keep, plugged, on, moves, saver>>,
         daemon' \in {"down", "stopping"}, booted' \in BOOLEAN,
         jobs'["boot"] # {} => daemon' # "down" /\ booted'
  PROVE  TopologyIInv'
<1>1. ASSUME NEW h \in Handlers, NEW keys, NEW t \in Tvs, Agrees(h, keys, t)
      PROVE  Agrees(h, keys, t)'
  BY <1>1, CutFacts DEF Agrees
<1>2. TopologyTypes'
  <2>1. told' \in [Tvs -> Handlers \cup {"nobody"}]
    BY CutFacts
  <2>2. \A h \in Handlers : jobs'[h] = {} \/ \E job \in Job : jobs'[h] = {job}
    BY DEF TopologyIInv, TopologyTypes
  <2>3. file' = {} \/ \E keys \in SUBSET Tvs : file' = {keys}
    BY DEF TopologyIInv, TopologyTypes
  <2>4. QED
    BY <2>1, <2>2, <2>3 DEF TopologyIInv, TopologyTypes
<1>3. HandlersLive' /\ Noted'
  BY NobodyIsNoHandler DEF HandlersLive, Noted
<1>4. Told'
  BY <1>1 DEF TopologyIInv, Told
<1>5. Saved'
  <2> SUFFICES ASSUME NEW h \in Handlers, saver' = h, jobs'[h] = {},
                      NEW keys \in file', NEW t \in Tvs
               PROVE  Agrees(h, keys, t)'
    BY DEF Saved
  <2>1. CASE jobs[h] = {}
    BY <2>1, <1>1 DEF TopologyIInv, Saved
  <2>2. CASE jobs[h] # {}
    BY <2>2, CutFacts DEF Agrees
  <2>3. QED
    BY <2>1, <2>2
<1>6. QED
  BY <1>2, <1>3, <1>4, <1>5 DEF TopologyIInv

LEMMA StopsHolds == TopologyIInv /\ Stops => TopologyIInv'
<1> SUFFICES ASSUME TopologyIInv, Stops PROVE TopologyIInv'
  OBVIOUS
<1>1. /\ jobs' \in [Handlers -> SUBSET Job]
      /\ \A h \in Handlers : jobs'[h] = IF h \in {"watch"} THEN {} ELSE jobs[h]
  BY DEF Stops, TopologyIInv, TopologyTypes
<1>2. jobs'["boot"] # {} => daemon' # "down" /\ booted'
  BY <1>1, NobodyIsNoHandler DEF Stops, TopologyIInv, HandlersLive
<1>3. /\ told' = ToldWithout({"watch"}) /\ last' = {} /\ applied' = FALSE
      /\ file' \in {file, {}} /\ daemon' \in {"down", "stopping"} /\ booted' \in BOOLEAN
      /\ UNCHANGED <<keep, plugged, on, moves, saver>>
  BY DEF Stops, TopologyIInv, TopologyTypes
<1>4. QED
  BY <1>1, <1>2, <1>3, CutHolds, NobodyIsNoHandler

LEMMA DiesHolds == TopologyIInv /\ Dies => TopologyIInv'
<1> SUFFICES ASSUME TopologyIInv, Dies PROVE TopologyIInv'
  OBVIOUS
<1>1. /\ jobs' \in [Handlers -> SUBSET Job]
      /\ \A h \in Handlers : jobs'[h] = IF h \in Handlers THEN {} ELSE jobs[h]
  BY DEF Dies
<1>2. /\ told' = ToldWithout(Handlers) /\ last' = {} /\ applied' = FALSE
      /\ file' \in {file, {}} /\ daemon' \in {"down", "stopping"} /\ booted' \in BOOLEAN
      /\ UNCHANGED <<keep, plugged, on, moves, saver>>
  BY DEF Dies
<1>3. jobs'["boot"] = {} /\ "watch" \in Handlers
  BY <1>1, NobodyIsNoHandler
<1>4. QED
  BY <1>1, <1>2, <1>3, CutHolds

-----------------------------------------------------------------------------
(* The theorems                                                            *)

LEMMA TopologyNextHolds == TopologyIInv /\ [TopologyNext]_topologyVars => TopologyIInv'
<1> SUFFICES ASSUME TopologyIInv, [TopologyNext]_topologyVars PROVE TopologyIInv'
  OBVIOUS
<1>1. CASE Life
  BY <1>1, BootsHolds, StopsHolds, DiesHolds DEF Life
<1>2. CASE OnBoot
  BY <1>2, OnBootHolds
<1>3. CASE Watch
  BY <1>3, FirstPollHolds, PollHolds DEF Watch
<1>4. ASSUME NEW h \in Handlers, Handle(h) PROVE TopologyIInv'
  BY <1>4, TellHolds, FinishHolds DEF Handle
<1>5. ASSUME NEW t \in Tvs, Replugs(t) \/ Turns(t) PROVE TopologyIInv'
  BY <1>5, ReplugsHolds, TurnsHolds
<1>6. CASE UNCHANGED topologyVars
  BY <1>6, TopologyStutters
<1>7. QED
  BY <1>1, <1>2, <1>3, <1>4, <1>5, <1>6 DEF TopologyNext

\* The inductive invariant holds in every reachable state.
THEOREM TopologyIInvHolds == TopologySpec => []TopologyIInv
BY TopologyInitHolds, TopologyNextHolds, PTL DEF TopologySpec

\* The types, and: when the watcher is at rest, has applied what it noted and sees
\* nothing new, each TV that it has told last is on exactly if its display is there,
\* whatever was plugged while it was turning the TVs (TopologyWatcher._loop notes the
\* keys it has applied, not the ones that are there by then).
THEOREM TopologyInvHolds == TopologySpec => []TopologyInv
<1>1. TopologyIInv => TopologyInv
  BY TopologyTypesHold, FollowsHolds DEF TopologyInv
<1>2. QED
  BY <1>1, TopologyIInvHolds, PTL

\* What topology.json holds for the next boot is what the TVs were told by the handler
\* that wrote it, across crashes in the midst of a handler or of the write, and with
\* the boot's restore and the watcher at work side by side.
THEOREM AsSavedHolds == TopologySpec => []AsSaved
BY SavedHolds, TopologyIInvHolds, PTL

-----------------------------------------------------------------------------
(* The monitors of input devices: the inductive invariant                  *)

\* InputsTypeOK in three parts, with the name under examination as what it can be.
NodeTypes ==
  /\ class \in {"evdev", "hidraw"} /\ node \in [Paths -> Device] /\ open \in [Paths -> Device]
  /\ born \in 0..MaxDevices /\ heard \subseteq DeviceKinds

TaskTypes ==
  /\ monitor \in {"new", "running", "stopped"} /\ later \in Nat
  /\ news \in BOOLEAN /\ inotify \in BOOLEAN /\ periodic \in BOOLEAN /\ late \in BOOLEAN

ScanTypes ==
  /\ scan \in [on : BOOLEAN, todo : SUBSET Paths, path : SUBSET Paths, opened : Device]
  /\ scan.path = {} \/ \E p \in Paths : scan.path = {p}
  /\ scan.path = {} <=> ~Opened(scan.opened)

InputsTypes == NodeTypes /\ TaskTypes /\ ScanTypes

\* A device has the number with which it was born; no device cannot be opened.
Numbered(dev) ==
  dev.id \in 0..born /\ (Opened(dev) <=> dev.id # 0) /\ (dev.readable => Opened(dev))

AllNumbered ==
  (\A p \in Paths : Numbered(node[p]) /\ Numbered(open[p])) /\ Numbered(scan.opened)

\* A descriptor of the device that is there is of its kind.
Matches(p, dev) == Opened(dev) /\ dev.id = node[p].id => dev.kind = node[p].kind

\* What has been opened may be gone; what is there is what it was taken for.
Truthful ==
  /\ \A p \in Paths : Matches(p, open[p])
  /\ \A p \in scan.path : Matches(p, scan.opened)
  /\ \A p \in Paths :
       Opened(open[p]) /\ open[p].id = node[p].id /\ p \notin synthetic => open[p].kind = "hand"

\* Between scans there is nothing to look at, and after stop() no scan begins but
\* those that call_later has.
ScansAtRest ==
  /\ ~scan.on => scan.todo = {} /\ scan.path = {}
  /\ monitor = "stopped" /\ ~late => ~scan.on /\ ~periodic /\ \A p \in Paths : ~Opened(open[p])

Marks == synthetic \subseteq {p \in Paths : Opened(open[p])}

InputsIInv == InputsTypes /\ AllNumbered /\ Truthful /\ ScansAtRest /\ Marks /\ NeverMistaken

LEMMA NoDeviceFacts ==
  /\ NoDevice \in Device /\ ~Opened(NoDevice) /\ NoDevice.id = 0 /\ ~NoDevice.readable
  /\ \A dev \in Device : dev.kind \in DeviceKinds \cup {"none"} /\ dev.id \in 0..MaxDevices
BY InputsAssumption DEF NoDevice, Device, Opened

\* What scans begin with.
LEMMA ScansFacts ==
  ASSUME NEW paths \in SUBSET Paths
  PROVE  /\ Scans(paths) \in [on : BOOLEAN, todo : SUBSET Paths, path : SUBSET Paths, opened : Device]
         /\ Scans(paths).on /\ Scans(paths).todo = paths /\ Scans(paths).path = {}
         /\ Scans(paths).opened = NoDevice
         /\ NoScan \in [on : BOOLEAN, todo : SUBSET Paths, path : SUBSET Paths, opened : Device]
         /\ ~NoScan.on /\ NoScan.todo = {} /\ NoScan.path = {} /\ NoScan.opened = NoDevice
BY NoDeviceFacts DEF Scans, NoScan

LEMMA InputsInitHolds == InputsInit => InputsIInv
<1> SUFFICES ASSUME InputsInit PROVE InputsIInv
  OBVIOUS
<1>1. InputsTypes
  BY NoDeviceFacts, ScansFacts, InputsAssumption DEF InputsInit, InputsTypes, NodeTypes, TaskTypes, ScanTypes, Opened
<1>2. AllNumbered /\ Truthful /\ Marks
  BY NoDeviceFacts, ScansFacts DEF InputsInit, AllNumbered, Numbered, Truthful, Matches, Marks
<1>3. QED
  BY <1>1, <1>2, ScansFacts DEF InputsInit, InputsIInv, ScansAtRest, NeverMistaken

\* A change of a node: to a device that is new, to one that is now readable, to none.
LEMMA BecomesHolds ==
  ASSUME InputsIInv, NEW p \in Paths, NEW dev \in Device, Becomes(p, dev), born' \in born..MaxDevices,
         dev.id \in 0..born', Opened(dev) <=> dev.id # 0, dev.readable => Opened(dev),
         dev.id \in {0, node[p].id, born + 1}, dev.id = node[p].id => dev.kind = node[p].kind
  PROVE  InputsIInv'
<1>1. /\ node' = [node EXCEPT ![p] = dev] /\ news' \in BOOLEAN
      /\ node' \in [Paths -> Device] /\ born \in Nat /\ born' \in 0..MaxDevices
      /\ UNCHANGED <<class, monitor, inotify, periodic, later, scan, open, synthetic, heard, late>>
  BY InputsAssumption DEF Becomes, InputsIInv, InputsTypes, NodeTypes, TaskTypes
<1> NodeTypes' /\ TaskTypes' /\ ScanTypes'
  BY <1>1 DEF InputsIInv, InputsTypes, NodeTypes, TaskTypes, ScanTypes, Opened
<1>2. InputsTypes' /\ ScansAtRest' /\ Marks' /\ NeverMistaken'
  BY <1>1 DEF InputsIInv, InputsTypes, ScansAtRest, Marks, NeverMistaken, Opened
<1>3. AllNumbered'
  BY <1>1, InputsAssumption DEF InputsIInv, AllNumbered, Numbered, Opened
<1>4. ASSUME NEW q \in Paths, NEW d, Numbered(d), Matches(q, d)
      PROVE  Matches(q, d)' /\ (Opened(d) /\ d.id = node'[q].id => d.id = node[q].id)
  BY <1>1, <1>4 DEF Matches, Numbered, Opened, InputsIInv, InputsTypes, NodeTypes
<1>5. QED
  BY <1>1, <1>2, <1>3, <1>4 DEF InputsIInv, InputsTypes, ScanTypes, Truthful, AllNumbered, Opened
LEMMA KernelHolds ==
  ASSUME InputsIInv, NEW p \in Paths, Appears(p) \/ Grants(p) \/ Vanishes(p)
  PROVE  InputsIInv'
<1>1. born \in Nat /\ born <= MaxDevices /\ node[p] \in Device /\ Numbered(node[p])
  BY InputsAssumption DEF InputsIInv, InputsTypes, NodeTypes, AllNumbered
<1>2. CASE Appears(p)
  <2>1. PICK kind \in DeviceKinds, readable \in BOOLEAN :
          Becomes(p, [kind |-> kind, id |-> born + 1, readable |-> readable])
    BY <1>2 DEF Appears
  <2> DEFINE dev == [kind |-> kind, id |-> born + 1, readable |-> readable]
  <2>2. born + 1 <= MaxDevices /\ born' = born + 1
    BY <1>1, <1>2, InputsAssumption DEF Appears
  <2>3. dev \in Device /\ dev.id = born + 1 /\ dev.id # node[p].id /\ Opened(dev)
    BY <1>1, <2>2, InputsAssumption DEF Device, DeviceKinds, Opened, Numbered
  <2> HIDE DEF dev
  <2>4. Becomes(p, dev)
    BY <2>1 DEF dev
  <2>5. QED
    BY <1>1, <2>2, <2>3, <2>4, BecomesHolds, InputsAssumption
<1>3. CASE Grants(p)
  <2> DEFINE dev == [node[p] EXCEPT !.readable = TRUE]
  <2>1. dev \in Device /\ dev.id = node[p].id /\ dev.kind = node[p].kind
    BY <1>1 DEF Device
  <2>2. Becomes(p, dev) /\ born' = born /\ Opened(node[p])
    BY <1>3 DEF Grants
  <2> HIDE DEF dev
  <2>3. QED
    BY <1>1, <2>1, <2>2, BecomesHolds, InputsAssumption DEF Numbered, Opened
<1>4. CASE Vanishes(p)
  <2>1. Becomes(p, NoDevice) /\ born' = born /\ NoDevice.id # node[p].id
    BY <1>1, <1>4, NoDeviceFacts DEF Vanishes, Numbered
  <2>2. QED
    BY <1>1, <2>1, NoDeviceFacts, BecomesHolds, InputsAssumption
<1>5. QED
  BY <1>2, <1>3, <1>4

\* A scan begins; it may be one that was still to come when the monitor stopped.
LEMMA ScanBeginsHolds ==
  ASSUME InputsIInv, StartsMonitor \/ LaterScans \/ Rescans
  PROVE  InputsIInv'
<1>1. PICK paths \in SUBSET Paths : scan' = Scans(paths)
  BY DEF StartsMonitor, LaterScans, Rescans, PresentPaths, OpenPaths
<1>2. /\ UNCHANGED <<class, node, born, news, inotify, periodic, open, synthetic, heard>>
      /\ monitor' = "stopped" => late' \/ (periodic /\ monitor = "stopped" /\ late' = late)
  BY DEF StartsMonitor, LaterScans, Rescans, kernel
<1>3. InputsTypes'
  <2>1. NodeTypes'
    BY <1>2 DEF InputsIInv, InputsTypes, NodeTypes
  <2>2. TaskTypes'
    <3>1. later' \in Nat
      BY DEF StartsMonitor, LaterScans, Rescans, InputsIInv, InputsTypes, TaskTypes
    <3>2. monitor' \in {"new", "running", "stopped"}
      BY DEF StartsMonitor, LaterScans, Rescans, InputsIInv, InputsTypes, TaskTypes
    <3>3. late' = late \/ late' = (late \/ monitor = "stopped")
      BY DEF StartsMonitor, LaterScans, Rescans
    <3>4. late' \in BOOLEAN
      BY <3>3 DEF InputsIInv, InputsTypes, TaskTypes
    <3>5. QED
      BY <1>2, <3>1, <3>2, <3>4 DEF InputsIInv, InputsTypes, TaskTypes
  <2>3. ScanTypes'
    BY <1>1, ScansFacts, NoDeviceFacts DEF ScanTypes, Opened
  <2>4. QED
    BY <2>1, <2>2, <2>3 DEF InputsTypes
<1>4. AllNumbered' /\ Truthful' /\ Marks'
  <2>1. scan'.path = {} /\ scan'.opened = NoDevice
    BY <1>1, ScansFacts
  <2>2. AllNumbered'
    BY <1>2, <2>1, NoDeviceFacts, InputsAssumption
       DEF InputsIInv, InputsTypes, NodeTypes, AllNumbered, Numbered, Opened
  <2>3. Truthful' /\ Marks'
    BY <1>2, <2>1 DEF InputsIInv, Truthful, Matches, Marks, Opened
  <2>4. QED
    BY <2>2, <2>3
<1>5. ScansAtRest' /\ NeverMistaken'
  BY <1>1, <1>2, ScansFacts DEF InputsIInv, ScansAtRest, NeverMistaken
<1>6. QED
  BY <1>3, <1>4, <1>5 DEF InputsIInv

\* A name is closed, by the scan, or by the loop that cannot read from it.
LEMMA ClosesFacts ==
  ASSUME InputsIInv, NEW p \in Paths, Closes(p)
  PROVE  /\ open' \in [Paths -> Device] /\ open'[p] = NoDevice
         /\ \A q \in Paths : q # p => open'[q] = open[q]
         /\ synthetic' = synthetic \ {p}
BY NoDeviceFacts DEF Closes, InputsIInv, InputsTypes, NodeTypes

LEMMA LooksHolds == ASSUME InputsIInv, NEW p \in Paths, Looks(p) PROVE InputsIInv'
<1>1. /\ UNCHANGED <<class, node, born, news, monitor, inotify, periodic, later, heard, late>>
      /\ scan.path = {} /\ scan.on
      /\ \/ UNCHANGED <<open, synthetic>>
         \/ Closes(p)
  BY DEF Looks, InputsIInv, ScansAtRest, kernel
<1>2. /\ scan' \in [on : BOOLEAN, todo : SUBSET Paths, path : SUBSET Paths, opened : Device]
      /\ scan'.on = scan.on /\ scan'.path = scan.path /\ scan'.opened = scan.opened
  BY DEF Looks, InputsIInv, InputsTypes, ScanTypes
<1>3. InputsTypes'
  <2>1. NodeTypes'
    BY <1>1, ClosesFacts DEF InputsIInv, InputsTypes, NodeTypes
  <2>2. TaskTypes' /\ ScanTypes'
    BY <1>1, <1>2 DEF InputsIInv, InputsTypes, TaskTypes, ScanTypes, Opened
  <2>3. QED
    BY <2>1, <2>2 DEF InputsTypes
<1>4. AllNumbered' /\ Truthful' /\ Marks'
  <2>1. /\ \A q \in Paths : open'[q] = open[q] \/ open'[q] = NoDevice
        /\ synthetic' \subseteq synthetic
        /\ \A q \in Paths : Opened(open'[q]) /\ q \in synthetic => q \in synthetic'
        /\ \A q \in synthetic' : open'[q] = open[q]
    BY <1>1, ClosesFacts, NoDeviceFacts DEF InputsIInv, Marks
  <2>2. AllNumbered'
    BY <1>1, <1>2, <2>1, NoDeviceFacts, InputsAssumption
       DEF InputsIInv, InputsTypes, NodeTypes, AllNumbered, Numbered, Opened
  <2>3. Truthful' /\ Marks'
    BY <1>1, <1>2, <2>1, NoDeviceFacts DEF InputsIInv, Truthful, Matches, Marks, Opened
  <2>4. QED
    BY <2>2, <2>3
<1>5. ScansAtRest' /\ NeverMistaken'
  BY <1>1, <1>2, ClosesFacts DEF InputsIInv, ScansAtRest, NeverMistaken, Opened
<1>6. QED
  BY <1>3, <1>4, <1>5 DEF InputsIInv

LEMMA OpensHolds == ASSUME InputsIInv, NEW p \in Paths, Opens(p) PROVE InputsIInv'
<1>1. /\ UNCHANGED <<class, node, born, news, monitor, inotify, periodic, later, open, synthetic, heard, late>>
      /\ scan.path = {} /\ scan.on /\ node[p] \in Device
  BY DEF Opens, InputsIInv, InputsTypes, NodeTypes, ScansAtRest, kernel
<1>2. /\ scan' \in [on : BOOLEAN, todo : SUBSET Paths, path : SUBSET Paths, opened : Device]
      /\ scan'.on = scan.on
      /\ \/ scan'.path = {p} /\ scan'.opened = node[p] /\ node[p].readable
         \/ scan'.path = scan.path /\ scan'.opened = scan.opened
  BY <1>1 DEF Opens, InputsIInv, InputsTypes, ScanTypes
<1>3. node[p].readable => Opened(node[p])
  BY DEF InputsIInv, AllNumbered, Numbered
<1>4. InputsTypes'
  <2>1. NodeTypes' /\ TaskTypes'
    BY <1>1 DEF InputsIInv, InputsTypes, NodeTypes, TaskTypes
  <2>2. ScanTypes'
    BY <1>2, <1>3 DEF InputsIInv, InputsTypes, ScanTypes, Opened
  <2>3. QED
    BY <2>1, <2>2 DEF InputsTypes
<1>5. AllNumbered' /\ Truthful' /\ Marks'
  BY <1>1, <1>2 DEF InputsIInv, AllNumbered, Numbered, Truthful, Matches, Marks, Opened
<1>6. ScansAtRest' /\ NeverMistaken'
  BY <1>1, <1>2 DEF InputsIInv, ScansAtRest, NeverMistaken
<1>7. QED
  BY <1>4, <1>5, <1>6 DEF InputsIInv

\* What is accepted for somebody's at the TV, and not marked, is it if it is still there.
LEMMA JudgedFacts ==
  ASSUME InputsIInv, NEW p \in scan.path
  PROVE  /\ Marked(Judged(p)) => Acceptable(Judged(p))
         /\ Acceptable(Judged(p)) /\ ~Marked(Judged(p)) /\ scan.opened.id = node[p].id
              => scan.opened.kind = "hand"
<1>1. p \in Paths /\ node[p] \in Device /\ class \in {"evdev", "hidraw"} /\ Opened(scan.opened)
      /\ scan.opened \in Device
  BY DEF InputsIInv, InputsTypes, NodeTypes, ScanTypes
<1>2. scan.opened.id = node[p].id => scan.opened.kind = node[p].kind
  BY <1>1 DEF InputsIInv, Truthful, Matches
<1>3. scan.opened.kind \in DeviceKinds
  BY <1>1, NoDeviceFacts DEF Opened
<1>4. QED
  BY <1>1, <1>2, <1>3 DEF Judged, Acceptable, Marked, Injected, DeviceKinds

LEMMA AcceptsHolds == ASSUME InputsIInv, NEW p \in Paths, Accepts(p) PROVE InputsIInv'
<1>1. /\ UNCHANGED <<class, node, born, news, monitor, inotify, periodic, later, heard, late>>
      /\ p \in scan.path /\ scan.path = {p} /\ scan.on
      /\ Opened(scan.opened) /\ scan.opened \in Device /\ Numbered(scan.opened)
  BY DEF Accepts, InputsIInv, InputsTypes, ScanTypes, ScansAtRest, AllNumbered, kernel
<1>2. /\ scan' \in [on : BOOLEAN, todo : SUBSET Paths, path : SUBSET Paths, opened : Device]
      /\ scan'.on = scan.on /\ scan'.path = {} /\ scan'.opened = NoDevice
  BY NoDeviceFacts DEF Accepts, InputsIInv, InputsTypes, ScanTypes
<1>3. /\ open' \in [Paths -> Device] /\ \A q \in Paths : q # p => open'[q] = open[q]
      /\ \/ open'[p] = open[p] /\ synthetic' = synthetic
         \/ /\ open'[p] = scan.opened
            /\ \/ synthetic' = synthetic \cup {p}
               \/ synthetic' = synthetic \ {p} /\ (scan.opened.id = node[p].id => scan.opened.kind = "hand")
  BY <1>1, JudgedFacts DEF Accepts, InputsIInv, InputsTypes, NodeTypes
<1>4. InputsTypes'
  <2>1. NodeTypes' /\ TaskTypes'
    BY <1>1, <1>3 DEF InputsIInv, InputsTypes, NodeTypes, TaskTypes
  <2>2. ScanTypes'
    BY <1>2, NoDeviceFacts DEF ScanTypes, Opened
  <2>3. QED
    BY <2>1, <2>2 DEF InputsTypes
<1>5. AllNumbered'
  BY <1>1, <1>2, <1>3, NoDeviceFacts, InputsAssumption
     DEF InputsIInv, InputsTypes, NodeTypes, AllNumbered, Numbered, Opened
<1>6. Truthful' /\ Marks'
  BY <1>1, <1>2, <1>3 DEF InputsIInv, Truthful, Matches, Marks, Opened
<1>7. ScansAtRest' /\ NeverMistaken'
  BY <1>1, <1>2 DEF InputsIInv, ScansAtRest, NeverMistaken
<1>8. QED
  BY <1>4, <1>5, <1>6, <1>7 DEF InputsIInv

\* start() goes on after its first scan.
LEMMA EndsScanHolds == ASSUME InputsIInv, EndsScan PROVE InputsIInv'
<1>1. /\ UNCHANGED <<class, node, born, news, monitor, later, open, synthetic, heard, late>>
      /\ scan' = NoScan /\ inotify' \in BOOLEAN /\ periodic' \in BOOLEAN
      /\ monitor = "stopped" => periodic' = periodic
  BY DEF EndsScan, InputsIInv, InputsTypes, TaskTypes, kernel
<1>2. scan'.path = {} /\ scan'.todo = {} /\ scan'.opened = NoDevice /\ ~scan'.on
  BY <1>1, ScansFacts
<1>3. InputsTypes'
  <2>1. NodeTypes' /\ TaskTypes'
    BY <1>1 DEF InputsIInv, InputsTypes, NodeTypes, TaskTypes
  <2>2. ScanTypes'
    BY <1>1, <1>2, ScansFacts, NoDeviceFacts DEF ScanTypes, Opened
  <2>3. QED
    BY <2>1, <2>2 DEF InputsTypes
<1>4. AllNumbered'
  BY <1>1, <1>2, NoDeviceFacts, InputsAssumption
     DEF InputsIInv, InputsTypes, NodeTypes, AllNumbered, Numbered, Opened
<1>5. Truthful' /\ Marks'
  BY <1>1, <1>2 DEF InputsIInv, Truthful, Matches, Marks, Opened
<1>6. ScansAtRest' /\ NeverMistaken'
  BY <1>1, <1>2 DEF InputsIInv, ScansAtRest, NeverMistaken
<1>7. QED
  BY <1>3, <1>4, <1>5, <1>6 DEF InputsIInv

LEMMA OnInotifyHolds == ASSUME InputsIInv, OnInotify PROVE InputsIInv'
<1>1. UNCHANGED <<class, node, born, monitor, inotify, periodic, scan, open, synthetic, heard, late>>
  BY DEF OnInotify
<1>2. NodeTypes' /\ ScanTypes'
  BY <1>1 DEF InputsIInv, InputsTypes, NodeTypes, ScanTypes, Opened
<1>3. TaskTypes'
  <2>1. later' \in Nat
    BY DEF OnInotify, InputsIInv, InputsTypes, TaskTypes
  <2>2. news' \in BOOLEAN
    BY DEF OnInotify
  <2>3. QED
    BY <1>1, <2>1, <2>2 DEF InputsIInv, InputsTypes, TaskTypes
<1>4. AllNumbered' /\ Truthful' /\ Marks' /\ ScansAtRest' /\ NeverMistaken'
  BY <1>1 DEF InputsIInv, AllNumbered, Numbered, Truthful, Matches, Marks, ScansAtRest,
              NeverMistaken, Opened
<1>5. QED
  BY <1>2, <1>3, <1>4 DEF InputsIInv, InputsTypes

LEMMA ReadFailsHolds == ASSUME InputsIInv, NEW p \in Paths, ReadFails(p) PROVE InputsIInv'
<1>1. /\ UNCHANGED <<class, node, born, news, monitor, inotify, periodic, later, scan, heard, late>>
      /\ Closes(p) /\ ~scan.on /\ scan.path = {}
  BY DEF ReadFails, InputsIInv, ScansAtRest, kernel
<1>2. NodeTypes'
  BY <1>1, ClosesFacts DEF InputsIInv, InputsTypes, NodeTypes
<1>3. TaskTypes' /\ ScanTypes'
  BY <1>1 DEF InputsIInv, InputsTypes, TaskTypes, ScanTypes, Opened
<1>4. /\ \A q \in Paths : open'[q] = open[q] \/ open'[q] = NoDevice
      /\ synthetic' \subseteq synthetic
      /\ \A q \in Paths : Opened(open'[q]) /\ q \in synthetic => q \in synthetic'
      /\ \A q \in synthetic' : open'[q] = open[q]
  BY <1>1, ClosesFacts, NoDeviceFacts DEF InputsIInv, Marks
<1>5. AllNumbered'
  BY <1>1, <1>4, NoDeviceFacts, InputsAssumption
     DEF InputsIInv, InputsTypes, NodeTypes, AllNumbered, Numbered, Opened
<1>6. Truthful' /\ Marks'
  BY <1>1, <1>4, NoDeviceFacts DEF InputsIInv, Truthful, Matches, Marks, Opened
<1>7. ScansAtRest' /\ NeverMistaken'
  BY <1>1, <1>4, NoDeviceFacts DEF InputsIInv, ScansAtRest, NeverMistaken, Opened
<1>8. QED
  BY <1>2, <1>3, <1>5, <1>6, <1>7 DEF InputsIInv, InputsTypes

\* Only what is there can be heard, and of that only the marked is not a hand.
LEMMA HandlesHolds == ASSUME InputsIInv, NEW p \in Paths, Handles(p) PROVE InputsIInv'
<1>1. UNCHANGED <<class, node, born, news, monitor, inotify, periodic, later, scan, open, synthetic, late>>
  BY DEF Handles, kernel
<1>2. NeverMistaken'
  BY DEF Handles, TakenForSomeone, NeverMistaken, InputsIInv, Truthful
<1>3. NodeTypes'
  BY <1>1, <1>2 DEF InputsIInv, InputsTypes, NodeTypes, NeverMistaken, DeviceKinds
<1>4. TaskTypes' /\ ScanTypes'
  BY <1>1 DEF InputsIInv, InputsTypes, TaskTypes, ScanTypes, Opened
<1>5. AllNumbered' /\ Truthful' /\ Marks' /\ ScansAtRest'
  BY <1>1 DEF InputsIInv, AllNumbered, Numbered, Truthful, Matches, Marks, ScansAtRest, Opened
<1>6. QED
  BY <1>2, <1>3, <1>4, <1>5 DEF InputsIInv, InputsTypes

LEMMA StopsMonitorHolds == ASSUME InputsIInv, StopsMonitor PROVE InputsIInv'
<1>1. /\ UNCHANGED <<class, node, born, later, scan, heard, late>>
      /\ ~scan.on /\ scan.path = {} /\ synthetic' = {} /\ open' = [p \in Paths |-> NoDevice]
      /\ monitor' = "stopped" /\ inotify' = FALSE /\ news' = FALSE /\ periodic' = FALSE
  BY DEF StopsMonitor, InputsIInv, ScansAtRest
<1>2. NodeTypes'
  BY <1>1, NoDeviceFacts DEF InputsIInv, InputsTypes, NodeTypes
<1>3. TaskTypes' /\ ScanTypes'
  BY <1>1 DEF InputsIInv, InputsTypes, TaskTypes, ScanTypes, Opened
<1>4. AllNumbered'
  BY <1>1, NoDeviceFacts, InputsAssumption
     DEF InputsIInv, InputsTypes, NodeTypes, AllNumbered, Numbered, Opened
<1>5. Truthful' /\ Marks' /\ ScansAtRest' /\ NeverMistaken'
  BY <1>1, NoDeviceFacts
     DEF InputsIInv, Truthful, Matches, Marks, ScansAtRest, NeverMistaken, Opened
<1>6. QED
  BY <1>2, <1>3, <1>4, <1>5 DEF InputsIInv, InputsTypes

LEMMA InputsNextHolds == InputsIInv /\ [InputsNext]_inputsVars => InputsIInv'
<1> SUFFICES ASSUME InputsIInv, [InputsNext]_inputsVars PROVE InputsIInv'
  OBVIOUS
<1>1. CASE UNCHANGED inputsVars
  <2>1. UNCHANGED <<class, node, born, news, monitor, inotify, periodic, later, scan, open, synthetic, heard, late>>
    BY <1>1 DEF inputsVars, kernel
  <2>2. InputsTypes'
    BY <2>1 DEF InputsIInv, InputsTypes, NodeTypes, TaskTypes, ScanTypes, Opened
  <2>3. AllNumbered' /\ Truthful' /\ Marks' /\ ScansAtRest' /\ NeverMistaken'
    BY <2>1 DEF InputsIInv, AllNumbered, Numbered, Truthful, Matches, Marks, ScansAtRest,
                NeverMistaken, Opened
  <2>4. QED
    BY <2>2, <2>3 DEF InputsIInv
<1>2. CASE StartsMonitor
  BY <1>2, ScanBeginsHolds
<1>3. CASE StopsMonitor
  BY <1>3, StopsMonitorHolds
<1>4. CASE OnInotify
  BY <1>4, OnInotifyHolds
<1>5. CASE Loop
  <2>1. CASE LaterScans \/ Rescans
    BY <2>1, ScanBeginsHolds
  <2>2. CASE EndsScan
    BY <2>2, EndsScanHolds
  <2>3. CASE \E p \in Paths : Looks(p) \/ Opens(p) \/ Accepts(p)
    BY <2>3, LooksHolds, OpensHolds, AcceptsHolds
  <2>4. QED
    BY <1>5, <2>1, <2>2, <2>3 DEF Loop
<1>6. CASE \E p \in Paths : Appears(p) \/ Grants(p) \/ Vanishes(p) \/ ReadFails(p) \/ Handles(p)
  BY <1>6, KernelHolds, ReadFailsHolds, HandlesHolds
<1>7. QED
  BY <1>1, <1>2, <1>3, <1>4, <1>5, <1>6 DEF InputsNext

LEMMA InputsIInvHolds == InputsSpec => []InputsIInv
<1>1. QED
  BY InputsInitHolds, InputsNextHolds, PTL DEF InputsSpec

\* A stopped monitor holds nothing open, but for what a scan opens that was still to
\* come, and only what is open is marked: for any number of nodes and of devices that
\* come and go.
THEOREM InputsInvHolds == InputsSpec => []InputsInv
<1>1. InputsIInv => InputsInv
  <2> SUFFICES ASSUME InputsIInv PROVE InputsInv
    OBVIOUS
  <2>1. Cardinality(scan.path) <= 1
    <3>1. scan.path \in SUBSET Paths /\ (scan.path = {} \/ \E p \in Paths : scan.path = {p})
      BY DEF InputsIInv, InputsTypes, ScanTypes
    <3>2. QED
      BY <3>1, Singletons
  <2>2. InputsTypeOK
    BY <2>1 DEF InputsIInv, InputsTypes, NodeTypes, TaskTypes, ScanTypes, InputsTypeOK
  <2>3. Shut /\ MarksOpen
    BY DEF InputsIInv, ScansAtRest, Marks, Shut, MarksOpen, OpenPaths
  <2>4. QED
    BY <2>2, <2>3 DEF InputsInv
<1>2. QED
  BY <1>1, InputsIInvHolds, PTL

\* Nobody but a hand is ever taken for someone at the TV, whatever nodes are replaced
\* under the monitor, and when.
THEOREM NeverMistakenHolds == InputsSpec => []NeverMistaken
<1>1. InputsIInv => NeverMistaken
  BY DEF InputsIInv
<1>2. QED
  BY <1>1, InputsIInvHolds, PTL

-----------------------------------------------------------------------------
(* The calls that a poll of the log leads to                               *)

\* A set of numbers that has 0 and with each number the next has all of them: the
\* least that is missing would have one before it.
LEMMA SetInduction ==
  ASSUME NEW T \in SUBSET Nat, 0 \in T, \A n \in T : n + 1 \in T
  PROVE  \A n \in Nat : n \in T
<1> SUFFICES ASSUME NEW m \in Nat, m \notin T PROVE FALSE
  OBVIOUS
<1> DEFINE R == OpToRel(<, Nat)
<1>1. IsWellFoundedOn(R, Nat)
  BY NatLessThanWellFounded
<1>2. Nat \ T \subseteq Nat /\ Nat \ T # {}
  OBVIOUS
<1> HIDE DEF R
<1>3. PICK x \in Nat \ T : \A y \in Nat \ T : ~(<<y, x>> \in R)
  BY <1>1, <1>2, WFMin
<1>4. x # 0 /\ x - 1 \in Nat /\ x - 1 < x /\ x = (x - 1) + 1
  BY <1>3
<1>5. <<x - 1, x>> \in R
  BY <1>4 DEF R, OpToRel
<1>6. QED
  BY <1>3, <1>4, <1>5

\* What the watcher has after n lines, and which of them have changed it.
After(chunk, n) == IF n = 0 THEN sunshine ELSE chunk[n]
FlipsTo(chunk, n) == {i \in 1..n : i \in Flips(chunk)}

\* It is what it was before the poll if and only if it has changed an even number of times.
Alternates(chunk, n) ==
  /\ IsFiniteSet(FlipsTo(chunk, n)) /\ Cardinality(FlipsTo(chunk, n)) \in Nat
  /\ IF Cardinality(FlipsTo(chunk, n)) % 2 = 1
     THEN After(chunk, n) = ~sunshine ELSE After(chunk, n) = sunshine

LEMMA FlipsAlternate ==
  ASSUME sunshine \in BOOLEAN, NEW chunk \in Seq(BOOLEAN)
  PROVE  \A n \in 0..Len(chunk) : Alternates(chunk, n)
<1> DEFINE T == {n \in Nat : n <= Len(chunk) => Alternates(chunk, n)}
<1>1. T \in SUBSET Nat
  OBVIOUS
<1>2. 0 \in T
  <2>1. FlipsTo(chunk, 0) = {}
    BY DEF FlipsTo
  <2>2. IsFiniteSet({}) /\ Cardinality({}) = 0
    BY FS_EmptySet
  <2>3. After(chunk, 0) = sunshine /\ 0 \in Nat /\ 0 % 2 # 1
    BY DEF After
  <2>4. IsFiniteSet(FlipsTo(chunk, 0)) /\ Cardinality(FlipsTo(chunk, 0)) = 0
    BY <2>1, <2>2
  <2>5. Alternates(chunk, 0)
    BY <2>3, <2>4 DEF Alternates
  <2>6. QED
    BY <2>5
<1>3. ASSUME NEW n \in T PROVE n + 1 \in T
  <2> SUFFICES ASSUME n + 1 <= Len(chunk) PROVE Alternates(chunk, n + 1)
    OBVIOUS
  <2> DEFINE c == Cardinality(FlipsTo(chunk, n))
             d == Cardinality(FlipsTo(chunk, n + 1))
  <2>1. n \in Nat /\ Alternates(chunk, n)
    OBVIOUS
  <2>2. /\ n + 1 \in 1..Len(chunk) /\ n + 1 # 0 /\ n + 1 \in DOMAIN chunk
        /\ chunk[n + 1] \in BOOLEAN /\ After(chunk, n + 1) = chunk[n + 1]
        /\ After(chunk, n) = IF n + 1 = 1 THEN sunshine ELSE chunk[n + 1 - 1]
    BY <2>1 DEF After
  <2>3. n + 1 \in Flips(chunk) <=> After(chunk, n + 1) # After(chunk, n)
    BY <2>2 DEF Flips
  <2>4. After(chunk, n) \in BOOLEAN /\ After(chunk, n + 1) \in BOOLEAN
    BY <2>1, <2>2 DEF Alternates
  <2>5. CASE n + 1 \in Flips(chunk)
    <3>1. FlipsTo(chunk, n + 1) = FlipsTo(chunk, n) \cup {n + 1} /\ n + 1 \notin FlipsTo(chunk, n)
      BY <2>1, <2>5 DEF FlipsTo
    <3>2. IsFiniteSet(FlipsTo(chunk, n + 1)) /\ d = c + 1 /\ c \in Nat
      BY <2>1, <3>1, FS_AddElement DEF Alternates
    <3>3. d \in Nat /\ (d % 2 = 1 <=> c % 2 # 1)
      BY <3>2
    <3>4. After(chunk, n + 1) = ~After(chunk, n)
      BY <2>3, <2>4, <2>5
    <3>5. c % 2 = 1 => After(chunk, n) = ~sunshine
      BY <2>1 DEF Alternates
    <3>6. c % 2 # 1 => After(chunk, n) = sunshine
      BY <2>1 DEF Alternates
    <3> HIDE DEF c, d
    <3>7. IF d % 2 = 1 THEN After(chunk, n + 1) = ~sunshine ELSE After(chunk, n + 1) = sunshine
      BY <3>3, <3>4, <3>5, <3>6
    <3>8. QED
      BY <3>2, <3>3, <3>7 DEF Alternates, d
  <2>6. CASE n + 1 \notin Flips(chunk)
    <3>1. FlipsTo(chunk, n + 1) = FlipsTo(chunk, n)
      BY <2>1, <2>6 DEF FlipsTo
    <3>2. QED
      BY <2>1, <2>3, <2>6, <3>1 DEF Alternates
  <2>7. QED
    BY <2>5, <2>6
<1> HIDE DEF T
<1>4. \A n \in Nat : n \in T
  BY <1>1, <1>2, <1>3, SetInduction
<1>5. QED
  BY <1>4 DEF T

\* on_change is called if and only if the watcher ends otherwise than it was or comes
\* back to it, and last with what the last line says.
LEMMA CallsFacts ==
  ASSUME sunshine \in BOOLEAN, NEW chunk \in Seq(BOOLEAN)
  PROVE  /\ Calls(chunk) \in Seq(BOOLEAN)
         /\ Calls(chunk) = <<>> => chunk = <<>> \/ Last(chunk) = sunshine
         /\ Calls(chunk) # <<>> => chunk # <<>> /\ Last(Calls(chunk)) = Last(chunk)
<1> DEFINE n == Len(chunk)
           c == Cardinality(Flips(chunk))
<1>1. n \in Nat /\ n \in 0..n /\ DOMAIN chunk = 1..n
  OBVIOUS
<1>2. FlipsTo(chunk, n) = Flips(chunk)
  BY <1>1 DEF FlipsTo, Flips
<1>3. Alternates(chunk, n)
  BY <1>1, FlipsAlternate
<1>4. c \in Nat /\ IF c % 2 = 1 THEN After(chunk, n) = ~sunshine ELSE After(chunk, n) = sunshine
  BY <1>2, <1>3 DEF Alternates
<1>5. chunk # <<>> => n # 0 /\ Last(chunk) = After(chunk, n)
  BY <1>1 DEF Last, After
<1>6. chunk = <<>> => c = 0
  <2> SUFFICES ASSUME chunk = <<>> PROVE c = 0
    OBVIOUS
  <2>1. Flips(chunk) = {}
    BY DEF Flips
  <2>2. QED
    BY <2>1, FS_EmptySet
<1> HIDE DEF c
<1>7. Calls(chunk) = [i \in 1..c |-> IF i % 2 = 1 THEN ~sunshine ELSE sunshine]
  BY DEF Calls, c
<1>8. Calls(chunk) \in Seq(BOOLEAN) /\ Len(Calls(chunk)) = c
  <2>1. \A i \in 1..c : (IF i % 2 = 1 THEN ~sunshine ELSE sunshine) \in BOOLEAN
    OBVIOUS
  <2>2. QED
    BY <1>4, <1>7, <2>1
<1>9. CASE c = 0
  <2>1. Calls(chunk) = <<>> /\ After(chunk, n) = sunshine
    BY <1>4, <1>7, <1>8, <1>9
  <2>2. QED
    BY <1>5, <1>8, <2>1
<1>10. CASE c # 0
  <2>1. c \in 1..c /\ Calls(chunk) # <<>>
    BY <1>4, <1>8, <1>10
  <2>2. Last(Calls(chunk)) = IF c % 2 = 1 THEN ~sunshine ELSE sunshine
    BY <1>7, <1>8, <2>1 DEF Last
  <2>3. Last(Calls(chunk)) = After(chunk, n)
    BY <1>4, <2>2
  <2>4. QED
    BY <1>5, <1>6, <1>8, <1>10, <2>1, <2>3
<1>11. QED
  BY <1>9, <1>10

-----------------------------------------------------------------------------
(* The reports: the inductive invariant                                    *)

\* The log ends with what is; as long as nothing but a rotation has come between, an
\* empty log has been read to its end; and otherwise no more has been read than is there.
LogSeen ==
  /\ log # <<>> => Last(log) = hosting
  /\ unseen \subseteq {"rotated"} /\ log = <<>> => sunshine = hosting
  /\ unseen = {} => pos <= Len(log)

\* The last report of this kind that is queued has this value.
Says(kind, value) ==
  \A i \in DOMAIN queue :
    /\ queue[i].kind = kind
    /\ \A j \in DOMAIN queue : j > i => queue[j].kind # kind
    => queue[i].value = value

Silent(kind) == \A i \in DOMAIN queue : queue[i].kind # kind

\* What is queued brings the daemon up to date; if nothing is, the daemon is, of the
\* film state at least on a connection that is good.
UpToDate(kind) ==
  /\ Says(kind, Known[kind])
  /\ Silent(kind) /\ (kind = "streaming" \/ conn = "up") => belief[kind] = Known[kind]

Reported == \A kind \in Kinds \ missed : UpToDate(kind)

\* ReportsTypeOK without the watchers.
AgentTypes ==
  /\ film \in BOOLEAN /\ combined = (sunshine \/ process)
  /\ queue \in Seq(AllReports) /\ Len(queue) <= QueueSize
  /\ conn \in {"none", "up", "broken"} /\ up \in BOOLEAN
  /\ belief \in [Kinds -> BOOLEAN] /\ missed \in SUBSET Kinds

\* What is true of the log and its watcher.
Watched == WatchTypeOK /\ LogSeen /\ SunshineFollows

ReportsIInv == Watched /\ AgentTypes /\ Reported

LEMMA KnownIs == Kinds = {"film", "streaming"} /\ Known["film"] = film /\ Known["streaming"] = combined
BY DEF Known, Kinds

LEMMA ReportsInitHolds == ReportsInit => ReportsIInv
<1> SUFFICES ASSUME ReportsInit PROVE ReportsIInv
  OBVIOUS
<1>1. /\ hosting \in BOOLEAN /\ log = <<>> /\ pos = 0 /\ sunshine = FALSE /\ process = FALSE
      /\ unseen = IF hosting THEN {"started"} ELSE {}
      /\ film = FALSE /\ combined = FALSE /\ queue = <<>> /\ conn = "none" /\ up \in BOOLEAN
      /\ belief = [kind \in Kinds |-> FALSE] /\ missed = {}
  BY DEF ReportsInit, WatchInit, Unknown
<1>2. WatchTypeOK
  <2>1. log \in Seq(BOOLEAN) /\ Len(log) <= Lines /\ pos \in 0..Lines
    BY <1>1, StreamWatchAssumption
  <2>2. unseen \in SUBSET {"started", "tail", "rotated", "torn"}
    BY <1>1
  <2>3. QED
    BY <1>1, <2>1, <2>2 DEF WatchTypeOK
<1>3. AgentTypes
  <2>1. queue \in Seq(AllReports) /\ Len(queue) <= QueueSize
    BY <1>1, ReportsAssumption
  <2>2. combined = (sunshine \/ process)
    BY <1>1
  <2>3. belief \in [Kinds -> BOOLEAN]
    BY <1>1
  <2>4. QED
    BY <1>1, <2>1, <2>2, <2>3 DEF AgentTypes
<1>4. LogSeen /\ SunshineFollows
  <2>1. unseen \subseteq {"rotated"} => hosting = FALSE
    BY <1>1
  <2>2. Len(log) = 0
    BY <1>1
  <2>3. unseen \subseteq {"rotated"} => sunshine = hosting
    BY <1>1, <2>1
  <2>4. pos <= Len(log)
    BY <1>1, <2>2
  <2>5. QED
    BY <1>1, <2>3, <2>4 DEF LogSeen, SunshineFollows
<1>5. Reported
  <2>1. DOMAIN queue = {}
    BY <1>1
  <2>2. \A kind \in Kinds : belief[kind] = Known[kind]
    BY <1>1, KnownIs
  <2>3. QED
    BY <2>1, <2>2 DEF Reported, UpToDate, Says
<1>6. QED
  BY <1>2, <1>3, <1>4, <1>5 DEF ReportsIInv, Watched

-----------------------------------------------------------------------------
(* The log and its watcher                                                 *)

LEMMA ClientComesOrGoesHolds == Watched /\ ClientComesOrGoes => Watched'
<1> SUFFICES ASSUME Watched, ClientComesOrGoes PROVE Watched'
  OBVIOUS
<1>1. /\ hosting' \in BOOLEAN /\ log' = Append(log, hosting') /\ log \in Seq(BOOLEAN)
      /\ UNCHANGED <<pos, sunshine, process, unseen>>
  BY DEF ClientComesOrGoes, watchers, Watched, WatchTypeOK
<1>2. /\ log' \in Seq(BOOLEAN) /\ Len(log') = Len(log) + 1 /\ Len(log') <= Lines
      /\ log' # <<>> /\ Last(log') = hosting'
  BY <1>1, StreamWatchAssumption DEF ClientComesOrGoes, Last
<1>3. WatchTypeOK'
  BY <1>1, <1>2 DEF Watched, WatchTypeOK
<1>4. unseen' = {} => pos' < Len(log')
  BY <1>1, <1>2, StreamWatchAssumption DEF Watched, WatchTypeOK, LogSeen
<1>5. pos' < Len(log') => pos' # Len(log') /\ pos' <= Len(log')
  BY <1>1, <1>2, StreamWatchAssumption DEF Watched, WatchTypeOK
<1>6. LogSeen' /\ SunshineFollows'
  BY <1>1, <1>2, <1>4, <1>5 DEF LogSeen, SunshineFollows
<1>7. QED
  BY <1>3, <1>6 DEF Watched

LEMMA LogRotatesHolds == Watched /\ LogRotates => Watched'
<1> SUFFICES ASSUME Watched, LogRotates PROVE Watched'
  OBVIOUS
<1>1. WatchTypeOK'
  BY StreamWatchAssumption DEF LogRotates, Watched, WatchTypeOK
<1>2. unseen' \subseteq {"rotated"} => unseen = {} /\ ~(pos < Len(log))
  BY DEF LogRotates, Watched, WatchTypeOK
<1>3. unseen' \subseteq {"rotated"} => sunshine = hosting
  BY <1>2 DEF Watched, WatchTypeOK, LogSeen, SunshineFollows
<1>4. "rotated" \in unseen' /\ log' = <<>> /\ UNCHANGED <<hosting, pos, sunshine, process>>
  BY DEF LogRotates
<1>5. LogSeen' /\ SunshineFollows'
  BY <1>3, <1>4 DEF LogSeen, SunshineFollows
<1>6. QED
  BY <1>1, <1>5 DEF Watched

LEMMA RestFacts ==
  ASSUME NEW S, NEW s \in Seq(S), NEW n \in 0..Len(s)
  PROVE  /\ SubSeq(s, n + 1, Len(s)) \in Seq(S)
         /\ Len(SubSeq(s, n + 1, Len(s))) = Len(s) - n
         /\ \A i \in 1..Len(s) - n : SubSeq(s, n + 1, Len(s))[i] = s[n + i]
OBVIOUS

\* What a poll reads: the log behind a position in it, or all but the end of that.
LEMMA ChunkFacts ==
  ASSUME Watched, NEW torn \in BOOLEAN, torn => ReadFrom < Len(log)
  PROVE  /\ Chunk(torn) \in Seq(BOOLEAN)
         /\ ReadFrom = IF Len(log) < pos THEN 0 ELSE pos
         /\ ReadFrom \in 0..Len(log)
         /\ ~torn /\ ReadFrom = Len(log) => Chunk(torn) = <<>>
         /\ ~torn /\ ReadFrom < Len(log) => Chunk(torn) # <<>> /\ Last(Chunk(torn)) = Last(log)
<1> DEFINE lines == SubSeq(log, ReadFrom + 1, Len(log))
<1>1. log \in Seq(BOOLEAN) /\ Len(log) \in Nat /\ pos \in Nat
  BY StreamWatchAssumption DEF Watched, WatchTypeOK
<1>2. ReadFrom = (IF Len(log) < pos THEN 0 ELSE pos) /\ ReadFrom \in 0..Len(log)
  BY <1>1 DEF ReadFrom
<1>3. /\ lines \in Seq(BOOLEAN) /\ Len(lines) = Len(log) - ReadFrom
      /\ \A i \in 1..Len(log) - ReadFrom : lines[i] = log[ReadFrom + i]
  BY <1>1, <1>2, RestFacts
<1> HIDE DEF lines
<1>4. Len(lines) # 0 => Last(lines) = Last(log)
  <2> SUFFICES ASSUME Len(lines) # 0 PROVE lines[Len(lines)] = log[Len(log)]
    BY DEF Last
  <2>1. Len(lines) \in 1..Len(lines) /\ ReadFrom + Len(lines) = Len(log)
    BY <1>1, <1>2, <1>3
  <2>2. QED
    BY <1>3, <2>1
<1>5. CASE torn
  <2>1. Chunk(torn) = SubSeq(lines, 1, Len(lines) - 1)
    BY <1>5 DEF Chunk, Front, lines
  <2>2. Len(lines) - 1 \in 0..Len(lines)
    BY <1>1, <1>2, <1>3, <1>5
  <2>3. Chunk(torn) \in Seq(BOOLEAN)
    BY <1>3, <2>1, <2>2
  <2>4. QED
    BY <1>2, <1>5, <2>3
<1>6. CASE ~torn
  <2>1. Chunk(torn) = lines
    BY <1>6 DEF Chunk, lines
  <2>2. QED
    BY <1>1, <1>2, <1>3, <1>4, <2>1
<1>7. QED
  BY <1>5, <1>6

LEMMA SunshinePollsHolds ==
  ASSUME Watched, NEW torn \in BOOLEAN, SunshinePolls(torn)
  PROVE  Watched' /\ sunshine' \in BOOLEAN
<1> DEFINE chunk == Chunk(torn)
           size == Len(log)
<1>1. /\ torn => ReadFrom < size
      /\ pos' = IF ReadFrom > size THEN ReadFrom ELSE size
      /\ sunshine' = IF chunk = <<>> THEN sunshine ELSE Last(chunk)
      /\ unseen' = IF torn THEN {"torn"}
                   ELSE IF size < pos THEN (IF size = 0 THEN unseen \ {"rotated"} ELSE {})
                   ELSE IF size > pos THEN {} ELSE unseen
      /\ UNCHANGED <<hosting, log, process>>
  BY DEF SunshinePolls, real
<1>2. log \in Seq(BOOLEAN) /\ size \in 0..Lines /\ pos \in Nat /\ sunshine \in BOOLEAN
  BY StreamWatchAssumption DEF Watched, WatchTypeOK
<1>3. /\ chunk \in Seq(BOOLEAN)
      /\ ReadFrom = IF size < pos THEN 0 ELSE pos
      /\ ReadFrom \in 0..size
      /\ ~torn /\ ReadFrom = size => chunk = <<>>
      /\ ~torn /\ ReadFrom < size => chunk # <<>> /\ Last(chunk) = Last(log)
  BY <1>1, ChunkFacts
<1>4. chunk # <<>> => Last(chunk) \in BOOLEAN
  BY <1>3 DEF Last
<1> HIDE DEF chunk
<1>5. sunshine' \in BOOLEAN /\ pos' = size
  BY <1>1, <1>2, <1>3, <1>4
<1>6. WatchTypeOK'
  <2>1. unseen' \in SUBSET {"started", "tail", "rotated", "torn"}
    BY <1>1 DEF Watched, WatchTypeOK
  <2>2. QED
    BY <1>1, <1>2, <1>5, <2>1 DEF Watched, WatchTypeOK
<1>7. log # <<>> => size # 0
  BY <1>2
<1>8. CASE torn
  BY <1>1, <1>3, <1>5, <1>7, <1>8 DEF Watched, WatchTypeOK, LogSeen, SunshineFollows
<1>9. CASE ~torn /\ size > ReadFrom
  <2>1. sunshine' = hosting
    BY <1>1, <1>2, <1>3, <1>7, <1>9 DEF Watched, LogSeen
  <2>2. QED
    BY <1>1, <1>5, <1>6, <2>1 DEF Watched, LogSeen, SunshineFollows
<1>10. CASE ~torn /\ size = ReadFrom
  <2>1. /\ sunshine' = sunshine
        /\ \/ unseen' = unseen /\ size = pos
           \/ unseen' = unseen \ {"rotated"} /\ size = 0
    BY <1>1, <1>2, <1>3, <1>10
  <2>2. size = 0 => log = <<>>
    BY <1>2
  <2>3. QED
    BY <1>1, <1>5, <1>6, <2>1, <2>2 DEF Watched, LogSeen, SunshineFollows
<1>11. QED
  BY <1>2, <1>3, <1>5, <1>8, <1>9, <1>10

-----------------------------------------------------------------------------
(* The queue                                                               *)

LEMMA ReportFacts ==
  /\ Event \in AllReports /\ Event.kind = "event" /\ "event" \notin Kinds
  /\ \A kind \in Kinds, value \in BOOLEAN :
       /\ Report(kind, value) \in AllReports /\ Report(kind, value) # Event
       /\ Report(kind, value).kind = kind /\ Report(kind, value).value = value
  /\ \A report \in AllReports : report = Event \/ (report.kind \in Kinds /\ report.value \in BOOLEAN)
<1>1. Event \in AllReports /\ Event.kind = "event" /\ "event" \notin Kinds
  BY DEF Event, AllReports, Kinds
<1>2. ASSUME NEW kind \in Kinds, NEW value \in BOOLEAN
      PROVE  /\ Report(kind, value) \in AllReports /\ Report(kind, value) # Event
             /\ Report(kind, value).kind = kind /\ Report(kind, value).value = value
  <2>1. /\ Report(kind, value) \in [kind : Kinds, value : BOOLEAN]
        /\ Report(kind, value).kind = kind /\ Report(kind, value).value = value
    BY DEF Report
  <2>2. QED
    BY <1>1, <2>1 DEF AllReports
<1>3. \A report \in AllReports : report = Event \/ (report.kind \in Kinds /\ report.value \in BOOLEAN)
  BY DEF AllReports
<1>4. QED
  BY <1>1, <1>2, <1>3

\* What fits is what comes first.
LEMMA FitsFacts ==
  ASSUME AgentTypes, NEW reports \in Seq(AllReports)
  PROVE  /\ Fits(reports) \in Seq(AllReports) /\ Len(Fits(reports)) <= Len(reports)
         /\ \A i \in 1..Len(Fits(reports)) : Fits(reports)[i] = reports[i]
         /\ Len(queue \o Fits(reports)) <= QueueSize
<1> DEFINE room == QueueSize - Len(queue)
           m == IF Len(reports) <= room THEN Len(reports) ELSE room
<1>1. queue \in Seq(AllReports) /\ room \in Nat /\ m \in 0..Len(reports) /\ m <= room
  BY ReportsAssumption DEF AgentTypes
<1>2. {i \in DOMAIN reports : Len(queue) + i <= QueueSize} = 1..m
  BY <1>1, ReportsAssumption
<1> HIDE DEF m
<1>3. Fits(reports) = [i \in 1..m |-> reports[i]]
  BY <1>2 DEF Fits
<1>4. Fits(reports) \in Seq(AllReports) /\ Len(Fits(reports)) = m
  BY <1>1, <1>3
<1>5. QED
  BY <1>1, <1>3, <1>4, ReportsAssumption

\* Reports of one kind at the end of the queue change nothing for another kind.
LEMMA OtherKind ==
  ASSUME queue \in Seq(AllReports), NEW reports \in Seq(AllReports), queue' = queue \o reports,
         UNCHANGED <<belief, conn>>, NEW kind, \A i \in DOMAIN reports : reports[i].kind = kind,
         NEW k \in Kinds, k # kind, Known'[k] = Known[k], UpToDate(k)
  PROVE  UpToDate(k)'
<1>1. /\ DOMAIN queue = 1..Len(queue) /\ DOMAIN queue' = 1..Len(queue) + Len(reports)
      /\ Len(queue) \in Nat /\ Len(reports) \in Nat
      /\ \A i \in DOMAIN queue : i \in DOMAIN queue' /\ queue'[i] = queue[i]
  OBVIOUS
<1>2. ASSUME NEW i \in DOMAIN queue', queue'[i].kind = k PROVE i \in DOMAIN queue
  <2>1. i \in DOMAIN queue \/ (i - Len(queue) \in DOMAIN reports /\ queue'[i] = reports[i - Len(queue)])
    BY <1>1
  <2>2. QED
    BY <1>2, <2>1
<1>3. Says(k, Known[k])'
  <2> SUFFICES ASSUME NEW i \in DOMAIN queue', queue'[i].kind = k,
                      \A j \in DOMAIN queue' : j > i => queue'[j].kind # k
               PROVE  queue'[i].value = Known'[k]
    BY DEF Says
  <2>1. i \in DOMAIN queue /\ queue[i] = queue'[i]
    BY <1>1, <1>2
  <2>2. \A j \in DOMAIN queue : j > i => queue[j].kind # k
    BY <1>1
  <2>3. queue[i].value = Known[k]
    BY <2>1, <2>2 DEF UpToDate, Says
  <2>4. QED
    BY <2>1, <2>3
<1>4. Silent(k)' => Silent(k)
  BY <1>1 DEF Silent
<1>5. QED
  BY <1>3, <1>4 DEF UpToDate

\* The last report is of the kind and says what is known.
LEMMA SameKind ==
  ASSUME queue \in Seq(AllReports), NEW reports \in Seq(AllReports), queue' = queue \o reports,
         reports # <<>>, NEW kind, Last(reports).kind = kind, Last(reports).value = Known'[kind]
  PROVE  UpToDate(kind)'
<1> DEFINE n == Len(queue) + Len(reports)
<1>1. /\ DOMAIN queue' = 1..n /\ n \in 1..n /\ n \in Nat
      /\ queue'[n] = reports[Len(reports)]
  OBVIOUS
<1>2. queue'[n].kind = kind /\ queue'[n].value = Known'[kind]
  BY <1>1 DEF Last
<1> HIDE DEF n
<1>3. ~Silent(kind)'
  BY <1>1, <1>2 DEF Silent
<1>4. ASSUME NEW i \in 1..n, i # n PROVE n > i
  BY <1>1, <1>4
<1>5. Says(kind, Known[kind])'
  BY <1>1, <1>2, <1>4 DEF Says
<1>6. QED
  BY <1>3, <1>5 DEF UpToDate

\* Reports of one kind are put, and say last what the agent knows now.
LEMMA PutsHolds ==
  ASSUME AgentTypes, Reported, NEW kind \in Kinds,
         NEW reports \in Seq([kind : {kind}, value : BOOLEAN]), Puts(reports),
         UNCHANGED <<belief, conn>>, \A k \in Kinds \ {kind} : Known'[k] = Known[k],
         reports = <<>> => Known'[kind] = Known[kind],
         reports # <<>> => Last(reports).value = Known'[kind]
  PROVE  Reported' /\ queue' \in Seq(AllReports) /\ Len(queue') <= QueueSize /\ missed' \in SUBSET Kinds
<1> DEFINE fits == Fits(reports)
           T == [kind : {kind}, value : BOOLEAN]
<1>1. /\ reports \in Seq(AllReports) /\ \A i \in DOMAIN reports : reports[i].kind = kind
      /\ reports # <<>> => Last(reports) # Event /\ Last(reports).kind = kind
  <2>1. T \subseteq AllReports /\ \A r \in T : r.kind = kind
    BY DEF AllReports
  <2> HIDE DEF T
  <2>2. \A i \in DOMAIN reports : reports[i] \in AllReports /\ reports[i].kind = kind
    <3>1. reports \in Seq(T)
      BY DEF T
    <3>2. \A i \in DOMAIN reports : reports[i] \in T
      BY <3>1
    <3>3. QED
      BY <2>1, <3>2
  <2>3. reports \in Seq(AllReports)
    BY <2>2
  <2>4. reports # <<>> => Len(reports) \in DOMAIN reports
    OBVIOUS
  <2>5. QED
    BY <2>2, <2>3, <2>4, ReportFacts DEF Last
<1>2. /\ fits \in Seq(AllReports) /\ \A i \in DOMAIN fits : fits[i].kind = kind
      /\ Len(queue \o fits) <= QueueSize
  BY <1>1, FitsFacts
<1>3. /\ queue' = queue \o fits
      /\ missed' = IF reports = <<>> THEN missed
                   ELSE IF fits = reports THEN missed \ {kind} ELSE missed \cup {kind}
  BY <1>1 DEF Puts
<1> HIDE DEF fits
<1>4. queue \in Seq(AllReports) /\ missed \in SUBSET Kinds
  BY DEF AgentTypes
<1>5. queue' \in Seq(AllReports) /\ Len(queue') <= QueueSize /\ missed' \in SUBSET Kinds
  BY <1>2, <1>3, <1>4
<1>6. ASSUME NEW k \in Kinds \ missed' PROVE UpToDate(k)'
  <2>1. CASE k # kind
    <3>1. UpToDate(k)
      BY <1>3, <1>6, <2>1 DEF Reported
    <3>2. QED
      BY <1>2, <1>3, <1>4, <1>6, <2>1, <3>1, OtherKind
  <2>2. CASE k = kind /\ reports # <<>>
    <3>1. fits = reports
      BY <1>3, <1>6, <2>2
    <3>2. QED
      BY <1>1, <1>3, <1>4, <2>2, <3>1, SameKind
  <2>3. CASE k = kind /\ reports = <<>>
    <3>1. fits = <<>>
      <4>1. fits \in Seq(AllReports) /\ Len(fits) <= Len(reports)
        BY <1>1, FitsFacts DEF fits
      <4>2. Len(reports) = 0
        BY <2>3
      <4>3. QED
        BY <4>1, <4>2
    <3>2. queue' = queue /\ UpToDate(k) /\ Known'[k] = Known[k]
      BY <1>3, <1>4, <1>6, <2>3, <3>1 DEF Reported
    <3>3. QED
      BY <3>2 DEF UpToDate, Says, Silent
  <2>4. QED
    BY <2>1, <2>2, <2>3
<1>7. QED
  BY <1>5, <1>6 DEF Reported

LEMMA WatchedStays == ASSUME Watched, UNCHANGED watchVars PROVE Watched'
<1>1. UNCHANGED <<hosting, log, pos, sunshine, process, unseen>>
  BY DEF watchVars, real, watchers
<1>2. QED
  BY <1>1 DEF Watched, WatchTypeOK, LogSeen, SunshineFollows

LEMMA FilmPollHolds == ASSUME ReportsIInv, FilmPoll PROVE ReportsIInv'
<1> DEFINE reports == <<Report("film", film')>>
<1>1. Watched /\ AgentTypes /\ Reported
  BY DEF ReportsIInv
<1>2. /\ film' \in BOOLEAN /\ Puts(reports) /\ UNCHANGED <<belief, conn, up, combined, sunshine, process>>
      /\ UNCHANGED watchVars
  BY <1>1 DEF FilmPoll, AgentTypes, watchVars, watchers, daemonView
<1>3. /\ reports \in Seq([kind : {"film"}, value : BOOLEAN]) /\ reports # <<>>
      /\ Last(reports).value = film'
  BY <1>2 DEF Report, Last
<1>4. /\ \A k \in Kinds \ {"film"} : Known'[k] = Known[k]
      /\ "film" \in Kinds /\ Known'["film"] = film'
  <2>1. Known'["film"] = film' /\ Known'["streaming"] = combined'
    BY KnownIs DEF Known, Kinds
  <2>2. QED
    BY <1>2, <2>1, KnownIs
<1> HIDE DEF reports
<1>5. Reported' /\ queue' \in Seq(AllReports) /\ Len(queue') <= QueueSize /\ missed' \in SUBSET Kinds
  BY <1>1, <1>2, <1>3, <1>4, PutsHolds
<1>6. AgentTypes'
  BY <1>1, <1>2, <1>5 DEF AgentTypes
<1>7. QED
  BY <1>1, <1>2, <1>5, <1>6, WatchedStays DEF ReportsIInv

\* An event says nothing of what the agent knows.
LEMMA HappensHolds == ASSUME ReportsIInv, Happens PROVE ReportsIInv'
<1> DEFINE reports == <<Event>>
           fits == Fits(reports)
<1>1. Watched /\ AgentTypes /\ Reported
  BY DEF ReportsIInv
<1>2. /\ UNCHANGED <<belief, conn, up, film, combined, sunshine, process>> /\ UNCHANGED watchVars
      /\ queue' = queue \o fits
  BY DEF Happens, Puts, watchVars, watchers, daemonView
<1>3. /\ reports \in Seq(AllReports) /\ Len(reports) = 1 /\ reports[1] = Event /\ reports # <<>>
      /\ Last(reports) = Event
  BY ReportFacts DEF Last
<1>4. missed' = missed
  BY <1>3 DEF Happens, Puts
<1> HIDE DEF reports
<1>5. /\ fits \in Seq(AllReports) /\ Len(queue \o fits) <= QueueSize
      /\ \A i \in DOMAIN fits : fits[i].kind = "event"
  BY <1>1, <1>3, FitsFacts, ReportFacts
<1> HIDE DEF fits
<1>6. queue \in Seq(AllReports)
  BY <1>1 DEF AgentTypes
<1>7. AgentTypes'
  BY <1>1, <1>2, <1>4, <1>5, <1>6 DEF AgentTypes
<1>8. \A k \in Kinds : Known'[k] = Known[k]
  BY <1>2 DEF Known
<1>9. Reported'
  <2> SUFFICES ASSUME NEW k \in Kinds \ missed' PROVE UpToDate(k)'
    BY DEF Reported
  <2>1. UpToDate(k) /\ k # "event"
    BY <1>1, <1>4, ReportFacts DEF Reported
  <2>2. QED
    BY <1>2, <1>5, <1>6, <1>8, <2>1, OtherKind
<1>10. QED
  BY <1>1, <1>2, <1>7, <1>9, WatchedStays DEF ReportsIInv

\* What one source tells, combined with the other one.
LEMMA SetStreamSourceHolds ==
  ASSUME ReportsIInv, Watched', NEW calls \in Seq(BOOLEAN), NEW other \in BOOLEAN,
         SetStreamSource(calls, other), sunshine' \in BOOLEAN, process' \in BOOLEAN,
         other \/ calls = <<>> => combined' = combined,
         ~other /\ calls # <<>> => Last(calls) = combined'
  PROVE  ReportsIInv'
<1> DEFINE said == Combine(calls, other)
           reports == [i \in 1..Len(said) |-> Report("streaming", said[i])]
<1>1. Watched /\ AgentTypes /\ Reported
  BY DEF ReportsIInv
<1>2. /\ Puts(reports) /\ combined' = (sunshine' \/ process')
      /\ UNCHANGED <<film, conn, up, belief>>
  BY DEF SetStreamSource, daemonView
<1>3. /\ said \in Seq(BOOLEAN)
      /\ said = <<>> => combined' = combined
      /\ said # <<>> => Last(said) = combined'
  <2>1. CASE other
    BY <2>1 DEF Combine
  <2>2. CASE ~other
    BY <2>2 DEF Combine
  <2>3. QED
    BY <2>1, <2>2
<1> HIDE DEF said
<1>4. /\ reports \in Seq([kind : {"streaming"}, value : BOOLEAN]) /\ Len(reports) = Len(said)
      /\ \A i \in 1..Len(said) : reports[i].value = said[i]
  <2>1. \A i \in 1..Len(said) : /\ Report("streaming", said[i]) \in [kind : {"streaming"}, value : BOOLEAN]
                                /\ Report("streaming", said[i]).value = said[i]
    <3> SUFFICES ASSUME NEW i \in 1..Len(said)
                 PROVE  /\ Report("streaming", said[i]) \in [kind : {"streaming"}, value : BOOLEAN]
                        /\ Report("streaming", said[i]).value = said[i]
      OBVIOUS
    <3>1. said[i] \in BOOLEAN
      BY <1>3
    <3>2. QED
      BY <3>1 DEF Report
  <2>2. QED
    BY <1>3, <2>1
<1> HIDE DEF reports
<1>5. /\ reports = <<>> => combined' = combined
      /\ reports # <<>> => Last(reports).value = combined'
  <2>1. reports = <<>> <=> said = <<>>
    BY <1>3, <1>4
  <2>2. said # <<>> => Len(said) \in 1..Len(said)
    BY <1>3
  <2>3. QED
    BY <1>3, <1>4, <2>1, <2>2 DEF Last
<1>6. /\ "streaming" \in Kinds /\ \A k \in Kinds \ {"streaming"} : Known'[k] = Known[k]
      /\ Known["streaming"] = combined /\ Known'["streaming"] = combined'
  <2>1. Known'["film"] = film' /\ Known'["streaming"] = combined'
    BY KnownIs DEF Known, Kinds
  <2>2. QED
    BY <1>2, <2>1, KnownIs
<1>7. Reported' /\ queue' \in Seq(AllReports) /\ Len(queue') <= QueueSize /\ missed' \in SUBSET Kinds
  BY <1>1, <1>2, <1>4, <1>5, <1>6, PutsHolds
<1>8. AgentTypes'
  BY <1>1, <1>2, <1>7 DEF AgentTypes
<1>9. QED
  BY <1>7, <1>8 DEF ReportsIInv

LEMMA SunshinePollHolds == ASSUME ReportsIInv, SunshinePoll PROVE ReportsIInv'
<1>1. PICK torn \in BOOLEAN :
        SunshinePolls(torn) /\ SetStreamSource(Calls(Chunk(torn)), process)
  BY DEF SunshinePoll
<1> DEFINE chunk == Chunk(torn)
           calls == Calls(chunk)
<1>2. Watched /\ AgentTypes
  BY DEF ReportsIInv
<1>3. /\ torn => ReadFrom < Len(log)
      /\ sunshine' = IF chunk = <<>> THEN sunshine ELSE Last(chunk)
  BY <1>1 DEF SunshinePolls
<1>4. /\ sunshine \in BOOLEAN /\ process \in BOOLEAN /\ combined = (sunshine \/ process)
      /\ process' = process
  BY <1>1, <1>2 DEF Watched, WatchTypeOK, AgentTypes, SunshinePolls
<1>5. chunk \in Seq(BOOLEAN)
  BY <1>2, <1>3, ChunkFacts
<1>6. Watched' /\ sunshine' \in BOOLEAN
  BY <1>1, <1>2, SunshinePollsHolds
<1> HIDE DEF chunk
<1>7. /\ calls \in Seq(BOOLEAN)
      /\ calls = <<>> => sunshine' = sunshine
      /\ calls # <<>> => Last(calls) = sunshine'
  BY <1>3, <1>4, <1>5, CallsFacts
<1>8. SetStreamSource(calls, process) /\ combined' = (sunshine' \/ process')
  BY <1>1 DEF chunk, SetStreamSource
<1> HIDE DEF calls
<1>9. process \/ calls = <<>> => combined' = combined
  BY <1>4, <1>6, <1>7, <1>8
<1>10. ~process /\ calls # <<>> => Last(calls) = combined'
  BY <1>4, <1>6, <1>7, <1>8
<1>11. QED
  BY <1>4, <1>6, <1>7, <1>8, <1>9, <1>10, SetStreamSourceHolds

LEMMA ProcessPollHolds == ASSUME ReportsIInv, ProcessPoll PROVE ReportsIInv'
<1> DEFINE calls == <<process'>>
<1>1. Watched /\ AgentTypes
  BY DEF ReportsIInv
<1>2. /\ SetStreamSource(calls, sunshine) /\ combined' = (sunshine' \/ process')
      /\ UNCHANGED <<hosting, log, pos, sunshine, unseen>>
      /\ sunshine \in BOOLEAN /\ process' \in BOOLEAN /\ combined = (sunshine \/ process)
  BY <1>1 DEF ProcessPoll, ProcessPolls, SetStreamSource, real, Watched, WatchTypeOK, AgentTypes
<1>3. calls \in Seq(BOOLEAN) /\ calls # <<>> /\ Last(calls) = process'
  BY <1>2 DEF Last
<1> HIDE DEF calls
<1>4. Watched'
  BY <1>1, <1>2 DEF Watched, WatchTypeOK, LogSeen, SunshineFollows
<1>5. sunshine => combined' = combined
  BY <1>2
<1>6. ~sunshine => Last(calls) = combined'
  BY <1>2, <1>3
<1>7. QED
  BY <1>2, <1>3, <1>4, <1>5, <1>6, SetStreamSourceHolds

-----------------------------------------------------------------------------
(* The connection, crashes and restarts                                    *)

LEMMA WorldHolds == ASSUME ReportsIInv, World PROVE ReportsIInv'
<1>1. UNCHANGED <<film, combined, queue, conn, up, belief, missed, sunshine, process>>
  BY DEF World, agent, daemonView, ClientComesOrGoes, LogRotates, watchers
<1>2. Watched'
  BY ClientComesOrGoesHolds, LogRotatesHolds DEF World, ReportsIInv
<1>3. AgentTypes'
  BY <1>1 DEF ReportsIInv, AgentTypes
<1>4. Reported'
  <2>1. Known' = Known
    BY <1>1 DEF Known
  <2>2. QED
    BY <1>1, <2>1 DEF ReportsIInv, Reported, UpToDate, Says, Silent
<1>5. QED
  BY <1>2, <1>3, <1>4 DEF ReportsIInv

LEMMA ConnectsHolds == ASSUME ReportsIInv, Connects PROVE ReportsIInv'
<1>1. /\ UNCHANGED <<film, combined, queue, up, sunshine, process>> /\ conn' = "up"
      /\ belief' = [belief EXCEPT !["film"] = film] /\ UNCHANGED watchVars
      /\ missed' = IF \E i \in DOMAIN queue : queue[i].kind = "film" THEN missed ELSE missed \ {"film"}
  BY DEF Connects, watchVars, watchers
<1>2. Watched' /\ AgentTypes /\ Reported
  BY <1>1, WatchedStays DEF ReportsIInv
<1>3. belief' \in [Kinds -> BOOLEAN] /\ belief'["film"] = film /\ belief'["streaming"] = belief["streaming"]
  BY <1>1, <1>2, KnownIs DEF AgentTypes
<1>4. AgentTypes'
  BY <1>1, <1>2, <1>3 DEF AgentTypes
<1>5. Known' = Known /\ \A k \in Kinds : Known'[k] = Known[k]
  BY <1>1 DEF Known
<1>6. \A k, x : (Says(k, x)' <=> Says(k, x)) /\ (Silent(k)' <=> Silent(k))
  BY <1>1 DEF Says, Silent
<1>7. Reported'
  <2> SUFFICES ASSUME NEW k \in Kinds \ missed' PROVE UpToDate(k)'
    BY DEF Reported
  <2>1. CASE k = "film" /\ Silent("film")
    <3>1. Says(k, Known'[k])
      BY <2>1 DEF Says, Silent
    <3>2. QED
      BY <1>3, <1>5, <1>6, <2>1, <3>1, KnownIs DEF UpToDate
  <2>2. CASE k = "film" /\ ~Silent("film")
    <3>1. UpToDate(k)
      BY <1>1, <1>2, <2>2 DEF Reported, Silent
    <3>2. QED
      BY <1>5, <1>6, <2>2, <3>1 DEF UpToDate
  <2>3. CASE k = "streaming"
    <3>1. UpToDate(k)
      BY <1>1, <1>2, <2>3 DEF Reported
    <3>2. QED
      BY <1>3, <1>5, <1>6, <2>3, <3>1 DEF UpToDate
  <2>4. QED
    BY <2>1, <2>2, <2>3, KnownIs
<1>8. QED
  BY <1>2, <1>4, <1>7 DEF ReportsIInv

\* The first report leaves the queue: the last of a kind stays the last, and if none is
\* left the first one was it, or there was none.
LEMMA HeadLeaves ==
  ASSUME queue \in Seq(AllReports), queue # <<>>, queue' = Tail(queue), NEW k, NEW x
  PROVE  /\ Head(queue) \in AllReports /\ queue' \in Seq(AllReports) /\ Len(queue') < Len(queue)
         /\ Says(k, x) => Says(k, x)'
         /\ Silent(k)' /\ Head(queue).kind # k => Silent(k)
         /\ Silent(k)' /\ Head(queue).kind = k => LastOfKind(Head(queue))
         /\ Silent(k)' /\ Head(queue).kind = k /\ Says(k, x) => Head(queue).value = x
<1>1. /\ DOMAIN queue = 1..Len(queue) /\ Len(queue) \in Nat \ {0} /\ Head(queue) = queue[1]
      /\ DOMAIN queue' = 1..Len(queue) - 1 /\ \A i \in 1..Len(queue) - 1 : queue'[i] = queue[i + 1]
      /\ Head(queue) \in AllReports /\ queue' \in Seq(AllReports) /\ Len(queue') < Len(queue)
  OBVIOUS
<1>2. \A i \in DOMAIN queue : i = 1 \/ (i - 1 \in DOMAIN queue' /\ queue'[i - 1] = queue[i])
  BY <1>1
<1>3. \A i \in DOMAIN queue' : i + 1 \in DOMAIN queue /\ queue'[i] = queue[i + 1]
  BY <1>1
<1>4. ASSUME Says(k, x) PROVE Says(k, x)'
  <2> SUFFICES ASSUME NEW i \in DOMAIN queue', queue'[i].kind = k,
                      \A j \in DOMAIN queue' : j > i => queue'[j].kind # k
               PROVE  queue'[i].value = x
    BY DEF Says
  <2>1. i + 1 \in DOMAIN queue /\ queue[i + 1] = queue'[i] /\ i \in Nat
    BY <1>1, <1>3
  <2>2. ASSUME NEW j \in DOMAIN queue, j > i + 1 PROVE queue[j].kind # k
    <3>1. j - 1 \in DOMAIN queue' /\ queue'[j - 1] = queue[j] /\ j - 1 > i
      BY <1>1, <1>2, <2>1, <2>2
    <3>2. QED
      BY <3>1
  <2>3. queue[i + 1].value = x
    BY <1>4, <2>1, <2>2 DEF Says
  <2>4. QED
    BY <2>1, <2>3
<1>5. ASSUME Silent(k)' PROVE \A i \in DOMAIN queue : i # 1 => queue[i].kind # k
  BY <1>2, <1>5 DEF Silent
<1>6. Silent(k)' /\ Head(queue).kind # k => Silent(k)
  BY <1>1, <1>5 DEF Silent
<1>7. Silent(k)' /\ Head(queue).kind = k /\ Says(k, x) => Head(queue).value = x
  <2> SUFFICES ASSUME Silent(k)', Head(queue).kind = k, Says(k, x) PROVE queue[1].value = x
    BY <1>1
  <2>1. 1 \in DOMAIN queue /\ queue[1].kind = k
    BY <1>1
  <2>2. \A j \in DOMAIN queue : j > 1 => queue[j].kind # k
    BY <1>5
  <2>3. QED
    BY <2>1, <2>2 DEF Says
<1>8. Silent(k)' /\ Head(queue).kind = k => LastOfKind(Head(queue))
  BY <1>1, <1>5 DEF LastOfKind
<1>9. QED
  BY <1>1, <1>4, <1>6, <1>7, <1>8

LEMMA SendsHolds == ASSUME ReportsIInv, Sends PROVE ReportsIInv'
<1> DEFINE head == Head(queue)
<1>1. /\ UNCHANGED <<film, combined, conn, up, missed, sunshine, process>> /\ UNCHANGED watchVars
      /\ queue # <<>> /\ queue' = Tail(queue) /\ belief' = Handled(head)
  BY DEF Sends, watchVars, watchers
<1>2. Watched' /\ AgentTypes /\ Reported /\ queue \in Seq(AllReports) /\ belief \in [Kinds -> BOOLEAN]
  BY <1>1, WatchedStays DEF ReportsIInv, AgentTypes
<1>3. head \in AllReports /\ queue' \in Seq(AllReports) /\ Len(queue') < Len(queue)
  BY <1>1, <1>2, HeadLeaves
<1>4. /\ belief' \in [Kinds -> BOOLEAN]
      /\ \A k \in Kinds : belief'[k] = IF head.kind = k THEN head.value ELSE belief[k]
  <2>1. CASE head = Event
    BY <1>1, <1>2, <2>1, ReportFacts DEF Handled
  <2>2. CASE head # Event
    BY <1>1, <1>2, <1>3, <2>2, ReportFacts DEF Handled
  <2>3. QED
    BY <2>1, <2>2
<1>5. AgentTypes'
  <2>1. Len(queue') <= QueueSize
    BY <1>2, <1>3, ReportsAssumption DEF AgentTypes
  <2>2. QED
    BY <1>1, <1>2, <1>3, <1>4, <2>1 DEF AgentTypes
<1>6. \A k \in Kinds : Known'[k] = Known[k]
  BY <1>1 DEF Known
<1> HIDE DEF head
<1>7. Reported'
  <2> SUFFICES ASSUME NEW k \in Kinds \ missed' PROVE UpToDate(k)'
    BY DEF Reported
  <2>1. UpToDate(k)
    BY <1>1, <1>2 DEF Reported
  <2>2. /\ Says(k, Known[k]) => Says(k, Known[k])'
        /\ Silent(k)' /\ head.kind # k => Silent(k)
        /\ Silent(k)' /\ head.kind = k /\ Says(k, Known[k]) => head.value = Known[k]
    <3>1. \A x : /\ Says(k, x) => Says(k, x)'
                 /\ Silent(k)' /\ head.kind = k /\ Says(k, x) => head.value = x
      BY <1>1, <1>2, HeadLeaves DEF head
    <3>2. Silent(k)' /\ head.kind # k => Silent(k)
      BY <1>1, <1>2, HeadLeaves DEF head
    <3>3. Says(k, Known[k]) => Says(k, Known[k])'
      BY <1>6, <3>1 DEF Says
    <3>4. QED
      BY <3>1, <3>2, <3>3
  <2>3. QED
    BY <1>1, <1>4, <1>6, <2>1, <2>2 DEF UpToDate
<1>8. QED
  BY <1>2, <1>5, <1>7 DEF ReportsIInv

\* A report of a film that is lost is made up for by the next connection.
LEMMA SendFailsHolds == ASSUME ReportsIInv, SendFails PROVE ReportsIInv'
<1> DEFINE head == Head(queue)
<1>1. /\ UNCHANGED <<film, combined, belief, up, sunshine, process>> /\ UNCHANGED watchVars
      /\ queue # <<>> /\ queue' = Tail(queue) /\ conn' \in {"none", "broken"}
      /\ missed' = missed \cup (IF head.kind = "streaming" /\ LastOfKind(head)
                                THEN {head.kind} ELSE {})
  BY DEF SendFails, watchVars, watchers, daemonView
<1>2. Watched' /\ AgentTypes /\ Reported /\ queue \in Seq(AllReports)
  BY <1>1, WatchedStays DEF ReportsIInv, AgentTypes
<1>3. /\ queue' \in Seq(AllReports) /\ Len(queue') < Len(queue)
  BY <1>1, <1>2, HeadLeaves
<1>4. AgentTypes'
  <2>1. Len(queue') <= QueueSize
    BY <1>2, <1>3, ReportsAssumption DEF AgentTypes
  <2>2. missed' \in SUBSET Kinds
    BY <1>1, <1>2, KnownIs DEF AgentTypes
  <2>3. QED
    BY <1>1, <1>2, <1>3, <2>1, <2>2 DEF AgentTypes
<1>5. \A k \in Kinds : Known'[k] = Known[k]
  BY <1>1 DEF Known
<1>6. Reported'
  <2> SUFFICES ASSUME NEW k \in Kinds \ missed' PROVE UpToDate(k)'
    BY DEF Reported
  <2>1. UpToDate(k)
    BY <1>1, <1>2 DEF Reported
  <2>2. Says(k, Known[k])'
    <3>1. \A x : Says(k, x) => Says(k, x)'
      BY <1>1, <1>2, HeadLeaves
    <3>2. QED
      BY <1>5, <2>1, <3>1 DEF UpToDate, Says
  <2>3. CASE k = "film"
    BY <1>1, <2>2, <2>3 DEF UpToDate
  <2>4. CASE k = "streaming"
    <3>1. Silent(k)' => head.kind # k
      BY <1>1, <1>2, <2>4, HeadLeaves
    <3>2. Silent(k)' => Silent(k)
      BY <1>1, <1>2, <3>1, HeadLeaves
    <3>3. QED
      BY <1>1, <1>5, <2>1, <2>2, <2>4, <3>2 DEF UpToDate
  <2>5. QED
    BY <2>3, <2>4, KnownIs
<1>7. QED
  BY <1>2, <1>4, <1>6 DEF ReportsIInv

LEMMA DaemonStopsHolds == ASSUME ReportsIInv, DaemonStops PROVE ReportsIInv'
<1>1. /\ UNCHANGED <<film, combined, queue, sunshine, process>> /\ UNCHANGED watchVars
      /\ up' = FALSE /\ conn' = (IF conn = "up" THEN "broken" ELSE conn)
      /\ belief' = [kind \in Kinds |-> FALSE]
      /\ missed' = missed \cup {kind \in Kinds \ {"film"} : Known[kind]}
  BY DEF DaemonStops, Unknown, watchVars, watchers
<1>2. Watched' /\ AgentTypes /\ Reported
  BY <1>1, WatchedStays DEF ReportsIInv
<1>3. AgentTypes'
  BY <1>1, <1>2 DEF AgentTypes
<1>4. Known' = Known
  BY <1>1 DEF Known
<1>5. Reported'
  <2> SUFFICES ASSUME NEW k \in Kinds \ missed' PROVE UpToDate(k)'
    BY DEF Reported
  <2>1. UpToDate(k)
    BY <1>1, <1>2 DEF Reported
  <2>2. Says(k, Known[k])'
    BY <1>1, <1>4, <2>1 DEF UpToDate, Says
  <2>3. k = "film" => conn' # "up"
    BY <1>1
  <2>4. k # "film" => Known'[k] = FALSE
    <3>1. Known[k] \in BOOLEAN
      BY <1>2, KnownIs DEF AgentTypes, ReportsIInv, Watched, WatchTypeOK
    <3>2. QED
      BY <1>1, <1>4, <3>1
  <2>5. belief'[k] = FALSE
    BY <1>1
  <2>6. QED
    BY <2>2, <2>3, <2>4, <2>5 DEF UpToDate
<1>6. QED
  BY <1>2, <1>3, <1>5 DEF ReportsIInv

LEMMA DaemonStartsHolds == ASSUME ReportsIInv, DaemonStarts PROVE ReportsIInv'
<1>1. /\ UNCHANGED <<film, combined, queue, conn, belief, missed, sunshine, process>> /\ up' = TRUE
      /\ UNCHANGED watchVars
  BY DEF DaemonStarts, agent, watchVars, watchers
<1>2. Watched'
  BY <1>1, WatchedStays DEF ReportsIInv
<1>3. AgentTypes'
  BY <1>1 DEF ReportsIInv, AgentTypes
<1>4. Known' = Known
  BY <1>1 DEF Known
<1>5. Reported'
  BY <1>1, <1>4 DEF ReportsIInv, Reported, UpToDate, Says, Silent
<1>6. QED
  BY <1>2, <1>3, <1>5 DEF ReportsIInv

\* A new agent has seen nothing yet; a stream that is on it will not see.
LEMMA AgentRestartsHolds == ASSUME ReportsIInv, AgentRestarts PROVE ReportsIInv'
<1>1. /\ UNCHANGED <<hosting, log, up, belief>>
      /\ pos' = Len(log) /\ sunshine' = FALSE /\ process' = FALSE
      /\ unseen' = (IF hosting THEN {"started"} ELSE {})
      /\ film' = FALSE /\ combined' = FALSE /\ queue' = <<>> /\ conn' = "none"
      /\ missed' = (missed \ {"film"}) \cup (IF belief["streaming"] THEN {"streaming"} ELSE {})
  BY DEF AgentRestarts, WatchStarts, real, daemonView
<1>2. WatchTypeOK /\ LogSeen /\ AgentTypes /\ log \in Seq(BOOLEAN) /\ hosting \in BOOLEAN
  BY DEF ReportsIInv, Watched, WatchTypeOK
<1>3. WatchTypeOK'
  <2>1. pos' \in 0..Lines
    BY <1>1, <1>2, StreamWatchAssumption DEF WatchTypeOK
  <2>2. unseen' \in SUBSET {"started", "tail", "rotated", "torn"}
    BY <1>1
  <2>3. QED
    BY <1>1, <1>2, <2>1, <2>2 DEF WatchTypeOK
<1>4. LogSeen' /\ SunshineFollows'
  <2>1. unseen' \subseteq {"rotated"} => hosting = FALSE
    BY <1>1, <1>2
  <2>2. pos' <= Len(log)
    BY <1>1, <1>2
  <2>3. QED
    BY <1>1, <1>2, <2>1, <2>2 DEF LogSeen, SunshineFollows
<1>5. AgentTypes'
  <2>1. queue' \in Seq(AllReports) /\ Len(queue') <= QueueSize
    BY <1>1, ReportsAssumption
  <2>2. combined' = (sunshine' \/ process')
    BY <1>1
  <2>3. missed' \in SUBSET Kinds
    BY <1>1, <1>2, KnownIs DEF AgentTypes
  <2>4. QED
    BY <1>1, <1>2, <2>1, <2>2, <2>3 DEF AgentTypes
<1>6. Reported'
  <2> SUFFICES ASSUME NEW k \in Kinds \ missed' PROVE UpToDate(k)'
    BY DEF Reported
  <2>1. DOMAIN queue' = {}
    BY <1>1
  <2>2. Says(k, Known[k])'
    BY <2>1 DEF Says
  <2>3. CASE k = "film"
    BY <1>1, <2>2, <2>3 DEF UpToDate
  <2>4. CASE k = "streaming"
    <3>1. belief'[k] = FALSE
      BY <1>1, <1>2, <2>4, KnownIs DEF AgentTypes
    <3>2. Known'[k] = FALSE
      BY <1>1, <2>4 DEF Known, Kinds
    <3>3. QED
      BY <2>2, <3>1, <3>2 DEF UpToDate
  <2>5. QED
    BY <2>3, <2>4, KnownIs
<1>7. QED
  BY <1>3, <1>4, <1>5, <1>6 DEF ReportsIInv, Watched

LEMMA ReportsNextHolds == ReportsIInv /\ [ReportsNext]_reportsVars => ReportsIInv'
<1> SUFFICES ASSUME ReportsIInv, [ReportsNext]_reportsVars PROVE ReportsIInv'
  OBVIOUS
<1>1. CASE UNCHANGED reportsVars
  <2>1. /\ UNCHANGED <<film, combined, queue, conn, up, belief, missed, sunshine, process>>
        /\ UNCHANGED watchVars
    BY <1>1 DEF reportsVars, agent, daemonView, watchVars, watchers
  <2>2. Watched'
    BY <2>1, WatchedStays DEF ReportsIInv
  <2>3. Known' = Known
    BY <2>1 DEF Known
  <2>4. AgentTypes' /\ Reported'
    BY <2>1, <2>3 DEF ReportsIInv, AgentTypes, Reported, UpToDate, Says, Silent
  <2>5. QED
    BY <2>2, <2>4 DEF ReportsIInv
<1>2. CASE World
  BY <1>2, WorldHolds
<1>3. CASE FilmPoll
  BY <1>3, FilmPollHolds
<1>4. CASE Input \/ LockChange
  BY <1>4, HappensHolds DEF Input, LockChange
<1>5. CASE SunshinePoll
  BY <1>5, SunshinePollHolds
<1>6. CASE ProcessPoll
  BY <1>6, ProcessPollHolds
<1>7. CASE AgentRuns
  BY <1>7, ConnectsHolds, SendsHolds, SendFailsHolds DEF AgentRuns
<1>8. CASE DaemonStops \/ DaemonStarts \/ AgentRestarts
  BY <1>8, DaemonStopsHolds, DaemonStartsHolds, AgentRestartsHolds
<1>9. QED
  BY <1>1, <1>2, <1>3, <1>4, <1>5, <1>6, <1>7, <1>8 DEF ReportsNext

LEMMA ReportsIInvHolds == ReportsSpec => []ReportsIInv
<1>1. QED
  BY ReportsInitHolds, ReportsNextHolds, PTL DEF ReportsSpec

\* The watcher is right about the stream once it has caught up with the log, for any
\* length of the log and of the queue and any rotations.
THEOREM ReportsInvHolds == ReportsSpec => []ReportsInv
<1>1. ReportsIInv => ReportsInv
  BY DEF ReportsIInv, Watched, AgentTypes, ReportsTypeOK, ReportsInv
<1>2. QED
  BY <1>1, ReportsIInvHolds, PTL

\* Of all but what is lost the daemon has been told when nothing is left to send.
THEOREM InformedHolds == ReportsSpec => []Informed
<1>1. ReportsIInv => Informed
  <2> SUFFICES ASSUME ReportsIInv, conn = "up", queue = <<>>, NEW kind \in Kinds \ missed
               PROVE  belief[kind] = Known[kind]
    BY DEF Informed, Quiet
  <2>1. UpToDate(kind) /\ DOMAIN queue = {}
    BY DEF ReportsIInv, Reported
  <2>2. QED
    BY <2>1 DEF UpToDate, Silent
<1>2. QED
  BY <1>1, ReportsIInvHolds, PTL

-----------------------------------------------------------------------------
(* Lists of requests                                                       *)

Requests == {"status", "on", "off"}

\* The last command among the requests, if there is one, is this.
LastOrder(requests, order) ==
  \A i \in DOMAIN requests :
    /\ requests[i] # "status"
    /\ \A j \in DOMAIN requests : j > i => requests[j] = "status"
    => requests[i] = order

LEMMA AppendOrders ==
  ASSUME NEW requests \in Seq(Requests), NEW request \in Requests
  PROVE  /\ Append(requests, request) \in Seq(Requests)
         /\ Orders(Append(requests, request)) <=> Orders(requests) \/ request # "status"
         /\ request # "status" => LastOrder(Append(requests, request), request)
         /\ request = "status" => \A order : LastOrder(requests, order)
                                               => LastOrder(Append(requests, request), order)
<1> DEFINE all == Append(requests, request)
           n == Len(requests) + 1
<1>1. /\ DOMAIN requests = 1..Len(requests) /\ Len(requests) \in Nat /\ all \in Seq(Requests)
      /\ DOMAIN all = 1..n /\ n \in 1..n /\ all[n] = request
      /\ \A i \in DOMAIN requests : i \in DOMAIN all /\ all[i] = requests[i] /\ n > i
  OBVIOUS
<1>2. \A i \in DOMAIN all : i = n \/ i \in DOMAIN requests
  BY <1>1
<1> HIDE DEF all, n
<1>3. Orders(all) <=> Orders(requests) \/ request # "status"
  BY <1>1, <1>2 DEF Orders
<1>4. request # "status" => LastOrder(all, request)
  BY <1>1, <1>2 DEF LastOrder
<1>5. ASSUME request = "status", NEW order, LastOrder(requests, order) PROVE LastOrder(all, order)
  <2> SUFFICES ASSUME NEW i \in DOMAIN all, all[i] # "status",
                      \A j \in DOMAIN all : j > i => all[j] = "status"
               PROVE  all[i] = order
    BY DEF LastOrder
  <2>1. i \in DOMAIN requests /\ requests[i] # "status"
    BY <1>1, <1>2, <1>5
  <2>2. \A j \in DOMAIN requests : j > i => requests[j] = "status"
    BY <1>1
  <2>3. QED
    BY <1>1, <1>5, <2>1, <2>2 DEF LastOrder
<1>6. QED
  BY <1>1, <1>3, <1>4, <1>5 DEF all

LEMMA TailOrders ==
  ASSUME NEW requests \in Seq(Requests), requests # <<>>
  PROVE  /\ Tail(requests) \in Seq(Requests) /\ Head(requests) \in Requests
         /\ Orders(requests) <=> Orders(Tail(requests)) \/ Head(requests) # "status"
         /\ \A order : LastOrder(requests, order) =>
                         /\ LastOrder(Tail(requests), order)
                         /\ Orders(Tail(requests)) \/ Head(requests) \in {"status", order}
<1> DEFINE rest == Tail(requests)
<1>1. /\ DOMAIN requests = 1..Len(requests) /\ Len(requests) \in Nat \ {0} /\ rest \in Seq(Requests)
      /\ DOMAIN rest = 1..Len(requests) - 1 /\ Head(requests) = requests[1] /\ Head(requests) \in Requests
      /\ \A i \in DOMAIN rest : i + 1 \in DOMAIN requests /\ rest[i] = requests[i + 1]
  OBVIOUS
<1>2. \A i \in DOMAIN requests : i = 1 \/ (i - 1 \in DOMAIN rest /\ rest[i - 1] = requests[i])
  BY <1>1
<1>3. 1 \in DOMAIN requests
  BY <1>1
<1> HIDE DEF rest
<1>4. Orders(requests) <=> Orders(rest) \/ Head(requests) # "status"
  BY <1>1, <1>2, <1>3 DEF Orders
<1>5. ASSUME NEW order, LastOrder(requests, order) PROVE LastOrder(rest, order)
  <2> SUFFICES ASSUME NEW i \in DOMAIN rest, rest[i] # "status",
                      \A j \in DOMAIN rest : j > i => rest[j] = "status"
               PROVE  rest[i] = order
    BY DEF LastOrder
  <2>1. i \in Nat /\ i + 1 \in DOMAIN requests /\ requests[i + 1] = rest[i]
    BY <1>1
  <2>2. ASSUME NEW j \in DOMAIN requests, j > i + 1 PROVE requests[j] = "status"
    <3>1. j - 1 \in DOMAIN rest /\ rest[j - 1] = requests[j] /\ j - 1 > i
      BY <1>1, <1>2, <2>1, <2>2
    <3>2. QED
      BY <3>1
  <2>3. QED
    BY <1>5, <2>1, <2>2 DEF LastOrder
<1>6. ASSUME NEW order, LastOrder(requests, order), ~Orders(rest), Head(requests) # "status"
      PROVE  Head(requests) = order
  <2>1. \A j \in DOMAIN requests : j > 1 => requests[j] = "status"
    BY <1>2, <1>6 DEF Orders
  <2>2. QED
    BY <1>1, <1>3, <1>6, <2>1 DEF LastOrder
<1>7. QED
  BY <1>1, <1>4, <1>5, <1>6 DEF rest
-----------------------------------------------------------------------------
(* The connection to the daemon                                            *)

\* A list is what its items make it.
LEMMA ListIs == ASSUME NEW S, NEW list \in Seq(S) PROVE list = [i \in 1..Len(list) |-> list[i]]
  OBVIOUS

LEMMA EmptyOrders == ~Orders(<<>>)
  BY DEF Orders

\* What was sent is a list of requests, the first of which is that of the first frame.
LEMMA SentFacts ==
  ASSUME outbox \in Seq(Frames)
  PROVE  /\ Sent \in Seq(Requests)
         /\ outbox = <<>> => Sent = <<>>
         /\ outbox # <<>> => /\ Sent # <<>> /\ Head(outbox) \in Frames /\ Head(outbox).cmd = Head(Sent)
                             /\ Tail(outbox) \in Seq(Frames) /\ Len(Tail(outbox)) <= Len(outbox)
                             /\ Tail(Sent) = [i \in DOMAIN Tail(outbox) |-> Tail(outbox)[i].cmd]
<1>1. \A i \in DOMAIN outbox : outbox[i] \in Frames /\ outbox[i].cmd \in Requests
  <2>1. \A frame \in Frames : frame.cmd \in Requests
    BY DEF Frames, Requests
  <2>2. \A i \in DOMAIN outbox : outbox[i] \in Frames
    OBVIOUS
  <2>3. QED
    BY <2>1, <2>2
<1>2. Sent \in Seq(Requests) /\ Len(Sent) = Len(outbox) /\ \A i \in DOMAIN outbox : Sent[i] = outbox[i].cmd
  BY <1>1 DEF Sent
<1>3. outbox = <<>> => Sent = <<>>
  BY <1>2
<1>4. ASSUME outbox # <<>>
      PROVE  /\ Sent # <<>> /\ Head(outbox) \in Frames /\ Head(outbox).cmd = Head(Sent)
             /\ Tail(outbox) \in Seq(Frames) /\ Len(Tail(outbox)) = Len(outbox) - 1
  <2>1. 1 \in DOMAIN outbox /\ Head(outbox) = outbox[1] /\ Head(Sent) = Sent[1] /\ Sent # <<>>
    BY <1>2, <1>4
  <2>2. Tail(outbox) \in Seq(Frames) /\ Len(Tail(outbox)) = Len(outbox) - 1
    BY <1>4
  <2>3. QED
    BY <1>1, <1>2, <2>1, <2>2
<1>5. ASSUME outbox # <<>>
      PROVE  Tail(Sent) = [i \in DOMAIN Tail(outbox) |-> Tail(outbox)[i].cmd]
  <2> DEFINE rest == [i \in DOMAIN Tail(outbox) |-> Tail(outbox)[i].cmd]
  <2>1. /\ Len(Sent) = Len(outbox) /\ Len(outbox) \in Nat \ {0} /\ DOMAIN outbox = 1..Len(outbox)
        /\ DOMAIN Tail(outbox) = 1..Len(outbox) - 1
        /\ \A i \in 1..Len(outbox) - 1 : Tail(outbox)[i] = outbox[i + 1]
    BY <1>2, <1>5
  <2>2. /\ DOMAIN Tail(Sent) = 1..Len(outbox) - 1
        /\ \A i \in 1..Len(outbox) - 1 : Tail(Sent)[i] = Sent[i + 1]
        /\ Tail(Sent) \in Seq(Requests) /\ Len(Tail(Sent)) = Len(outbox) - 1
    <3>1. Sent # <<>>
      BY <1>4, <1>5
    <3>2. QED
      BY <1>2, <3>1
  <2>3. \A i \in 1..Len(outbox) - 1 : Sent[i + 1] = Tail(outbox)[i].cmd
    BY <1>2, <2>1
  <2>4. Tail(Sent) = [i \in 1..Len(outbox) - 1 |-> Tail(Sent)[i]]
    BY <2>2, ListIs
  <2>5. QED
    BY <2>1, <2>2, <2>3, <2>4
<1>6. QED
  BY <1>2, <1>3, <1>4, <1>5

LEMMA SupersededFacts ==
  /\ \A frames \in Seq(Frames) :
       /\ Superseded(frames) \in Seq(Frames) /\ Len(Superseded(frames)) = Len(frames)
       /\ \A i \in DOMAIN frames : Superseded(frames)[i].cmd = frames[i].cmd
  /\ \A answers \in Seq(Answers) : Old(answers) \in Seq(Answers)
<1>1. \A frame \in Frames : [frame EXCEPT !.latest = FALSE] \in Frames
                            /\ [frame EXCEPT !.latest = FALSE].cmd = frame.cmd
  BY DEF Frames
<1>2. "old" \in Answers
  BY DEF Answers
<1>3. ASSUME NEW frames \in Seq(Frames)
      PROVE  /\ Superseded(frames) \in Seq(Frames) /\ Len(Superseded(frames)) = Len(frames)
             /\ \A i \in DOMAIN frames : Superseded(frames)[i].cmd = frames[i].cmd
  <2>1. \A i \in DOMAIN frames : frames[i] \in Frames
    OBVIOUS
  <2>2. Superseded(frames) = [i \in 1..Len(frames) |-> [frames[i] EXCEPT !.latest = FALSE]]
    BY DEF Superseded
  <2>3. \A i \in 1..Len(frames) : /\ [frames[i] EXCEPT !.latest = FALSE] \in Frames
                                  /\ [frames[i] EXCEPT !.latest = FALSE].cmd = frames[i].cmd
    BY <1>1, <2>1
  <2>4. \A i \in 1..Len(frames) : /\ Superseded(frames)[i] \in Frames
                                  /\ Superseded(frames)[i].cmd = frames[i].cmd
    BY <2>2, <2>3
  <2>5. Superseded(frames) \in Seq(Frames) /\ Len(Superseded(frames)) = Len(frames)
    BY <2>2, <2>3
  <2>6. QED
    BY <2>4, <2>5
<1>4. ASSUME NEW answers \in Seq(Answers) PROVE Old(answers) \in Seq(Answers)
  BY <1>2 DEF Old
<1>5. QED
  BY <1>3, <1>4

LEMMA WritesFacts ==
  ASSUME IpcTypeOK, NEW c \in Coroutines, NEW cmd \in Requests, Writes(c, cmd)
  PROVE  /\ IpcTypeOK' /\ Sent' = Append(Sent, cmd)
         /\ reading' \in {reading, reading \cup {c}}
<1> DEFINE frame == [cmd |-> cmd, latest |-> TRUE]
           old == Superseded(outbox)
<1>1. /\ outbox' = Append(old, frame) /\ inbox' = Old(inbox) /\ Len(outbox) < MaxFrames
      /\ reading' \in {reading, reading \cup {c}}
  BY DEF Writes
<1>2. frame \in Frames /\ frame.cmd = cmd
  BY DEF Frames, Requests
<1>3. /\ old \in Seq(Frames) /\ Len(old) = Len(outbox) /\ outbox \in Seq(Frames)
      /\ \A i \in DOMAIN outbox : old[i].cmd = outbox[i].cmd
      /\ inbox' \in Seq(Answers)
  BY <1>1, SupersededFacts DEF IpcTypeOK
<1> HIDE DEF old, frame
<1>4. /\ outbox' \in Seq(Frames) /\ Len(outbox') = Len(outbox) + 1 /\ Len(outbox) \in Nat
      /\ outbox'[Len(outbox) + 1] = frame
      /\ \A i \in 1..Len(outbox) : outbox'[i] = old[i]
  BY <1>1, <1>2, <1>3
<1>5. IpcTypeOK'
  <2>1. Len(outbox') <= MaxFrames
    BY <1>1, <1>4, IpcClientAssumption
  <2>2. QED
    BY <1>1, <1>3, <1>4, <2>1 DEF IpcTypeOK
<1>6. Sent' = Append(Sent, cmd)
  <2>1. /\ Sent \in Seq(Requests) /\ Len(Sent) = Len(outbox)
        /\ \A i \in 1..Len(outbox) : Sent[i] = outbox[i].cmd
    BY <1>3, SentFacts DEF Sent
  <2>2. Sent' = [i \in 1..Len(outbox) + 1 |-> outbox'[i].cmd]
    BY <1>4 DEF Sent
  <2>3. Append(Sent, cmd) = [i \in 1..Len(outbox) + 1 |-> IF i = Len(outbox) + 1 THEN cmd ELSE Sent[i]]
    <3> DEFINE all == Append(Sent, cmd)
    <3>1. /\ all \in Seq(Requests) /\ Len(all) = Len(outbox) + 1
          /\ \A i \in 1..Len(outbox) + 1 : all[i] = IF i = Len(outbox) + 1 THEN cmd ELSE Sent[i]
      BY <1>4, <2>1
    <3>2. all = [i \in 1..Len(outbox) + 1 |-> all[i]]
      BY <3>1, ListIs
    <3>3. QED
      BY <3>1, <3>2
  <2>4. \A i \in 1..Len(outbox) + 1 :
          outbox'[i].cmd = IF i = Len(outbox) + 1 THEN cmd ELSE Sent[i]
    <3> SUFFICES ASSUME NEW i \in 1..Len(outbox) + 1
                 PROVE  outbox'[i].cmd = IF i = Len(outbox) + 1 THEN cmd ELSE Sent[i]
      OBVIOUS
    <3>1. CASE i = Len(outbox) + 1
      BY <1>2, <1>4, <3>1
    <3>2. CASE i # Len(outbox) + 1
      <4>1. i \in 1..Len(outbox) /\ i \in DOMAIN outbox
        BY <1>3, <1>4, <3>2
      <4>2. QED
        BY <1>3, <1>4, <2>1, <3>2, <4>1
    <3>3. QED
      BY <3>1, <3>2
  <2>5. QED
    BY <2>2, <2>3, <2>4
<1>7. QED
  BY <1>1, <1>5, <1>6

LEMMA TakesFacts ==
  ASSUME IpcTypeOK, NEW c \in Coroutines, Takes(c)
  PROVE  /\ IpcTypeOK' /\ reading' \subseteq reading /\ UNCHANGED outbox
         /\ Head(inbox) \in Answers
         /\ Head(inbox) # "old" => c \notin reading'
<1>1. /\ inbox # <<>> /\ inbox' = Tail(inbox) /\ UNCHANGED outbox
      /\ reading' \subseteq reading
      /\ Head(inbox) # "old" => c \notin reading'
  BY DEF Takes
<1>2. Head(inbox) \in Answers /\ Tail(inbox) \in Seq(Answers)
  BY <1>1 DEF IpcTypeOK
<1>3. IpcTypeOK'
  BY <1>1, <1>2 DEF IpcTypeOK
<1>4. QED
  BY <1>1, <1>2, <1>3

LEMMA GivesUpFacts ==
  ASSUME IpcTypeOK, NEW c, GivesUp(c)
  PROVE  /\ IpcTypeOK' /\ reading' \subseteq reading /\ UNCHANGED outbox /\ c \notin reading'
  BY DEF GivesUp, IpcTypeOK

LEMMA ReopensFacts ==
  ASSUME IpcTypeOK, Reopens
  PROVE  IpcTypeOK' /\ Sent' = <<>> /\ outbox' = <<>> /\ reading' = {}
<1>1. outbox' = <<>> /\ inbox' = <<>> /\ reading' = {}
  BY DEF Reopens
<1>2. IpcTypeOK'
  BY <1>1, IpcClientAssumption DEF IpcTypeOK
<1>3. Sent' = <<>>
  BY <1>1 DEF Sent
<1>4. QED
  BY <1>1, <1>2, <1>3

LEMMA AnsweredFacts ==
  ASSUME IpcTypeOK, outbox # <<>>, NEW frame, NEW power \in Powers, Answered(frame, power)
  PROVE  /\ IpcTypeOK' /\ Sent' = Tail(Sent) /\ reading' = reading
         /\ frame.cmd = Head(Sent)
<1>1. /\ frame = Head(outbox) /\ outbox' = Tail(outbox) /\ reading' = reading
      /\ inbox' = Append(inbox, Answer(frame, power))
  BY DEF Answered
<1>2. /\ outbox \in Seq(Frames) /\ inbox \in Seq(Answers) /\ reading \in SUBSET Coroutines
      /\ Len(outbox) <= MaxFrames
  BY DEF IpcTypeOK
<1>3. /\ frame \in Frames /\ frame.cmd = Head(Sent) /\ outbox' \in Seq(Frames)
      /\ Len(outbox') <= Len(outbox) /\ Sent' = Tail(Sent)
  BY <1>1, <1>2, SentFacts DEF Sent
<1>4. inbox' \in Seq(Answers)
  <2>1. Answer(frame, power) \in Answers
    BY DEF Answer, Answers, Powers
  <2>2. QED
    BY <1>1, <1>2, <2>1
<1>5. Len(outbox') <= MaxFrames
  <2>1. Len(outbox') \in Nat /\ Len(outbox) \in Nat /\ MaxFrames \in Nat
    BY <1>2, <1>3, IpcClientAssumption
  <2>2. QED
    BY <1>2, <1>3, <2>1
<1>6. QED
  BY <1>1, <1>2, <1>3, <1>4, <1>5 DEF IpcTypeOK
-----------------------------------------------------------------------------
(* The MQTT bridge                                                         *)

\* BridgeTypeOK, in the parts that the actions leave alone together.
RunTypes ==
  /\ at \in {"offline", "announcing", "serving", "stopped"}
  /\ stop \in BOOLEAN /\ published \in Powers \cup {Nothing}
CommandTypes == commands \in Seq(Powers) /\ Len(commands) <= MaxCommands
BrokerTypes ==
  /\ mqtt \in {"none", "up", "lost"} /\ available \in {"online", "offline", Nothing}
  /\ usable \in BOOLEAN /\ shown \in Powers \cup {Nothing}
DaemonTypes == alive \in BOOLEAN /\ tv \in Powers /\ leftover \in Powers \cup {Nothing}
Reasons == {"stale", "left", "crossed", "dropped"}
HistoryTypes == asked \in Powers \cup {Nothing} /\ excuse \in SUBSET Reasons

\* The poller lives as long as the connections, and reads only while it asks.
Polling ==
  /\ poll \in {"none", "asleep", "asking", "publishing"}
  /\ (at \in {"announcing", "serving"}) = (poll # "none")
  /\ Poller \in reading => poll = "asking"

\* A bridge that runs has a connection to the broker, if a lost one; one that does not
\* has asked the daemon nothing on its next connection.
Attached ==
  /\ at \in {"announcing", "serving"} => mqtt # "none"
  /\ at \in {"offline", "stopped"} => outbox = <<>>

Excused == excuse \cap {"crossed", "dropped"} # {}

\* The last command that the daemon has still to handle is the last that reached the
\* bridge; when it has none, the TV is as that one wants it.
CommandsLead ==
  ~Excused /\ asked # Nothing =>
    IF Orders(Sent) THEN leftover = Nothing /\ LastOrder(Sent, asked)
    ELSE IF leftover # Nothing THEN leftover = asked ELSE tv = asked

BridgeTypes == IpcTypeOK /\ RunTypes /\ CommandTypes /\ BrokerTypes /\ DaemonTypes /\ HistoryTypes

BridgeIInv ==
  BridgeTypes /\ Polling /\ Attached /\ OfflineWhenGone /\ CacheTrue /\ CommandsLead

LEMMA BridgeTypesHold == BridgeIInv => BridgeTypeOK
  BY DEF BridgeIInv, BridgeTypes, RunTypes, CommandTypes, BrokerTypes, DaemonTypes, HistoryTypes,
         Polling, BridgeTypeOK, Reasons, Powers

LEMMA PollerIs ==
  /\ Poller \in Coroutines /\ Server \in Coroutines /\ Poller # Server
  /\ Nothing # "online" /\ Nothing \notin Powers
  BY BridgeAssumption DEF Powers

LEMMA BridgeInitHolds == BridgeInit => BridgeIInv
<1> SUFFICES ASSUME BridgeInit PROVE BridgeIInv
  OBVIOUS
<1>1. IpcTypeOK /\ outbox = <<>> /\ reading = {}
  BY IpcClientAssumption DEF BridgeInit, Fresh, IpcTypeOK
<1>2. RunTypes /\ BrokerTypes /\ DaemonTypes /\ HistoryTypes
  <2>1. RunTypes /\ HistoryTypes
    BY DEF BridgeInit, RunTypes, HistoryTypes
  <2>2. BrokerTypes
    BY DEF BridgeInit, BrokerTypes
  <2>3. DaemonTypes
    BY DEF BridgeInit, DaemonTypes
  <2>4. QED
    BY <2>1, <2>2, <2>3
<1>3. CommandTypes
  BY BridgeAssumption DEF BridgeInit, CommandTypes
<1>4. Polling /\ Attached /\ OfflineWhenGone /\ CacheTrue /\ CommandsLead
  BY <1>1, PollerIs DEF BridgeInit, Polling, Attached, OfflineWhenGone, CacheTrue, CommandsLead
<1>5. QED
  BY <1>1, <1>2, <1>3, <1>4 DEF BridgeIInv, BridgeTypes

-----------------------------------------------------------------------------
(* What a step leaves alone stays true                                     *)

LEMMA IpcStays == ASSUME IpcTypeOK, UNCHANGED ipcVars PROVE IpcTypeOK' /\ Sent' = Sent
  BY DEF ipcVars, IpcTypeOK, Sent

LEMMA RunStays ==
  ASSUME RunTypes, UNCHANGED <<stop, published>>, at' \in {"offline", "announcing", "serving", "stopped"}
  PROVE  RunTypes'
  BY DEF RunTypes

LEMMA CommandsStay == ASSUME CommandTypes, UNCHANGED commands PROVE CommandTypes'
  BY DEF CommandTypes

LEMMA BrokerStays == ASSUME BrokerTypes, UNCHANGED broker PROVE BrokerTypes'
  BY DEF BrokerTypes, broker

LEMMA DaemonStays == ASSUME DaemonTypes, UNCHANGED daemonState PROVE DaemonTypes'
  BY DEF DaemonTypes, daemonState

LEMMA HistoryStays ==
  ASSUME HistoryTypes, UNCHANGED asked, excuse' \in SUBSET Reasons
  PROVE  HistoryTypes'
  BY DEF HistoryTypes, Reasons

LEMMA LeadStays ==
  ASSUME CommandsLead, Sent' = Sent, UNCHANGED <<leftover, tv, asked>>,
         Excused => Excused'
  PROVE  CommandsLead'
  BY DEF CommandsLead

\* A connection that goes leaves to the daemon the command that it is at; if that is not
\* the last one, commands are dropped.
LEMMA LeadDrops ==
  ASSUME BridgeIInv, NEW reasons, Drops(reasons), Sent' = <<>>
  PROVE  CommandsLead' /\ leftover' \in Powers \cup {Nothing}
<1>1. /\ \/ Going = Nothing /\ leftover' = leftover
         \/ Going # Nothing /\ leftover = Nothing /\ leftover' = Going
      /\ excuse \subseteq excuse' /\ (Sent # <<>> /\ Orders(Tail(Sent)) => "dropped" \in excuse')
      /\ UNCHANGED <<tv, asked>>
  BY DEF Drops
<1>2. Sent \in Seq(Requests) /\ leftover \in Powers \cup {Nothing} /\ CommandsLead
  BY SentFacts DEF BridgeIInv, BridgeTypes, IpcTypeOK, DaemonTypes
<1>3. ~Orders(Sent')
  BY EmptyOrders
<1>4. CASE Sent = <<>>
  <2>1. ~Orders(Sent) /\ leftover' = leftover
    BY <1>1, <1>4, EmptyOrders DEF Going
  <2>2. QED
    BY <1>1, <1>2, <1>3, <2>1 DEF CommandsLead, Excused
<1>5. CASE Sent # <<>>
  <2>1. /\ Head(Sent) \in Requests
        /\ Orders(Sent) <=> Orders(Tail(Sent)) \/ Head(Sent) # "status"
        /\ LastOrder(Sent, asked) => Orders(Tail(Sent)) \/ Head(Sent) \in {"status", asked}
    BY <1>2, <1>5, TailOrders
  <2>2. CASE Head(Sent) = "status"
    <3>1. leftover' = leftover
      BY <1>1, <2>2 DEF Going
    <3>2. QED
      BY <1>1, <1>2, <1>3, <1>5, <2>1, <2>2, <3>1 DEF CommandsLead, Excused
  <2>3. CASE Head(Sent) # "status"
    <3>1. Head(Sent) \in Powers /\ Going = Head(Sent)
      BY <1>5, <2>1, <2>3 DEF Going, Requests, Powers
    <3>2. leftover' = Head(Sent) /\ leftover = Nothing
      BY <1>1, <3>1, PollerIs
    <3>3. QED
      BY <1>1, <1>2, <1>3, <1>5, <2>1, <2>3, <3>1, <3>2, PollerIs DEF CommandsLead, Excused
  <2>4. QED
    BY <2>2, <2>3
<1>6. QED
  BY <1>4, <1>5
-----------------------------------------------------------------------------
(* A run begins and ends                                                   *)

LEMMA CutShortIs == CutShort \subseteq {"stale"}
  BY DEF CutShort

\* What every run's end does, whatever it tells the broker.
LEMMA DropsHolds ==
  ASSUME BridgeIInv, NEW reasons \in SUBSET Reasons, Drops(reasons),
         at' \in {"offline", "stopped"}, UNCHANGED shown
  PROVE  /\ IpcTypeOK' /\ RunTypes' /\ CommandTypes' /\ DaemonTypes' /\ HistoryTypes'
         /\ Polling' /\ Attached' /\ CacheTrue' /\ CommandsLead'
<1>1. /\ Reopens /\ poll' = "none" /\ commands' = <<>> /\ alive' = FALSE
      /\ CutShort \subseteq excuse' /\ excuse \subseteq excuse'
      /\ excuse' \subseteq excuse \cup CutShort \cup reasons \cup {"dropped"}
      /\ UNCHANGED <<stop, published, tv, asked>>
  BY DEF Drops
<1>2. /\ IpcTypeOK /\ RunTypes /\ CommandTypes /\ DaemonTypes /\ HistoryTypes
      /\ Polling /\ Attached /\ CacheTrue /\ CommandsLead
  BY DEF BridgeIInv, BridgeTypes
<1>3. IpcTypeOK' /\ Sent' = <<>> /\ outbox' = <<>> /\ reading' = {}
  BY <1>1, <1>2, ReopensFacts
<1>4. RunTypes'
  BY <1>1, <1>2, RunStays
<1>5. CommandTypes'
  BY <1>1, BridgeAssumption DEF CommandTypes
<1>6. CommandsLead' /\ leftover' \in Powers \cup {Nothing}
  BY <1>3, LeadDrops
<1>7. DaemonTypes'
  BY <1>1, <1>2, <1>6 DEF DaemonTypes
<1>8. Polling' /\ Attached'
  BY <1>1, <1>3 DEF Polling, Attached
<1>9. CacheTrue'
  <2>1. "stale" \notin excuse' => poll # "publishing" \/ published = shown
    BY <1>1 DEF CutShort
  <2>2. QED
    BY <1>1, <1>2, <2>1 DEF CacheTrue
<1>10. HistoryTypes'
  BY <1>1, <1>2, CutShortIs DEF HistoryTypes, Reasons
<1>11. QED
  BY <1>3, <1>4, <1>5, <1>6, <1>7, <1>8, <1>9, <1>10

LEMMA ServeEndsHolds == ASSUME BridgeIInv, ServeEnds PROVE BridgeIInv'
<1>1. /\ at = "serving" /\ at' = "stopped" /\ Drops({}) /\ excuse \subseteq excuse'
      /\ available' = IF mqtt = "up" THEN "offline" ELSE available
      /\ mqtt' = IF mqtt = "up" THEN "none" ELSE mqtt
      /\ UNCHANGED <<usable, shown, asked>>
  BY DEF ServeEnds, Drops
<1>2. BrokerTypes /\ Attached
  BY DEF BridgeIInv, BridgeTypes
<1>3. /\ IpcTypeOK' /\ RunTypes' /\ CommandTypes' /\ DaemonTypes' /\ HistoryTypes'
      /\ Polling' /\ Attached' /\ CacheTrue' /\ CommandsLead'
  BY <1>1, DropsHolds DEF Reasons
<1>4. BrokerTypes'
  BY <1>1, <1>2 DEF BrokerTypes
<1>5. OfflineWhenGone'
  BY <1>1, <1>2 DEF OfflineWhenGone, Attached
<1>6. QED
  BY <1>3, <1>4, <1>5 DEF BridgeIInv, BridgeTypes

LEMMA BrokerDroppedHolds == ASSUME BridgeIInv, BrokerDropped PROVE BridgeIInv'
<1>1. /\ mqtt = "lost" /\ at' = "offline" /\ Drops({}) /\ excuse \subseteq excuse'
      /\ UNCHANGED <<broker, asked>>
  BY DEF BrokerDropped, Drops
<1>2. BrokerTypes
  BY DEF BridgeIInv, BridgeTypes
<1>3. /\ IpcTypeOK' /\ RunTypes' /\ CommandTypes' /\ DaemonTypes' /\ HistoryTypes'
      /\ Polling' /\ Attached' /\ CacheTrue' /\ CommandsLead'
  BY <1>1, DropsHolds DEF broker, Reasons
<1>4. BrokerTypes'
  BY <1>1, <1>2, BrokerStays
<1>5. OfflineWhenGone'
  BY <1>1 DEF OfflineWhenGone, broker
<1>6. QED
  BY <1>3, <1>4, <1>5 DEF BridgeIInv, BridgeTypes

LEMMA AnnounceFailsHolds == ASSUME BridgeIInv, AnnounceFails PROVE BridgeIInv'
<1>1. /\ at' = "offline" /\ Drops({"left"}) /\ "left" \in excuse' /\ mqtt' = "none"
      /\ UNCHANGED <<available, usable, shown, asked>>
  BY DEF AnnounceFails, Drops
<1>2. BrokerTypes
  BY DEF BridgeIInv, BridgeTypes
<1>3. /\ IpcTypeOK' /\ RunTypes' /\ CommandTypes' /\ DaemonTypes' /\ HistoryTypes'
      /\ Polling' /\ Attached' /\ CacheTrue' /\ CommandsLead'
  BY <1>1, DropsHolds DEF Reasons
<1>4. BrokerTypes'
  BY <1>1, <1>2 DEF BrokerTypes
<1>5. OfflineWhenGone'
  BY <1>1 DEF OfflineWhenGone
<1>6. QED
  BY <1>3, <1>4, <1>5 DEF BridgeIInv, BridgeTypes

\* The first requests of a connection are for the status: no command is among them.
LEMMA RunBeginsHolds == ASSUME BridgeIInv, RunBegins PROVE BridgeIInv'
<1> DEFINE one == [cmd |-> "status", latest |-> FALSE]
           two == [cmd |-> "status", latest |-> TRUE]
<1>1. /\ at = "offline" /\ at' = "announcing" /\ mqtt' = "up" /\ available' = "online"
      /\ reading' = {Server} /\ outbox' = <<one, two>> /\ inbox' = <<>>
      /\ poll' = "asleep" /\ alive' = TRUE /\ excuse' = excuse \ {"left"}
      /\ UNCHANGED <<stop, published, commands, usable, shown, tv, leftover, asked>>
  BY DEF RunBegins
<1>2. /\ RunTypes /\ CommandTypes /\ BrokerTypes /\ DaemonTypes /\ HistoryTypes
      /\ IpcTypeOK /\ Polling /\ Attached /\ CacheTrue /\ CommandsLead
  BY DEF BridgeIInv, BridgeTypes
<1>3. IpcTypeOK' /\ ~Orders(Sent')
  <2>1. one \in Frames /\ one.cmd = "status" /\ two \in Frames /\ two.cmd = "status"
    BY DEF Frames
  <2> HIDE DEF one, two
  <2>2. /\ <<one, two>> \in Seq(Frames) /\ Len(<<one, two>>) = 2 /\ <<>> \in Seq(Answers)
        /\ <<one, two>>[1] = one /\ <<one, two>>[2] = two
    BY <2>1
  <2>3. Len(outbox') <= MaxFrames
    BY <1>1, <2>2, BridgeAssumption
  <2>4. IpcTypeOK'
    BY <1>1, <2>2, <2>3, PollerIs DEF IpcTypeOK
  <2>5. Sent' = [i \in 1..2 |-> "status"]
    BY <1>1, <2>1, <2>2 DEF Sent
  <2>6. QED
    BY <2>4, <2>5 DEF Orders
<1>4. RunTypes' /\ CommandTypes'
  BY <1>1, <1>2, RunStays, CommandsStay
<1>5. BrokerTypes'
  BY <1>1, <1>2 DEF BrokerTypes
<1>6. DaemonTypes' /\ HistoryTypes'
  BY <1>1, <1>2 DEF DaemonTypes, HistoryTypes, Reasons
<1>7. Polling' /\ Attached' /\ OfflineWhenGone'
  BY <1>1, PollerIs DEF Polling, Attached, OfflineWhenGone
<1>8. CacheTrue'
  BY <1>1, <1>2 DEF Polling, CacheTrue
<1>9. CommandsLead'
  <2>1. Sent = <<>>
    BY <1>1, <1>2, SentFacts DEF Attached, IpcTypeOK
  <2>2. ~Orders(Sent) /\ ~Orders(Sent')
    BY <1>3, <2>1, EmptyOrders
  <2>3. QED
    BY <1>1, <1>2, <2>2 DEF CommandsLead, Excused
<1>10. QED
  BY <1>3, <1>4, <1>5, <1>6, <1>7, <1>8, <1>9 DEF BridgeIInv, BridgeTypes

LEMMA RunFailsToBeginHolds == ASSUME BridgeIInv, RunFailsToBegin PROVE BridgeIInv'
<1>1. /\ at' = at /\ available' = "online" /\ excuse' = excuse \cup {"left"}
      /\ UNCHANGED <<ipcVars, stop, published, poll, commands, mqtt, usable, shown, daemonState, asked>>
  BY DEF RunFailsToBegin
<1>2. /\ RunTypes /\ CommandTypes /\ BrokerTypes /\ DaemonTypes /\ HistoryTypes
      /\ IpcTypeOK /\ Polling /\ Attached /\ CacheTrue /\ CommandsLead
  BY DEF BridgeIInv, BridgeTypes
<1>3. IpcTypeOK' /\ CommandTypes' /\ DaemonTypes' /\ Sent' = Sent
  BY <1>1, <1>2, IpcStays, CommandsStay, DaemonStays
<1>4. RunTypes' /\ BrokerTypes' /\ HistoryTypes'
  BY <1>1, <1>2 DEF RunTypes, BrokerTypes, HistoryTypes, Reasons
<1>5. Polling' /\ Attached' /\ OfflineWhenGone' /\ CacheTrue'
  BY <1>1, <1>2 DEF Polling, Attached, OfflineWhenGone, CacheTrue, ipcVars
<1>6. CommandsLead'
  BY <1>1, <1>2, <1>3, LeadStays DEF Excused, daemonState
<1>7. QED
  BY <1>3, <1>4, <1>5, <1>6 DEF BridgeIInv, BridgeTypes

LEMMA StoppedHolds == ASSUME BridgeIInv, Stopped PROVE BridgeIInv'
<1>1. /\ at = "offline" /\ at' = "stopped"
      /\ UNCHANGED <<ipcVars, stop, published, poll, commands, broker, daemonState, bridgeHistory>>
  BY DEF Stopped
<1>2. /\ RunTypes /\ CommandTypes /\ BrokerTypes /\ DaemonTypes /\ HistoryTypes
      /\ IpcTypeOK /\ Polling /\ Attached /\ OfflineWhenGone /\ CacheTrue /\ CommandsLead
  BY DEF BridgeIInv, BridgeTypes
<1>3. IpcTypeOK' /\ CommandTypes' /\ BrokerTypes' /\ DaemonTypes' /\ Sent' = Sent
  BY <1>1, <1>2, IpcStays, CommandsStay, BrokerStays, DaemonStays
<1>4. RunTypes' /\ HistoryTypes'
  BY <1>1, <1>2 DEF RunTypes, HistoryTypes, bridgeHistory
<1>5. Polling' /\ Attached' /\ OfflineWhenGone' /\ CacheTrue'
  BY <1>1, <1>2 DEF Polling, Attached, OfflineWhenGone, CacheTrue, ipcVars, broker, bridgeHistory
<1>6. CommandsLead'
  BY <1>1, <1>2, <1>3, LeadStays DEF Excused, daemonState, bridgeHistory
<1>7. QED
  BY <1>3, <1>4, <1>5, <1>6 DEF BridgeIInv, BridgeTypes
-----------------------------------------------------------------------------
(* The two coroutines                                                      *)

\* A step that takes or gives up an answer, of whichever coroutine.
LEMMA ReadsHolds ==
  ASSUME BridgeIInv, IpcTypeOK', reading' \subseteq reading, UNCHANGED outbox,
         poll' \in {poll, "asleep", "publishing"}, poll = "asking",
         poll' = "publishing" \/ published' = published, published' \in Powers \cup {Nothing},
         Poller \in reading' => poll' = "asking",
         UNCHANGED <<at, stop, commands, broker, daemonState, bridgeHistory>>
  PROVE  BridgeIInv'
<1>2. /\ RunTypes /\ CommandTypes /\ BrokerTypes /\ DaemonTypes /\ HistoryTypes
      /\ IpcTypeOK /\ Polling /\ Attached /\ OfflineWhenGone /\ CacheTrue /\ CommandsLead
  BY DEF BridgeIInv, BridgeTypes
<1>3. /\ CommandTypes' /\ BrokerTypes' /\ DaemonTypes' /\ Sent' = Sent
      /\ RunTypes' /\ HistoryTypes'
  BY <1>2, CommandsStay, BrokerStays, DaemonStays DEF Sent, RunTypes, HistoryTypes, bridgeHistory
<1>4. Polling' /\ Attached' /\ OfflineWhenGone' /\ CacheTrue'
  BY <1>2 DEF Polling, Attached, OfflineWhenGone, CacheTrue, broker, bridgeHistory
<1>5. CommandsLead'
  BY <1>2, <1>3, LeadStays DEF Excused, daemonState, bridgeHistory
<1>6. QED
  BY <1>3, <1>4, <1>5 DEF BridgeIInv, BridgeTypes

LEMMA PollReadsHolds == ASSUME BridgeIInv, PollReads PROVE BridgeIInv'
<1> DEFINE says == Head(inbox) \in Powers \ {published}
<1>1. /\ poll = "asking" /\ Takes(Poller)
      /\ poll' = IF says THEN "publishing" ELSE StillPolling
      /\ published' = IF says THEN Head(inbox) ELSE published
      /\ UNCHANGED <<at, stop, commands, broker, daemonState, bridgeHistory>>
  BY DEF PollReads
<1>2. IpcTypeOK /\ published \in Powers \cup {Nothing}
  BY DEF BridgeIInv, BridgeTypes, RunTypes
<1>3. /\ IpcTypeOK' /\ reading' \subseteq reading /\ UNCHANGED outbox
      /\ Head(inbox) \in Answers
      /\ Head(inbox) # "old" => Poller \notin reading'
  BY <1>1, <1>2, PollerIs, TakesFacts
<1>4. says => Head(inbox) # "old"
  BY DEF Powers
<1>5. /\ poll' \in {poll, "asleep", "publishing"}
      /\ poll' = "publishing" \/ published' = published
      /\ published' \in Powers \cup {Nothing}
      /\ Poller \in reading' => poll' = "asking"
  BY <1>1, <1>2, <1>3, <1>4 DEF StillPolling
<1>6. QED
  BY <1>1, <1>3, <1>5, ReadsHolds

LEMMA PollFailsHolds == ASSUME BridgeIInv, PollFails PROVE BridgeIInv'
<1>1. /\ poll = "asking" /\ GivesUp(Poller) /\ poll' = "asleep"
      /\ UNCHANGED <<at, stop, published, commands, broker, daemonState, bridgeHistory>>
  BY DEF PollFails
<1>2. IpcTypeOK /\ published \in Powers \cup {Nothing}
  BY DEF BridgeIInv, BridgeTypes, RunTypes
<1>3. IpcTypeOK' /\ reading' \subseteq reading /\ UNCHANGED outbox /\ Poller \notin reading'
  BY <1>1, <1>2, GivesUpFacts
<1>4. QED
  BY <1>1, <1>2, <1>3, ReadsHolds

\* The other coroutine's, which may leave the poller without an answer.
LEMMA ServerReadsHolds ==
  ASSUME BridgeIInv, IpcTypeOK', reading' \subseteq reading, UNCHANGED outbox,
         poll' = StillPolling, at \in {"announcing", "serving"}, at' \in {"announcing", "serving"},
         usable' \in BOOLEAN,
         UNCHANGED <<stop, published, commands, mqtt, available, shown, daemonState, bridgeHistory>>
  PROVE  BridgeIInv'
<1>2. /\ RunTypes /\ CommandTypes /\ BrokerTypes /\ DaemonTypes /\ HistoryTypes
      /\ IpcTypeOK /\ Polling /\ Attached /\ OfflineWhenGone /\ CacheTrue /\ CommandsLead
  BY DEF BridgeIInv, BridgeTypes
<1>3. CommandTypes' /\ DaemonTypes' /\ RunTypes' /\ Sent' = Sent
  BY <1>2, CommandsStay, DaemonStays, RunStays DEF Sent
<1>4. BrokerTypes' /\ HistoryTypes'
  BY <1>2 DEF BrokerTypes, HistoryTypes, bridgeHistory
<1>5. /\ poll' \in {"none", "asleep", "asking", "publishing"} /\ poll' # "none"
      /\ poll' = "publishing" <=> poll = "publishing"
  BY <1>2 DEF StillPolling, Polling
<1>6. Polling'
  BY <1>2, <1>5 DEF StillPolling, Polling
<1>7. Attached' /\ OfflineWhenGone' /\ CacheTrue'
  BY <1>2, <1>5 DEF Attached, OfflineWhenGone, CacheTrue, bridgeHistory
<1>8. CommandsLead'
  BY <1>2, <1>3, LeadStays DEF Excused, daemonState, bridgeHistory
<1>9. QED
  BY <1>3, <1>4, <1>6, <1>7, <1>8 DEF BridgeIInv, BridgeTypes

LEMMA AnnouncesHolds == ASSUME BridgeIInv, Announces PROVE BridgeIInv'
<1>1. /\ at = "announcing" /\ Takes(Server) /\ at' \in {"announcing", "serving"}
      /\ usable' = (usable \/ (mqtt = "up" /\ at' = "serving")) /\ poll' = StillPolling
      /\ UNCHANGED <<stop, published, commands, mqtt, available, shown, daemonState, bridgeHistory>>
  BY DEF Announces
<1>2. IpcTypeOK
  BY DEF BridgeIInv, BridgeTypes
<1>3. IpcTypeOK' /\ reading' \subseteq reading /\ UNCHANGED outbox
  BY <1>1, <1>2, PollerIs, TakesFacts
<1>4. QED
  BY <1>1, <1>3, ServerReadsHolds

LEMMA CommandReturnsHolds == ASSUME BridgeIInv, CommandReturns PROVE BridgeIInv'
<1>1. /\ at = "serving" /\ (Takes(Server) \/ GivesUp(Server)) /\ poll' = StillPolling
      /\ UNCHANGED <<at, stop, published, commands, broker, daemonState, bridgeHistory>>
  BY DEF CommandReturns
<1>2. IpcTypeOK /\ usable \in BOOLEAN
  BY DEF BridgeIInv, BridgeTypes, BrokerTypes
<1>3. IpcTypeOK' /\ reading' \subseteq reading /\ UNCHANGED outbox
  BY <1>1, <1>2, PollerIs, TakesFacts, GivesUpFacts
<1>4. QED
  BY <1>1, <1>2, <1>3, ServerReadsHolds DEF broker

LEMMA CommandTaken ==
  ASSUME CommandTypes, commands # <<>>, commands' = Tail(commands)
  PROVE  CommandTypes' /\ Head(commands) \in Powers
<1>1. /\ commands' \in Seq(Powers) /\ Len(commands') = Len(commands) - 1 /\ Head(commands) \in Powers
      /\ Len(commands) \in Nat /\ Len(commands) <= MaxCommands
  BY DEF CommandTypes
<1>2. Len(commands') <= MaxCommands
  BY <1>1, BridgeAssumption
<1>3. QED
  BY <1>1, <1>2 DEF CommandTypes

\* A command that is sent is the last one, and no command of an earlier connection is
\* still to come.
LEMMA HandlesCommandHolds == ASSUME BridgeIInv, HandlesCommand PROVE BridgeIInv'
<1> DEFINE cmd == Head(commands)
<1>1. /\ at = "serving" /\ commands # <<>> /\ Writes(Server, cmd)
      /\ commands' = Tail(commands) /\ asked' = cmd
      /\ excuse' = (excuse \ {"crossed", "dropped"})
                    \cup (IF leftover # Nothing THEN {"crossed"} ELSE {})
      /\ UNCHANGED <<at, stop, published, poll, broker, daemonState>>
  BY DEF HandlesCommand
<1>2. /\ RunTypes /\ CommandTypes /\ BrokerTypes /\ DaemonTypes /\ HistoryTypes
      /\ IpcTypeOK /\ Polling /\ Attached /\ OfflineWhenGone /\ CacheTrue /\ CommandsLead
  BY DEF BridgeIInv, BridgeTypes
<1>3. CommandTypes' /\ cmd \in Powers /\ cmd \in Requests /\ cmd # "status"
  <2>1. CommandTypes' /\ cmd \in Powers
    BY <1>1, <1>2, CommandTaken
  <2>2. QED
    BY <2>1 DEF Powers, Requests
<1> HIDE DEF cmd
<1>4. IpcTypeOK' /\ Sent' = Append(Sent, cmd) /\ reading' \in {reading, reading \cup {Server}}
  BY <1>1, <1>2, <1>3, PollerIs, WritesFacts
<1>5. RunTypes' /\ BrokerTypes' /\ DaemonTypes'
  BY <1>1, <1>2, RunStays, BrokerStays, DaemonStays DEF RunTypes
<1>6. HistoryTypes'
  BY <1>1, <1>2, <1>3 DEF HistoryTypes, Reasons
<1>7. Polling'
  BY <1>1, <1>2, <1>4, PollerIs DEF Polling
<1>8. Attached' /\ OfflineWhenGone' /\ CacheTrue'
  BY <1>1, <1>2 DEF Attached, OfflineWhenGone, CacheTrue, broker
<1>9. CommandsLead'
  <2>1. Sent \in Seq(Requests)
    BY <1>2, SentFacts DEF IpcTypeOK
  <2>2. Orders(Sent') /\ LastOrder(Sent', asked')
    BY <1>1, <1>3, <1>4, <2>1, AppendOrders
  <2>3. ~Excused' => leftover' = Nothing
    BY <1>1 DEF Excused, daemonState
  <2>4. QED
    BY <2>2, <2>3 DEF CommandsLead
<1>10. QED
  BY <1>3, <1>4, <1>5, <1>6, <1>7, <1>8, <1>9 DEF BridgeIInv, BridgeTypes

LEMMA CommandFailsHolds == ASSUME BridgeIInv, CommandFails PROVE BridgeIInv'
<1>1. /\ commands # <<>> /\ commands' = Tail(commands)
      /\ UNCHANGED <<ipcVars, at, stop, published, poll, broker, daemonState, bridgeHistory>>
  BY DEF CommandFails
<1>2. /\ RunTypes /\ CommandTypes /\ BrokerTypes /\ DaemonTypes /\ HistoryTypes
      /\ IpcTypeOK /\ Polling /\ Attached /\ OfflineWhenGone /\ CacheTrue /\ CommandsLead
  BY DEF BridgeIInv, BridgeTypes
<1>3. /\ IpcTypeOK' /\ CommandTypes' /\ BrokerTypes' /\ DaemonTypes' /\ Sent' = Sent
      /\ RunTypes' /\ HistoryTypes'
  BY <1>1, <1>2, IpcStays, CommandTaken, BrokerStays, DaemonStays DEF RunTypes, HistoryTypes, bridgeHistory
<1>4. Polling' /\ Attached' /\ OfflineWhenGone' /\ CacheTrue'
  BY <1>1, <1>2 DEF Polling, Attached, OfflineWhenGone, CacheTrue, ipcVars, broker, bridgeHistory
<1>5. CommandsLead'
  BY <1>1, <1>2, <1>3, LeadStays DEF Excused, daemonState, bridgeHistory
<1>6. QED
  BY <1>3, <1>4, <1>5 DEF BridgeIInv, BridgeTypes

LEMMA PollAsksHolds == ASSUME BridgeIInv, PollAsks PROVE BridgeIInv'
<1>1. /\ poll = "asleep" /\ Writes(Poller, "status")
      /\ poll' = IF Poller \in reading' THEN "asking" ELSE "asleep"
      /\ UNCHANGED <<at, stop, published, commands, broker, daemonState, bridgeHistory>>
  BY DEF PollAsks
<1>2. /\ RunTypes /\ CommandTypes /\ BrokerTypes /\ DaemonTypes /\ HistoryTypes
      /\ IpcTypeOK /\ Polling /\ Attached /\ OfflineWhenGone /\ CacheTrue /\ CommandsLead
  BY DEF BridgeIInv, BridgeTypes
<1>3. IpcTypeOK' /\ Sent' = Append(Sent, "status")
  <2>1. "status" \in Requests
    BY DEF Requests
  <2>2. QED
    BY <1>1, <1>2, <2>1, PollerIs, WritesFacts
<1>4. /\ RunTypes' /\ BrokerTypes' /\ DaemonTypes' /\ CommandTypes'
      /\ HistoryTypes'
  BY <1>1, <1>2, BrokerStays, DaemonStays, CommandsStay DEF RunTypes, HistoryTypes, bridgeHistory
<1>5. Polling' /\ at \in {"announcing", "serving"}
  BY <1>1, <1>2 DEF Polling
<1>6. Attached' /\ OfflineWhenGone' /\ CacheTrue'
  BY <1>1, <1>2, <1>5 DEF Attached, OfflineWhenGone, CacheTrue, broker, bridgeHistory
<1>7. CommandsLead'
  <2>1. Sent \in Seq(Requests) /\ "status" \in Requests
    BY <1>2, SentFacts DEF IpcTypeOK, Requests
  <2>2. /\ Orders(Sent') <=> Orders(Sent)
        /\ \A order : LastOrder(Sent, order) => LastOrder(Sent', order)
    BY <1>3, <2>1, AppendOrders
  <2>3. QED
    BY <1>1, <1>2, <2>2 DEF CommandsLead, Excused, daemonState, bridgeHistory
<1>8. QED
  BY <1>3, <1>4, <1>5, <1>6, <1>7 DEF BridgeIInv, BridgeTypes

\* The topic shows the cache again, unless the publish is lost with the connection.
LEMMA PublishesHolds == ASSUME BridgeIInv, Publishes PROVE BridgeIInv'
<1>1. /\ poll = "publishing" /\ poll' = "asleep"
      /\ shown' = IF mqtt = "up" THEN published ELSE shown
      /\ excuse' = IF mqtt = "up" THEN excuse \ {"stale"} ELSE excuse \cup CutShort
      /\ UNCHANGED <<ipcVars, at, stop, published, commands, mqtt, available, usable, daemonState, asked>>
  BY DEF Publishes
<1>2. /\ RunTypes /\ CommandTypes /\ BrokerTypes /\ DaemonTypes /\ HistoryTypes
      /\ IpcTypeOK /\ Polling /\ Attached /\ OfflineWhenGone /\ CacheTrue /\ CommandsLead
  BY DEF BridgeIInv, BridgeTypes
<1>3. /\ IpcTypeOK' /\ CommandTypes' /\ DaemonTypes' /\ Sent' = Sent
      /\ RunTypes'
  BY <1>1, <1>2, IpcStays, CommandsStay, DaemonStays DEF RunTypes
<1>4. BrokerTypes'
  BY <1>1, <1>2 DEF BrokerTypes, RunTypes
<1>5. HistoryTypes'
  BY <1>1, <1>2, CutShortIs DEF HistoryTypes, Reasons
<1>6. Polling' /\ Attached' /\ OfflineWhenGone'
  BY <1>1, <1>2 DEF Polling, Attached, OfflineWhenGone, ipcVars
<1>7. CacheTrue'
  BY <1>1 DEF CacheTrue, CutShort
<1>8. CommandsLead'
  BY <1>1, <1>2, <1>3, LeadStays DEF Excused, daemonState
<1>9. QED
  BY <1>3, <1>4, <1>5, <1>6, <1>7, <1>8 DEF BridgeIInv, BridgeTypes
-----------------------------------------------------------------------------
(* The daemon, the broker, Home Assistant, systemd                         *)

\* The daemon handles the first request: if that is the last command, the TV is now as
\* it says, or it has failed.
LEMMA DaemonAnswersHolds == ASSUME BridgeIInv, DaemonAnswers PROVE BridgeIInv'
<1>1. PICK frame \in ToSet(outbox) :
        /\ tv' \in IF frame.cmd = "status" THEN {tv} ELSE {tv, frame.cmd}
        /\ excuse' = excuse \cup (IF frame.cmd \in {"status", tv'} THEN {} ELSE {"crossed"})
        /\ Answered(frame, tv')
  BY DEF DaemonAnswers
<1>2. /\ RunTypes /\ CommandTypes /\ BrokerTypes /\ DaemonTypes /\ HistoryTypes
      /\ IpcTypeOK /\ Polling /\ Attached /\ OfflineWhenGone /\ CacheTrue /\ CommandsLead
  BY DEF BridgeIInv, BridgeTypes
<1>3. UNCHANGED <<bridge, broker, alive, leftover, asked>>
  BY DEF DaemonAnswers
<1>4. outbox # <<>> /\ outbox \in Seq(Frames) /\ Sent \in Seq(Requests) /\ Sent # <<>>
  <2>1. outbox # <<>> /\ outbox \in Seq(Frames)
    BY <1>1, <1>2 DEF IpcTypeOK, ToSet
  <2>2. QED
    BY <2>1, SentFacts
<1>5. frame.cmd \in Requests /\ tv' \in Powers
  <2>1. frame = Head(outbox)
    BY <1>1 DEF Answered
  <2>2. frame.cmd \in Requests
    BY <1>4, <2>1, SentFacts, TailOrders
  <2>3. QED
    BY <1>1, <1>2, <2>2 DEF Requests, Powers, DaemonTypes
<1>6. IpcTypeOK' /\ Sent' = Tail(Sent) /\ reading' = reading /\ frame.cmd = Head(Sent)
  BY <1>1, <1>2, <1>4, <1>5, AnsweredFacts
<1>7. DaemonTypes'
  BY <1>2, <1>3, <1>5 DEF DaemonTypes
<1>8. RunTypes' /\ CommandTypes' /\ BrokerTypes'
  BY <1>2, <1>3, RunStays, CommandsStay, BrokerStays DEF bridge, RunTypes
<1>9. HistoryTypes'
  BY <1>1, <1>2, <1>3 DEF HistoryTypes, Reasons
<1>10. Polling'
  BY <1>2, <1>3, <1>6 DEF Polling, bridge
<1>11. Attached' /\ OfflineWhenGone' /\ CacheTrue'
  <2>1. at \in {"announcing", "serving"}
    BY <1>2, <1>4 DEF Attached, RunTypes
  <2>2. Attached' /\ OfflineWhenGone'
    BY <1>2, <1>3, <2>1 DEF Attached, OfflineWhenGone, bridge, broker
  <2>3. CacheTrue'
    BY <1>1, <1>2, <1>3 DEF CacheTrue, bridge, broker
  <2>4. QED
    BY <2>2, <2>3
<1>12. CommandsLead'
  <2> SUFFICES ASSUME ~Excused', asked # Nothing
               PROVE  IF Orders(Sent') THEN leftover = Nothing /\ LastOrder(Sent', asked)
                      ELSE IF leftover # Nothing THEN leftover = asked ELSE tv' = asked
    BY <1>3 DEF CommandsLead
  <2>1. ~Excused /\ frame.cmd \in {"status", tv'}
    BY <1>1 DEF Excused
  <2>2. /\ Orders(Sent) <=> Orders(Sent') \/ frame.cmd # "status"
        /\ \A order : LastOrder(Sent, order) =>
                        LastOrder(Sent', order) /\ (Orders(Sent') \/ frame.cmd \in {"status", order})
    BY <1>4, <1>6, TailOrders
  <2>3. IF Orders(Sent) THEN leftover = Nothing /\ LastOrder(Sent, asked)
        ELSE IF leftover # Nothing THEN leftover = asked ELSE tv = asked
    BY <1>2, <2>1 DEF CommandsLead
  <2>4. frame.cmd = "status" => tv' = tv
    BY <1>1
  <2>5. QED
    BY <2>1, <2>2, <2>3, <2>4
<1>13. QED
  BY <1>6, <1>7, <1>8, <1>9, <1>10, <1>11, <1>12 DEF BridgeIInv, BridgeTypes

LEMMA DaemonFinishesLeftoverHolds ==
  ASSUME BridgeIInv, DaemonFinishesLeftover PROVE BridgeIInv'
<1>1. /\ leftover # Nothing /\ leftover' = Nothing /\ tv' \in {tv, leftover}
      /\ excuse' = excuse \cup (IF tv' = leftover THEN {} ELSE {"crossed"})
      /\ UNCHANGED <<ipcVars, bridge, broker, alive, asked>>
  BY DEF DaemonFinishesLeftover
<1>2. /\ RunTypes /\ CommandTypes /\ BrokerTypes /\ DaemonTypes /\ HistoryTypes
      /\ IpcTypeOK /\ Polling /\ Attached /\ OfflineWhenGone /\ CacheTrue /\ CommandsLead
  BY DEF BridgeIInv, BridgeTypes
<1>3. DaemonTypes' /\ HistoryTypes'
  BY <1>1, <1>2 DEF DaemonTypes, HistoryTypes, Reasons
<1>4. /\ IpcTypeOK' /\ CommandTypes' /\ BrokerTypes' /\ Sent' = Sent /\ RunTypes'
  BY <1>1, <1>2, IpcStays, CommandsStay, BrokerStays DEF RunTypes, bridge
<1>5. Polling' /\ Attached' /\ OfflineWhenGone' /\ CacheTrue'
  BY <1>1, <1>2 DEF Polling, Attached, OfflineWhenGone, CacheTrue, ipcVars, bridge, broker
<1>6. CommandsLead'
  BY <1>1, <1>2, <1>4 DEF CommandsLead, Excused
<1>7. QED
  BY <1>3, <1>4, <1>5, <1>6 DEF BridgeIInv, BridgeTypes

LEMMA TvChangesHolds == ASSUME BridgeIInv, TvChanges PROVE BridgeIInv'
<1>1. /\ tv' \in Powers /\ excuse' = excuse \cup {"crossed"}
      /\ UNCHANGED <<ipcVars, bridge, broker, alive, leftover, asked>>
  BY DEF TvChanges
<1>2. /\ RunTypes /\ CommandTypes /\ BrokerTypes /\ DaemonTypes /\ HistoryTypes
      /\ IpcTypeOK /\ Polling /\ Attached /\ OfflineWhenGone /\ CacheTrue /\ CommandsLead
  BY DEF BridgeIInv, BridgeTypes
<1>3. /\ IpcTypeOK' /\ CommandTypes' /\ BrokerTypes'
      /\ RunTypes'
  BY <1>1, <1>2, IpcStays, CommandsStay, BrokerStays DEF RunTypes, bridge
<1>4. DaemonTypes' /\ HistoryTypes'
  BY <1>1, <1>2 DEF DaemonTypes, HistoryTypes, Reasons
<1>5. Polling' /\ Attached' /\ OfflineWhenGone' /\ CacheTrue' /\ CommandsLead'
  BY <1>1, <1>2 DEF Polling, Attached, OfflineWhenGone, CacheTrue, CommandsLead, Excused, ipcVars,
                    bridge, broker
<1>6. QED
  BY <1>3, <1>4, <1>5 DEF BridgeIInv, BridgeTypes

LEMMA DaemonEndsHolds == ASSUME BridgeIInv, DaemonEnds PROVE BridgeIInv'
<1>1. /\ alive' = FALSE /\ Reopens /\ poll' = IF poll = "asking" THEN "asleep" ELSE poll
      /\ leftover' = Nothing /\ tv' = "on" /\ excuse' = excuse \cup {"crossed"}
      /\ UNCHANGED <<at, stop, published, commands, broker, asked>>
  BY DEF DaemonEnds
<1>2. /\ RunTypes /\ CommandTypes /\ BrokerTypes /\ DaemonTypes /\ HistoryTypes
      /\ IpcTypeOK /\ Polling /\ Attached /\ OfflineWhenGone /\ CacheTrue /\ CommandsLead
  BY DEF BridgeIInv, BridgeTypes
<1>3. IpcTypeOK' /\ outbox' = <<>> /\ reading' = {}
  BY <1>1, <1>2, ReopensFacts
<1>4. RunTypes' /\ CommandTypes' /\ BrokerTypes'
  BY <1>1, <1>2, RunStays, CommandsStay, BrokerStays DEF RunTypes
<1>5. DaemonTypes'
  BY <1>1 DEF DaemonTypes, Powers
<1>6. HistoryTypes'
  BY <1>1, <1>2 DEF HistoryTypes, Reasons
<1>7. Polling' /\ Attached' /\ OfflineWhenGone' /\ CacheTrue' /\ CommandsLead'
  BY <1>1, <1>2, <1>3 DEF Polling, Attached, OfflineWhenGone, CacheTrue, CommandsLead, Excused, broker
<1>8. QED
  BY <1>3, <1>4, <1>5, <1>6, <1>7 DEF BridgeIInv, BridgeTypes

LEMMA CommandArrivesHolds == ASSUME BridgeIInv, CommandArrives PROVE BridgeIInv'
<1>1. /\ Len(commands) < MaxCommands
      /\ UNCHANGED <<ipcVars, at, stop, published, poll, broker, daemonState, bridgeHistory>>
  BY DEF CommandArrives
<1>2. /\ RunTypes /\ CommandTypes /\ BrokerTypes /\ DaemonTypes /\ HistoryTypes
      /\ IpcTypeOK /\ Polling /\ Attached /\ OfflineWhenGone /\ CacheTrue /\ CommandsLead
  BY DEF BridgeIInv, BridgeTypes
<1>3. CommandTypes'
  <2>1. PICK power \in Powers : commands' = Append(commands, power)
    BY DEF CommandArrives
  <2>2. commands' \in Seq(Powers) /\ Len(commands') = Len(commands) + 1 /\ Len(commands) \in Nat
    BY <1>2, <2>1 DEF CommandTypes
  <2>3. Len(commands') <= MaxCommands
    BY <1>1, <2>2, BridgeAssumption
  <2>4. QED
    BY <2>2, <2>3 DEF CommandTypes
<1>4. /\ IpcTypeOK' /\ BrokerTypes' /\ DaemonTypes' /\ Sent' = Sent
      /\ RunTypes' /\ HistoryTypes'
  BY <1>1, <1>2, IpcStays, BrokerStays, DaemonStays DEF RunTypes, HistoryTypes, bridgeHistory
<1>5. Polling' /\ Attached' /\ OfflineWhenGone' /\ CacheTrue'
  BY <1>1, <1>2 DEF Polling, Attached, OfflineWhenGone, CacheTrue, ipcVars, broker, bridgeHistory
<1>6. CommandsLead'
  BY <1>1, <1>2, <1>4, LeadStays DEF Excused, daemonState, bridgeHistory
<1>7. QED
  BY <1>3, <1>4, <1>5, <1>6 DEF BridgeIInv, BridgeTypes

\* What becomes of the connection to the broker, and the stop, change no topic but as
\* the invariant says.
LEMMA OutsideHolds ==
  ASSUME BridgeIInv, ConnectionLost \/ WillFires \/ BrokerForgets \/ Stop PROVE BridgeIInv'
<1>1. /\ stop' \in BOOLEAN /\ excuse' \in {excuse, excuse \cup {"stale"}}
      /\ UNCHANGED <<ipcVars, at, published, poll, commands, daemonState, asked>>
      /\ mqtt' \in {"none", "up", "lost"} /\ available' \in {available, "offline", Nothing}
      /\ usable' \in {usable, FALSE} /\ shown' \in {shown, Nothing}
      /\ at \in {"announcing", "serving"} => mqtt' # "none" \/ mqtt = "none"
      /\ mqtt' # mqtt /\ mqtt' = "none" => available' # "online"
      /\ shown' = shown \/ "stale" \in excuse'
  <2>1. BrokerTypes /\ RunTypes
    BY DEF BridgeIInv, BridgeTypes
  <2>2. CASE ConnectionLost
    BY <2>1, <2>2 DEF ConnectionLost, bridge, bridgeHistory, RunTypes
  <2>3. CASE WillFires
    BY <2>1, <2>3 DEF WillFires, bridge, bridgeHistory, RunTypes
  <2>4. CASE BrokerForgets
    BY <2>1, <2>4, PollerIs DEF BrokerForgets, bridge, RunTypes
  <2>5. CASE Stop
    BY <2>1, <2>5 DEF Stop, broker, bridgeHistory, BrokerTypes
  <2>6. QED
    BY <2>2, <2>3, <2>4, <2>5
<1>2. /\ RunTypes /\ CommandTypes /\ BrokerTypes /\ DaemonTypes /\ HistoryTypes
      /\ IpcTypeOK /\ Polling /\ Attached /\ OfflineWhenGone /\ CacheTrue /\ CommandsLead
  BY DEF BridgeIInv, BridgeTypes
<1>3. /\ IpcTypeOK' /\ CommandTypes' /\ DaemonTypes' /\ Sent' = Sent
  BY <1>1, <1>2, IpcStays, CommandsStay, DaemonStays
<1>4. RunTypes' /\ HistoryTypes'
  BY <1>1, <1>2 DEF RunTypes, HistoryTypes, Reasons
<1>5. BrokerTypes'
  BY <1>1, <1>2 DEF BrokerTypes
<1>6. Polling' /\ Attached'
  BY <1>1, <1>2 DEF Polling, Attached, ipcVars
<1>7. OfflineWhenGone'
  BY <1>1, <1>2, PollerIs DEF OfflineWhenGone
<1>8. CacheTrue'
  BY <1>1, <1>2 DEF CacheTrue
<1>9. CommandsLead'
  BY <1>1, <1>2, <1>3, LeadStays DEF Excused, daemonState
<1>10. QED
  BY <1>3, <1>4, <1>5, <1>6, <1>7, <1>8, <1>9 DEF BridgeIInv, BridgeTypes

LEMMA BridgeNextHolds == BridgeIInv /\ [BridgeNext]_bridgeVars => BridgeIInv'
<1> SUFFICES ASSUME BridgeIInv, [BridgeNext]_bridgeVars PROVE BridgeIInv'
  OBVIOUS
<1>1. CASE RunBegins \/ RunFailsToBegin \/ ServeEnds \/ BrokerDropped \/ AnnounceFails \/ Stopped
  BY <1>1, RunBeginsHolds, RunFailsToBeginHolds, ServeEndsHolds, BrokerDroppedHolds,
     AnnounceFailsHolds, StoppedHolds
<1>2. CASE Polls
  BY <1>2, PollAsksHolds, PollReadsHolds, PollFailsHolds, PublishesHolds DEF Polls
<1>3. CASE Serves
  BY <1>3, AnnouncesHolds, HandlesCommandHolds, CommandFailsHolds, CommandReturnsHolds DEF Serves
<1>4. CASE DaemonAnswers \/ DaemonFinishesLeftover \/ TvChanges \/ DaemonEnds \/ CommandArrives
  BY <1>4, DaemonAnswersHolds, DaemonFinishesLeftoverHolds, TvChangesHolds, DaemonEndsHolds,
     CommandArrivesHolds
<1>5. CASE ConnectionLost \/ WillFires \/ BrokerForgets \/ Stop
  BY <1>5, OutsideHolds
<1>6. CASE UNCHANGED bridgeVars
  <2>1. UNCHANGED <<ipcVars, bridge, broker, daemonState, bridgeHistory>>
    BY <1>6 DEF bridgeVars
  <2>2. /\ RunTypes /\ CommandTypes /\ BrokerTypes /\ DaemonTypes /\ HistoryTypes
        /\ IpcTypeOK /\ Polling /\ Attached /\ OfflineWhenGone /\ CacheTrue /\ CommandsLead
    BY DEF BridgeIInv, BridgeTypes
  <2>3. /\ IpcTypeOK' /\ CommandTypes' /\ BrokerTypes' /\ DaemonTypes' /\ Sent' = Sent
        /\ RunTypes' /\ HistoryTypes'
    BY <2>1, <2>2, IpcStays, CommandsStay, BrokerStays, DaemonStays
       DEF RunTypes, HistoryTypes, bridge, bridgeHistory
  <2>4. Polling' /\ Attached' /\ OfflineWhenGone' /\ CacheTrue'
    BY <2>1, <2>2 DEF Polling, Attached, OfflineWhenGone, CacheTrue, ipcVars, bridge, broker, bridgeHistory
  <2>5. CommandsLead'
    BY <2>1, <2>2, <2>3, LeadStays DEF Excused, daemonState, bridgeHistory
  <2>6. QED
    BY <2>3, <2>4, <2>5 DEF BridgeIInv, BridgeTypes
<1>7. QED
  BY <1>1, <1>2, <1>3, <1>4, <1>5, <1>6 DEF BridgeNext

LEMMA BridgeIInvHolds == BridgeSpec => []BridgeIInv
  BY BridgeInitHolds, BridgeNextHolds, PTL DEF BridgeSpec

\* The bridge has the types that BridgeInv says, and once it is gone and the broker
\* knows it, its availability topic does not say "online", unless it left the broker
\* in order after an error with the daemon.
THEOREM BridgeInvHolds == BridgeSpec => []BridgeInv
<1>1. BridgeIInv => BridgeInv
  BY BridgeTypesHold DEF BridgeIInv, BridgeInv
<1>2. QED
  BY <1>1, BridgeIInvHolds, PTL

\* Whatever connections come and go, the retained topic of a device's power shows what
\* the bridge believes it to show, but for a publish that failed or was cut short, and
\* for a broker that forgot it.
THEOREM CacheTrueHolds == BridgeSpec => []CacheTrue
<1>1. BridgeIInv => CacheTrue
  BY DEF BridgeIInv
<1>2. QED
  BY <1>1, BridgeIInvHolds, PTL

\* When the daemon has no command left to handle, of this connection or of an earlier one,
\* the TV is as the last command through the bridge wants it, unless that one failed, or
\* was dropped with its connection, or somebody else changed the TV, or the command met
\* one of an earlier connection.
THEOREM LastCommandWinsHolds == BridgeSpec => []LastCommandWins
<1>1. BridgeIInv => LastCommandWins
  BY DEF BridgeIInv, CommandsLead, Excused, LastCommandWins
<1>2. QED
  BY <1>1, BridgeIInvHolds, PTL
=============================================================================
