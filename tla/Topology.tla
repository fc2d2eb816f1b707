------------------------------ MODULE Topology ------------------------------
(***************************************************************************)
(* Display-topology mode: the watcher that polls the connected displays    *)
(* (daemon/topology.py), the daemon's handler that turns the TVs on and    *)
(* off after a change, and the restore of the saved topology at boot,      *)
(* which runs the same handler beside the watcher (daemon/main.py).        *)
(*                                                                         *)
(* A display is named by the TV mapped to its key.  A TV that drops        *)
(* hot-plug in standby closes a loop: turning it changes what is watched.  *)
(***************************************************************************)
EXTENDS Naturals, FiniteSets, Sequences, SequencesExt

CONSTANTS
  Managed,   \* the managed TVs with a display key, in the order of the configuration
  Sleepy,    \* those whose display is not connected while the TV is off
  MaxMoves   \* cables and TVs moved by people (bound)

Tvs == ToSet(Managed)

ASSUME TopologyAssumption ==
  /\ Managed \in Seq(Tvs) /\ IsInjective(Managed)
  /\ Sleepy \subseteq Tvs /\ MaxMoves \in Nat

VARIABLES
  keep,     \* topology.keep_on_boot
  daemon,   \* "down", "up" or "stopping"
  booted,   \* on_boot has begun
  last,     \* TopologyWatcher._last, a set of at most one set
  jobs,     \* the handlers at work, of the watcher and of the boot
  file,     \* topology.json, likewise; {} when it is missing or torn
  plugged,  \* TVs whose cable is plugged in
  on,       \* TVs that are on
  moves,    \* history: number of moves by people
  told,     \* history: who has told each TV last, "nobody" if that failed, was cut
            \* short, or somebody has turned the TV since
  saver,    \* history: whose keys the file has, "nobody" if not those of the last job
  applied   \* history: the topology in `last` has been applied, not only noted

topologyHistory == <<told, saver, applied>>
topologyVars == <<keep, daemon, booted, last, jobs, file, plugged, on, moves, topologyHistory>>

Handlers == {"watch", "boot"}

\* The keys to apply and the TVs still to be told.
Job == [keys : SUBSET Tvs, todo : {SubSeq(Managed, i, Len(Managed)) : i \in 1..Len(Managed) + 1}]

TopologyTypeOK ==
  /\ keep \in BOOLEAN /\ booted \in BOOLEAN
  /\ daemon \in {"down", "up", "stopping"}
  /\ \A memory \in {last, file} : memory \subseteq SUBSET Tvs /\ Cardinality(memory) <= 1
  /\ \A h \in Handlers : jobs[h] \subseteq Job /\ Cardinality(jobs[h]) <= 1
  /\ plugged \subseteq Tvs /\ on \subseteq Tvs
  /\ moves \in 0..MaxMoves /\ applied \in BOOLEAN
  /\ told \in [Tvs -> Handlers \cup {"nobody"}] /\ saver \in Handlers \cup {"nobody"}
  /\ jobs["watch"] # {} => daemon = "up" /\ last # {}
  /\ jobs["boot"] # {} => daemon # "down" /\ booted

TopologyInit ==
  /\ keep \in BOOLEAN
  /\ daemon = "down" /\ booted = FALSE /\ last = {} /\ file \in {{}, {Tvs}}
  /\ jobs = [h \in Handlers |-> {}]
  /\ plugged \in SUBSET Tvs /\ on \in SUBSET Tvs /\ moves = 0
  /\ told = [tv \in Tvs |-> "nobody"] /\ saver = "nobody" /\ applied = FALSE

\* What connected_displays finds.
Present == {tv \in plugged : tv \in on \/ tv \notin Sleepy}

Begun(h, keys) == [jobs EXCEPT ![h] = {[keys |-> keys, todo |-> Managed]}]

\* What the jobs of the handlers in `cut` have done so far is no longer theirs.
ToldWithout(cut) ==
  [tv \in Tvs |-> IF told[tv] \in {h \in cut : jobs[h] # {}} THEN "nobody" ELSE told[tv]]

-----------------------------------------------------------------------------
(* The daemon's life                                                       *)

Boots ==
  /\ daemon = "down" /\ daemon' = "up"
  /\ UNCHANGED <<keep, booted, last, jobs, file, plugged, on, moves, topologyHistory>>

RestoreTopology ==
  IF file = {} THEN jobs' = jobs ELSE \E keys \in file : jobs' = Begun("boot", keys)

\* Without keep_on_boot all TVs are turned on; with it, nothing is done when there is
\* no topology to restore.
OnBoot ==
  /\ daemon # "down" /\ ~booted /\ booted' = TRUE
  /\ IF keep THEN RestoreTopology ELSE jobs' = Begun("boot", Tvs)
  /\ UNCHANGED <<keep, daemon, last, file, plugged, on, moves, topologyHistory>>

\* The watcher is cancelled first, whatever it is at; the boot goes on for a while.
Stops ==
  /\ daemon = "up" /\ daemon' = "stopping"
  /\ jobs' = [jobs EXCEPT !["watch"] = {}] /\ last' = {}
  /\ told' = ToldWithout({"watch"}) /\ applied' = FALSE
  /\ UNCHANGED <<keep, booted, file, plugged, on, moves, saver>>

\* The daemon is gone, possibly in the midst of writing the file.
Dies ==
  /\ daemon # "down" /\ daemon' = "down" /\ booted' = FALSE
  /\ jobs' = [h \in Handlers |-> {}] /\ last' = {}
  /\ file' \in IF keep /\ \E h \in Handlers : \E job \in jobs[h] : job.todo = <<>>
               THEN {file, {}} ELSE {file}
  /\ told' = ToldWithout(Handlers) /\ applied' = FALSE
  /\ UNCHANGED <<keep, plugged, on, moves, saver>>

-----------------------------------------------------------------------------
(* TopologyWatcher._loop                                                   *)

\* The first poll is only noted: what it finds has not been applied.
FirstPoll ==
  /\ daemon = "up" /\ last = {} /\ last' = {Present}
  /\ UNCHANGED <<keep, daemon, booted, jobs, file, plugged, on, moves, topologyHistory>>

Poll ==
  /\ daemon = "up" /\ last # {} /\ jobs["watch"] = {}
  /\ Present \notin last /\ jobs' = Begun("watch", Present)
  /\ UNCHANGED <<keep, daemon, booted, last, file, plugged, on, moves, topologyHistory>>

-----------------------------------------------------------------------------
(* Daemon._on_topology_change                                              *)

\* Mutant of Wanted: the branches are swapped.
WantedSwapped(job, tv) == tv \notin job.keys

Wanted(job, tv) == tv \in job.keys

\* The next TV is told what the keys say, which may fail.
Tell(h) ==
  \E job \in jobs[h] :
    /\ job.todo # <<>>
    /\ jobs' = [jobs EXCEPT ![h] = {[job EXCEPT !.todo = Tail(job.todo)]}]
    /\ LET tv == Head(job.todo)
       IN \E ok \in BOOLEAN :
            /\ on' = IF ~ok THEN on ELSE IF Wanted(job, tv) THEN on \cup {tv} ELSE on \ {tv}
            /\ told' = [told EXCEPT ![tv] = IF ok THEN h ELSE "nobody"]
    /\ UNCHANGED <<keep, daemon, booted, last, file, plugged, moves, saver, applied>>

\* Mutant of Saves: the displays that are connected by now are saved.
SavesPresent(h, keys) ==
  \E saved \in BOOLEAN :
    /\ file' = IF keep /\ saved THEN {Present} ELSE file
    /\ saver' = IF keep /\ saved THEN h ELSE "nobody"

\* The keys are saved with keep_on_boot, which may fail.
Saves(h, keys) ==
  \E saved \in BOOLEAN :
    /\ file' = IF keep /\ saved THEN {keys} ELSE file
    /\ saver' = IF keep /\ saved THEN h ELSE "nobody"

\* Mutant of Finish: the watcher notes what is there by now.
FinishNotingPresent(h) ==
  \E job \in jobs[h] :
    /\ job.todo = <<>> /\ jobs' = [jobs EXCEPT ![h] = {}]
    /\ last' = IF h = "watch" THEN {Present} ELSE last
    /\ applied' = (applied \/ h = "watch")
    /\ Saves(h, job.keys)
    /\ UNCHANGED <<keep, daemon, booted, plugged, on, moves, told>>

\* The keys are saved and the watcher notes the keys it has applied.
Finish(h) ==
  \E job \in jobs[h] :
    /\ job.todo = <<>> /\ jobs' = [jobs EXCEPT ![h] = {}]
    /\ last' = IF h = "watch" THEN {job.keys} ELSE last
    /\ applied' = (applied \/ h = "watch")
    /\ Saves(h, job.keys)
    /\ UNCHANGED <<keep, daemon, booted, plugged, on, moves, told>>

-----------------------------------------------------------------------------
(* People                                                                  *)

Moves == moves < MaxMoves /\ moves' = moves + 1

Replugs(tv) ==
  /\ Moves
  /\ plugged' = IF tv \in plugged THEN plugged \ {tv} ELSE plugged \cup {tv}
  /\ UNCHANGED <<keep, daemon, booted, last, jobs, file, on, topologyHistory>>

Turns(tv) ==
  /\ Moves
  /\ on' = IF tv \in on THEN on \ {tv} ELSE on \cup {tv}
  /\ told' = [told EXCEPT ![tv] = "nobody"]
  /\ UNCHANGED <<keep, daemon, booted, last, jobs, file, plugged, saver, applied>>

-----------------------------------------------------------------------------
Handle(h) == Tell(h) \/ Finish(h)
Watch == FirstPoll \/ Poll
Life == Boots \/ Stops \/ Dies

TopologyNext ==
  \/ Life \/ OnBoot \/ Watch
  \/ \E h \in Handlers : Handle(h)
  \/ \E tv \in Tvs : Replugs(tv) \/ Turns(tv)

\* The daemon's tasks run; it need not be started or stopped, and nobody has to move.
TopologySpec ==
  /\ TopologyInit /\ [][TopologyNext]_topologyVars
  /\ WF_topologyVars(OnBoot) /\ WF_topologyVars(Watch)
  /\ \A h \in Handlers : WF_topologyVars(Handle(h))

-----------------------------------------------------------------------------
AtRest == \A h \in Handlers : jobs[h] = {}

\* When the watcher is not at work, has applied what it noted and has nothing new to
\* see, each TV is as the displays say, whatever was plugged or unplugged while an
\* earlier change was being handled; but for a TV that the boot has told after it,
\* that somebody has turned, or whose command has failed.
Follows ==
  jobs["watch"] = {} /\ applied /\ last = {Present}
    => \A tv \in Tvs : told[tv] = "watch" => (tv \in on <=> tv \in Present)

\* Types, and the TVs follow the displays.
TopologyInv == TopologyTypeOK /\ Follows

\* With keep_on_boot, what the next boot will restore is what the TVs were told last,
\* across crashes and restarts, with the same exceptions and but for a topology that
\* could not be saved.
AsSaved ==
  AtRest => \A tv \in Tvs, keys \in file : told[tv] = saver /\ saver # "nobody"
                                           => (tv \in on <=> tv \in keys)

\* main.py says of the restore that a display that is absent for a moment does not
\* turn everything off: the watcher turns off no TV that is plugged in and that the
\* boot is turning on.  But such a TV is absent until its turn comes, and when the first
\* one appears the watcher sees a change.
RestoreUndisturbed ==
  keep /\ moves = 0
    => \A watch \in jobs["watch"], boot \in jobs["boot"] :
         boot.keys \cap plugged \subseteq watch.keys

\* When nobody moves anything any more and the daemon stays, what the TVs do to the
\* displays and the displays to the TVs comes to rest.
Settles == <>[](moves = MaxMoves /\ daemon = "up") => <>[](AtRest /\ last = {Present})
=============================================================================
