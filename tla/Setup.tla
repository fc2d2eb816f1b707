------------------------------- MODULE Setup --------------------------------
(***************************************************************************)
(* The configuration file and those who share it without a lock: the       *)
(* setup commands (cli/setup_cmds.py), the tray's dialog (tray/settings.py)*)
(* and the daemon, which loads it at start and on reload; and the change-  *)
(* over between the units of the old stack and ours.                       *)
(*                                                                         *)
(* A configuration is told apart by what becomes of its fields: whether it *)
(* has a device and is valid; dry_run and daemon_power_events; a field     *)
(* that reload applies (hot), one that reload reports (cold: the host),    *)
(* and one that it neither applies nor reports (silent: topology.enabled,  *)
(* wake_on_input.enabled, unique_display_key).                             *)
(***************************************************************************)
EXTENDS Naturals, FiniteSets

CONSTANT MaxEdits  \* times somebody takes up the file to change it (bound)

ASSUME SetupAssumption == MaxEdits \in Nat

VARIABLES
  mode,    \* "system" or "user" installation
  file,    \* config.json: "missing", "torn" (empty, or not JSON) or "whole", and its contents
  doing,   \* what the dialog and the setup command are at
  task,    \* what the setup command is, which field the dialog is there for
  copy,    \* the configuration they have loaded and changed
  units,   \* whose units are enabled: "ours", "legacy"
  up,      \* the daemon runs
  eff,     \* the configuration it works by
  edits,   \* history: how often somebody took up the file
  wanted,  \* history: each field as it was set last
  synced,  \* history: the daemon has started, or said that a reload was enough, and
           \* nobody has written since
  live,    \* history: migrated, and neither rolled back nor imported since
  excuse   \* history: what may have gone wrong

people == <<doing, task, copy>>
service == <<units, up, eff>>
history == <<edits, wanted, synced, live, excuse>>
vars == <<mode, file, people, service, history>>

Fields == {"device", "sound", "dry", "events", "hot", "cold", "silent"}
Config == [Fields -> BOOLEAN]
Default == [f \in Fields |-> f = "sound"]
Files == [kind: {"missing", "torn", "whole"}, cfg: Config]
Whole(cfg) == [kind |-> "whole", cfg |-> cfg]
Torn == [kind |-> "torn", cfg |-> Default]

Writers == {"dialog", "setup"}

TypeOK ==
  /\ mode \in {"system", "user"} /\ file \in Files
  /\ doing \in [Writers -> {"nothing", "editing", "saving", "writing", "overlaying",
                            "applying", "disabling", "enabling", "restarting", "reviving"}]
  /\ task \in [Writers -> {"none", "hot", "cold", "silent", "events", "import", "migrate"}]
  /\ copy \in [Writers -> Config] /\ eff \in Config /\ wanted \in Config
  /\ units \subseteq {"ours", "legacy"}
  /\ \A flag \in {up, synced, live} : flag \in BOOLEAN
  /\ edits \in 0..MaxEdits
  /\ excuse \subseteq {"crashed", "overlaid", "refused", "stale", "failed"}

Init ==
  /\ mode \in {"system", "user"}
  /\ file \in {[kind |-> "missing", cfg |-> Default], Whole([Default EXCEPT !.device = TRUE])}
  /\ doing = [w \in Writers |-> "nothing"] /\ task = [w \in Writers |-> "none"]
  /\ copy = [w \in Writers |-> Default]
  /\ units \in IF mode = "system" THEN {{}, {"legacy"}} ELSE {{}}
  /\ up = FALSE /\ eff = Default
  /\ edits = 0 /\ wanted = file.cfg /\ synced = FALSE /\ live = FALSE /\ excuse = {}

\* load() refuses what is not JSON and what validate() finds wrong.
Loadable == file.kind = "whole" /\ file.cfg.sound

-----------------------------------------------------------------------------
(* Loading, changing and saving                                            *)

Loads(w, what, cfg, next) ==
  /\ doing[w] = "nothing" /\ edits < MaxEdits /\ edits' = edits + 1
  /\ doing' = [doing EXCEPT ![w] = next]
  /\ task' = [task EXCEPT ![w] = what] /\ copy' = [copy EXCEPT ![w] = cfg]
  /\ UNCHANGED <<mode, file, service, wanted, synced, live, excuse>>

\* offline-mode and steam-controller change one field that the daemon does not look at.
EditCommand ==
  Loadable /\ Loads("setup", "silent", [file.cfg EXCEPT !.silent = ~@], "saving")

\* map-display sets a device's display key, which is as silent.
MapDisplay == file.cfg.device /\ EditCommand

\* Mutant of InstallUser: it does not look for a configuration.
InstallUserFresh ==
  mode = "user" /\ Loads("setup", "events", [Default EXCEPT !.events = TRUE], "saving")

\* install --mode user seeds daemon_power_events.  (The system install writes units
\* only, and enables none of them.)
InstallUser ==
  /\ mode = "user" /\ (Loadable \/ file.kind = "missing")
  /\ Loads("setup", "events", [file.cfg EXCEPT !.events = TRUE], "saving")

\* What import_legacy makes of its input, whose address may be empty and whose HDMI
\* input may not exist.
LegacyConfigs ==
  {cfg \in Config : cfg.device /\ ~cfg.dry /\ ~cfg.events /\ ~cfg.silent}

\* What import_windows makes of its input: clamped values, but as many devices as there
\* are, perhaps none and perhaps without an address.
WindowsConfigs ==
  {cfg \in Config : ~cfg.dry /\ ~cfg.events /\ (~cfg.device => cfg.sound /\ ~cfg.cold)}

\* An import replaces the file, whatever it was; it does not validate what it writes.
ImportLegacy ==
  /\ mode = "system"
  /\ \E cfg \in LegacyConfigs : Loads("setup", "import", [cfg EXCEPT !.dry = TRUE], "saving")

ImportWindows ==
  \E cfg \in WindowsConfigs : Loads("setup", "import", cfg, "saving")

\* The dialog may also be opened before there is a configuration.
DialogOpens ==
  /\ mode = "user" /\ (Loadable \/ file.kind = "missing")
  /\ \E what \in {"hot"} \cup {f \in {"cold"} : file.cfg.device} :
       Loads("dialog", what, [file.cfg EXCEPT ![what] = ~@], "editing")

\* The user empties the host of a device, or fills it in.
DialogTypes ==
  /\ doing["dialog"] = "editing" /\ copy["dialog"].device
  /\ copy' = [copy EXCEPT !["dialog"].sound = ~@]
  /\ UNCHANGED <<mode, file, doing, task, service, history>>

\* Mutant of DialogSaves: no validation.
DialogSavesAnything ==
  /\ doing["dialog"] = "editing"
  /\ doing' = [doing EXCEPT !["dialog"] = "saving"]
  /\ UNCHANGED <<mode, file, task, copy, service, history>>

DialogSaves ==
  /\ doing["dialog"] = "editing" /\ copy["dialog"].sound
  /\ doing' = [doing EXCEPT !["dialog"] = "saving"]
  /\ UNCHANGED <<mode, file, task, copy, service, history>>

\* write_text first truncates the file, unless it may not.  Who is overlaying has opened
\* the file before the other one wrote it; now it is empty for both again.
Truncates(w) ==
  /\ doing[w] = "saving"
  /\ doing' = [v \in Writers |-> IF v = w \/ doing[v] = "overlaying" THEN "writing" ELSE doing[v]]
  /\ file' = Torn /\ synced' = FALSE
  /\ UNCHANGED <<mode, task, copy, service, edits, wanted, live, excuse>>

\* What one does after the file is written.
After(w) ==
  CASE w = "dialog" -> "applying"
    [] task[w] = "events" -> "enabling"
    [] task[w] = "migrate" -> "disabling"
    [] OTHER -> "nothing"

Set(w) == IF task[w] = "import" THEN Fields
          ELSE IF task[w] = "migrate" THEN {"dry"} ELSE {task[w]}

\* Who has the file open for writing.
AtIt == {"writing", "overlaying"}

\* The other one has read the file and will write what it has read.
Overtaken(w) == \E v \in Writers \ {w} : doing[v] \in {"editing", "saving"} \cup AtIt

\* Each writes its text from the start of the file.  Over the text of the other one, which
\* may be longer, that need not be JSON.
Results(w) == {Whole(copy[w])} \cup {text \in {Torn} : doing[w] = "overlaying"}

\* What a written text takes away from the excuses, and what it adds.
Mended(w) == {"crashed", "overlaid", "refused"} \cup (IF task[w] = "import" THEN {"stale"} ELSE {})
Refused(w) == IF task[w] = "import" /\ ~copy[w].sound THEN {"refused"} ELSE {}

Writes(w) ==
  \E text \in Results(w) :
    /\ doing[w] \in AtIt /\ file' = text
    /\ doing' = [v \in Writers |-> IF v = w THEN After(w)
                                   ELSE IF doing[v] = "writing" THEN "overlaying" ELSE doing[v]]
    /\ wanted' = [f \in Fields |-> IF f \in Set(w) THEN copy[w][f] ELSE wanted[f]]
    /\ live' = (live /\ task[w] # "import") /\ synced' = FALSE
    /\ excuse' = (IF text = Torn THEN excuse \cup {"overlaid"}
                  ELSE (excuse \ Mended(w)) \cup Refused(w))
                 \cup (IF Overtaken(w) THEN {"stale"} ELSE {})
    /\ UNCHANGED <<mode, task, copy, service, edits>>

\* The command or the tray ends in the midst of it; what it has truncated stays empty.
WriterDies(w) ==
  /\ doing[w] # "nothing" /\ doing' = [doing EXCEPT ![w] = "nothing"]
  /\ excuse' = IF doing[w] = "writing" THEN excuse \cup {"crashed"} ELSE excuse
  /\ UNCHANGED <<mode, file, task, copy, service, edits, wanted, synced, live>>

-----------------------------------------------------------------------------
(* Units                                                                   *)

Goes(w, next) == doing' = [doing EXCEPT ![w] = next]

\* A systemctl fails and nobody minds.
Ignored == excuse' = excuse \cup {"failed"} /\ UNCHANGED <<units, up>>

\* install --mode user enables the units at the end.
InstallEnables ==
  /\ doing["setup"] = "enabling" /\ task["setup"] = "events" /\ Goes("setup", "nothing")
  /\ units' = units \cup {"ours"}
  /\ UNCHANGED <<mode, file, task, copy, up, eff, history>>

\* The documented `systemctl enable --now` after a system install.
AdminEnables ==
  /\ mode = "system" /\ doing["setup"] = "nothing" /\ units = {} /\ units' = {"ours"}
  /\ UNCHANGED <<mode, file, people, up, eff, history>>

\* migrate-legacy turns dry_run off first, unless it is told to keep it.
Migrate ==
  /\ mode = "system" /\ Loadable
  /\ \/ file.cfg.dry /\ Loads("setup", "migrate", [file.cfg EXCEPT !.dry = FALSE], "saving")
     \/ Loads("setup", "migrate", file.cfg, "disabling")

MigrateDisables ==
  /\ doing["setup"] = "disabling" /\ task["setup"] = "migrate" /\ Goes("setup", "enabling")
  /\ \/ units' = units \ {"legacy"} /\ UNCHANGED <<up, excuse>>
     \/ Ignored
  /\ UNCHANGED <<mode, file, task, copy, eff, edits, wanted, synced, live>>

\* A failure ends the command.
MigrateEnables ==
  /\ doing["setup"] = "enabling" /\ task["setup"] = "migrate"
  /\ \/ Goes("setup", "restarting") /\ units' = units \cup {"ours"}
     \/ Goes("setup", "nothing") /\ units' = units
  /\ UNCHANGED <<mode, file, task, copy, up, eff, history>>

\* Mutant of MigrateRestarts: `enable --now`, which leaves a running daemon alone.
MigrateStarts ==
  /\ doing["setup"] = "restarting" /\ Goes("setup", "nothing")
  /\ up' = Loadable /\ eff' = IF Loadable /\ ~up THEN file.cfg ELSE eff
  /\ synced' = Loadable /\ live' = ~file.cfg.dry
  /\ UNCHANGED <<mode, file, task, copy, units, edits, wanted, excuse>>

MigrateRestarts ==
  /\ doing["setup"] = "restarting" /\ Goes("setup", "nothing")
  /\ up' = Loadable /\ eff' = IF Loadable THEN file.cfg ELSE eff
  /\ synced' = Loadable /\ live' = ~file.cfg.dry
  /\ UNCHANGED <<mode, file, task, copy, units, edits, wanted, excuse>>

RollbackDisables ==
  /\ mode = "system" /\ doing["setup"] = "nothing" /\ Goes("setup", "reviving")
  /\ \/ units' = units \ {"ours"} /\ up' = FALSE /\ excuse' = excuse
     \/ Ignored
  /\ live' = FALSE
  /\ UNCHANGED <<mode, file, task, copy, eff, edits, wanted, synced>>

RollbackEnables ==
  /\ doing["setup"] = "reviving" /\ Goes("setup", "nothing")
  /\ units' \in {units, units \cup {"legacy"}}
  /\ UNCHANGED <<mode, file, task, copy, up, eff, history>>

-----------------------------------------------------------------------------
(* The daemon                                                              *)

\* systemd starts it again until it can load the file.
DaemonStarts ==
  /\ "ours" \in units /\ ~up /\ Loadable
  /\ up' = TRUE /\ eff' = file.cfg /\ synced' = TRUE
  /\ UNCHANGED <<mode, file, people, units, edits, wanted, live, excuse>>

DaemonEnds ==
  /\ up /\ up' = FALSE
  /\ UNCHANGED <<mode, file, people, units, eff, history>>

\* Mutant of RestartNeeded: hosts are not compared.
DevicesDiffer == file.cfg.device # eff.device

\* Devices added or removed, or a host that has changed: not applied but reported,
\* at this reload and at the next ones.
RestartNeeded == \E f \in {"device", "cold"} : file.cfg[f] # eff[f]

Reloaded ==
  IF up /\ Loadable
  THEN eff' = [eff EXCEPT !.hot = file.cfg.hot] /\ synced' = (synced \/ ~RestartNeeded)
  ELSE UNCHANGED <<eff, synced>>

\* `lgtvc reload`.
Reload ==
  /\ up /\ Reloaded
  /\ UNCHANGED <<mode, file, people, units, up, edits, wanted, live, excuse>>

\* The dialog asks for a reload, if the daemon can be reached.  When it offers a restart
\* it restarts the system's daemon: in user mode that is not the one that runs.
DialogApplies ==
  /\ doing["dialog"] = "applying" /\ Goes("dialog", "nothing") /\ Reloaded
  /\ UNCHANGED <<mode, file, task, copy, units, up, edits, wanted, live, excuse>>

-----------------------------------------------------------------------------
Next ==
  \/ MapDisplay \/ EditCommand \/ InstallUser \/ ImportLegacy \/ ImportWindows
  \/ DialogOpens \/ DialogTypes \/ DialogSaves \/ DialogApplies
  \/ \E w \in Writers : Truncates(w) \/ Writes(w) \/ WriterDies(w)
  \/ InstallEnables \/ AdminEnables
  \/ Migrate \/ MigrateDisables \/ MigrateEnables \/ MigrateRestarts
  \/ RollbackDisables \/ RollbackEnables
  \/ DaemonStarts \/ DaemonEnds \/ Reload

Spec == Init /\ [][Next]_vars

-----------------------------------------------------------------------------
AtRest == \A w \in Writers : doing[w] \notin AtIt

\* Whenever nobody is in the midst of writing, the file can be loaded, or is not there
\* yet: unless a writer has died in the midst, or has written over the text of another
\* one that had it open too, or an import has written what validate refuses (the import
\* does not ask it), and nobody has written a whole and sound text since.
StaysLoadable ==
  AtRest /\ excuse \cap {"crashed", "overlaid", "refused"} = {} =>
    Loadable \/ file.kind = "missing"

\* What one of them has set stays set until somebody sets it again, unless one has
\* saved while another had the file loaded.
EditsKept ==
  AtRest /\ file.kind = "whole" /\ "stale" \notin excuse
    => \A f \in Fields \ {"sound"} : file.cfg[f] = wanted[f]

\* When a reload says that no restart is needed, and until the file is written again,
\* the daemon works by the file as if it had been restarted, but for the fields that
\* reload passes over in silence.
ReloadTruthful ==
  synced /\ up => \A f \in {"device", "hot", "cold"} : eff[f] = file.cfg[f]

\* The old units and ours are never both enabled, unless a systemctl has failed; and
\* after a migration that turned dry_run off the daemon works in earnest.
CutOver ==
  /\ {"ours", "legacy"} \subseteq units => "failed" \in excuse
  /\ live /\ up => ~eff.dry

\* Types, and: what the setup commands do to the units, at whatever step they end, does
\* not leave both stacks enabled, nor a migrated daemon in dry_run.
Inv == TypeOK /\ CutOver
=============================================================================
