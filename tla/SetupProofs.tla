----------------------------- MODULE SetupProofs -----------------------------
(***************************************************************************)
(* Proofs about Setup, however often the file is taken up.                 *)
(***************************************************************************)
EXTENDS Setup, TLAPS

-----------------------------------------------------------------------------
(* The inductive invariant                                                 *)

\* w has read the file and is going to write it.
Pending(w) == doing[w] \in {"editing", "saving", "writing", "overlaying"}

\* Who does what, and in which installation.
Tasks ==
  /\ doing["dialog"] \in {"nothing", "editing", "saving", "writing", "overlaying", "applying"}
  /\ doing["dialog"] # "nothing" => mode = "user" /\ task["dialog"] \in {"hot", "cold"}
  /\ doing["setup"] \notin {"editing", "applying"}
  /\ doing["setup"] \in {"saving", "writing", "overlaying"} =>
       task["setup"] \in {"silent", "events", "import", "migrate"}
  /\ doing["setup"] \in {"disabling", "restarting", "reviving"} => mode = "system"
  /\ doing["setup"] # "nothing" /\ task["setup"] = "events" /\ doing["setup"] # "reviving" =>
       mode = "user"
  /\ doing["setup"] # "nothing" /\ task["setup"] = "migrate" => mode = "system"

\* What is not a whole text has a writer at work, or one that has died, or one that has
\* written over another one's; who is going to do that is alone at it, and the text whole.
Emptied ==
  /\ file.kind = "torn" =>
       (\E w \in Writers : doing[w] = "writing") \/ excuse \cap {"crashed", "overlaid"} # {}
  /\ \A w \in Writers : doing[w] = "overlaying" =>
       file.kind = "whole" /\ \A v \in Writers \ {w} : doing[v] \notin AtIt
  /\ file.kind # "whole" => file.cfg = Default

\* What is written is sound, but for what was imported.
Sound ==
  /\ ~file.cfg.sound => "refused" \in excuse
  /\ \A w \in Writers :
       doing[w] \in {"saving", "writing", "overlaying"} /\ task[w] # "import" => copy[w].sound

\* Who is going to write differs from what was last set in its own fields only.
Faithful ==
  "stale" \notin excuse =>
    /\ file.kind # "torn" => \A f \in Fields \ {"sound"} : file.cfg[f] = wanted[f]
    /\ \A w \in Writers, f \in Fields \ {"sound"} :
         Pending(w) /\ f \notin Set(w) => copy[w][f] = wanted[f]

\* Each stack is enabled only where the other one has been disabled.
Stacks ==
  "failed" \notin excuse =>
    /\ ~({"ours", "legacy"} \subseteq units)
    /\ doing["setup"] = "enabling" /\ task["setup"] = "migrate" => "legacy" \notin units
    /\ doing["setup"] = "reviving" => "ours" \notin units

\* After a migration nothing is left that would make the daemon dry again.
Earnest ==
  /\ mode = "user" => ~live /\ "legacy" \notin units
  /\ live => ~file.cfg.dry /\ (up => ~eff.dry)
  /\ live /\ doing["setup"] \in {"saving", "writing", "overlaying"} /\ task["setup"] # "import" =>
       ~copy["setup"].dry

IInv ==
  /\ TypeOK /\ Tasks /\ Emptied /\ Sound /\ Faithful /\ Stacks /\ Earnest
  /\ ReloadTruthful
-----------------------------------------------------------------------------
(* Taking up the file                                                      *)

\* The fields that somebody sets who is there for that.
SetBy(what) == IF what = "import" THEN Fields ELSE IF what = "migrate" THEN {"dry"} ELSE {what}

LEMMA SetOfTask == \A w \in Writers : Set(w) = SetBy(task[w])
BY DEF Set, SetBy

LEMMA DefaultFacts == Default \in Config /\ Default.sound /\ ~Default.dry
BY DEF Default, Config, Fields

\* Whom Loads lets take up the file, for what, and with which copy.
Proper(w, what, cfg, next) ==
  /\ cfg \in Config
  /\ \/ w = "dialog" /\ mode = "user" /\ what \in {"hot", "cold"} /\ next = "editing"
     \/ /\ w = "setup" /\ next = "saving" /\ (what # "import" => cfg.sound)
        /\ \/ what \in {"silent", "import"}
           \/ what = "events" /\ mode = "user"
           \/ what = "migrate" /\ mode = "system"
     \/ w = "setup" /\ next = "disabling" /\ what = "migrate" /\ mode = "system"
  /\ what # "import" =>
       /\ file.kind # "torn"
       /\ \A f \in Fields \ {"sound"} : f \notin SetBy(what) => cfg[f] = file.cfg[f]
       /\ cfg.dry => file.cfg.dry

LEMMA LoadsKeeps ==
  ASSUME IInv, NEW w \in Writers, NEW what, NEW cfg, NEW next,
         Proper(w, what, cfg, next), Loads(w, what, cfg, next)
  PROVE  IInv'
<1>1. /\ doing[w] = "nothing" /\ edits < MaxEdits /\ edits' = edits + 1
      /\ doing' = [doing EXCEPT ![w] = next]
      /\ task' = [task EXCEPT ![w] = what] /\ copy' = [copy EXCEPT ![w] = cfg]
      /\ UNCHANGED <<mode, file, units, up, eff, wanted, synced, live, excuse>>
  BY DEF Loads, service
<1>2. /\ doing \in [Writers -> {"nothing", "editing", "saving", "writing", "overlaying",
                  "applying", "disabling", "enabling", "restarting", "reviving"}]
      /\ task \in [Writers -> {"none", "hot", "cold", "silent", "events", "import", "migrate"}]
      /\ copy \in [Writers -> Config]
  BY DEF IInv, TypeOK
<1>3. /\ next \in {"editing", "saving", "disabling"} /\ cfg \in Config
      /\ what \in {"hot", "cold", "silent", "events", "import", "migrate"}
  BY DEF Proper
<1>4. /\ doing'[w] = next /\ task'[w] = what /\ copy'[w] = cfg
      /\ \A v \in Writers \ {w} : doing'[v] = doing[v] /\ task'[v] = task[v] /\ copy'[v] = copy[v]
  BY <1>1, <1>2
<1>5. TypeOK'
  <2>1. edits' \in 0 .. MaxEdits
    <3>1. edits \in 0 .. MaxEdits /\ MaxEdits \in Nat
      BY SetupAssumption DEF IInv, TypeOK
    <3>2. QED
      BY <1>1, <3>1
  <2>2. /\ doing' \in [Writers -> {"nothing", "editing", "saving", "writing", "overlaying",
                  "applying", "disabling", "enabling", "restarting", "reviving"}]
        /\ task' \in [Writers -> {"none", "hot", "cold", "silent", "events", "import", "migrate"}]
        /\ copy' \in [Writers -> Config]
    BY <1>1, <1>2, <1>3
  <2>3. QED
    BY <1>1, <2>1, <2>2 DEF IInv, TypeOK
<1>6. Tasks'
  BY <1>1, <1>3, <1>4 DEF IInv, Tasks, Proper, Writers
<1>7. Emptied'
  BY <1>1, <1>3, <1>4 DEF IInv, Emptied, AtIt
<1>8. Sound'
  BY <1>1, <1>3, <1>4 DEF IInv, Sound, Proper
<1>9. Faithful'
  <2>1. SUFFICES ASSUME "stale" \notin excuse
                 PROVE  \A v \in Writers, f \in Fields \ {"sound"} :
                          Pending(v)' /\ f \notin Set(v)' => copy'[v][f] = wanted[f]
    BY <1>1 DEF IInv, Faithful
  <2>2. \A v \in Writers : Set(v)' = SetBy(task'[v])
    BY DEF Set, SetBy
  <2>3. ASSUME NEW v \in Writers, NEW f \in Fields \ {"sound"}, Pending(v)', f \notin SetBy(task'[v])
        PROVE  copy'[v][f] = wanted[f]
    <3>1. CASE v = w
      BY <1>1, <1>4, <2>1, <2>3, <3>1 DEF IInv, Faithful, Proper, SetBy
    <3>2. CASE v # w
      BY <1>1, <1>4, <2>1, <2>3, <3>2, SetOfTask DEF IInv, Faithful, Pending
    <3>3. QED
      BY <3>1, <3>2
  <2>4. QED
    BY <2>2, <2>3
<1>10. Stacks'
  BY <1>1, <1>3, <1>4 DEF IInv, Stacks, Writers
<1>11. Earnest'
  BY <1>1, <1>3, <1>4 DEF IInv, Earnest, Proper, Writers
<1>12. ReloadTruthful'
  BY <1>1 DEF IInv, ReloadTruthful
<1>13. QED
  BY <1>5, <1>6, <1>7, <1>8, <1>9, <1>10, <1>11, <1>12 DEF IInv

LEMMA FileTypes ==
  ASSUME IInv
  PROVE  /\ file.cfg \in Config /\ file.kind \in {"missing", "torn", "whole"}
         /\ file = [kind |-> file.kind, cfg |-> file.cfg]
BY DEF IInv, TypeOK, Files

LEMMA TakersKeep ==
  ASSUME IInv, \/ MapDisplay \/ EditCommand \/ InstallUser \/ ImportLegacy \/ ImportWindows
               \/ DialogOpens \/ Migrate
  PROVE  IInv'
<1> DEFINE with(f, b) == [file.cfg EXCEPT ![f] = b]
<1>1. \A f \in {"silent", "events", "hot", "cold", "dry"}, b \in BOOLEAN :
        /\ with(f, b) \in Config /\ with(f, b).sound <=> file.cfg.sound
        /\ f # "dry" => (with(f, b).dry <=> file.cfg.dry)
        /\ \A g \in Fields \ {"sound"} : g \notin {f} => with(f, b)[g] = file.cfg[g]
        /\ ~with("dry", FALSE).dry
  BY FileTypes DEF Config, Fields
<1>2. /\ {"silent", "events", "hot", "cold", "dry", "sound"} \subseteq Fields
      /\ "setup" \in Writers /\ "dialog" \in Writers
  BY DEF Fields, Writers
<1>3. Loadable => file.kind # "torn" /\ file.cfg.sound
  BY DEF Loadable
<1>4. file.kind = "missing" => file.kind # "torn" /\ file.cfg.sound
  BY DefaultFacts DEF IInv, Emptied
<1>5. CASE MapDisplay \/ EditCommand
  <2>1. Loadable /\ Loads("setup", "silent", [file.cfg EXCEPT !.silent = ~@], "saving")
    BY <1>5 DEF MapDisplay, EditCommand
  <2>2. [file.cfg EXCEPT !.silent = ~@] = with("silent", ~file.cfg.silent)
    OBVIOUS
  <2> HIDE DEF with
  <2>3. Proper("setup", "silent", with("silent", ~file.cfg.silent), "saving")
    BY <1>1, <1>2, <1>3, <2>1 DEF Proper, SetBy
  <2>4. QED
    BY <1>2, <2>1, <2>2, <2>3, LoadsKeeps
<1>6. CASE InstallUser
  <2>1. /\ mode = "user" /\ (Loadable \/ file.kind = "missing")
        /\ Loads("setup", "events", with("events", TRUE), "saving")
    BY <1>6 DEF InstallUser
  <2> HIDE DEF with
  <2>2. Proper("setup", "events", with("events", TRUE), "saving")
    BY <1>1, <1>2, <1>3, <1>4, <2>1 DEF Proper, SetBy
  <2>3. QED
    BY <1>2, <2>1, <2>2, LoadsKeeps
<1>7. CASE ImportLegacy
  <2>1. PICK cfg \in LegacyConfigs : Loads("setup", "import", [cfg EXCEPT !.dry = TRUE], "saving")
    BY <1>7 DEF ImportLegacy
  <2>2. Proper("setup", "import", [cfg EXCEPT !.dry = TRUE], "saving")
    BY DEF Proper, LegacyConfigs, Config, Fields
  <2>3. QED
    BY <1>2, <2>1, <2>2, LoadsKeeps
<1>8. CASE ImportWindows
  <2>1. PICK cfg \in WindowsConfigs : Loads("setup", "import", cfg, "saving")
    BY <1>8 DEF ImportWindows
  <2>2. Proper("setup", "import", cfg, "saving")
    BY DEF Proper, WindowsConfigs
  <2>3. QED
    BY <1>2, <2>1, <2>2, LoadsKeeps
<1>9. CASE DialogOpens
  <2>1. PICK what \in {"hot", "cold"} :
          Loads("dialog", what, [file.cfg EXCEPT ![what] = ~@], "editing")
    BY <1>9 DEF DialogOpens
  <2>2. PICK bit \in BOOLEAN : [file.cfg EXCEPT ![what] = ~@] = with(what, bit)
    OBVIOUS
  <2>3. mode = "user" /\ file.kind # "torn"
    BY <1>3, <1>4, <1>9 DEF DialogOpens
  <2>4. /\ with(what, bit) \in Config /\ (with(what, bit).dry <=> file.cfg.dry)
        /\ \A g \in Fields \ {"sound"} : g \notin {what} => with(what, bit)[g] = file.cfg[g]
    BY FileTypes DEF Config, Fields
  <2> HIDE DEF with
  <2>5. Proper("dialog", what, with(what, bit), "editing")
    BY <2>3, <2>4 DEF Proper, SetBy
  <2>6. QED
    BY <1>2, <2>1, <2>2, <2>5, LoadsKeeps
<1>10. CASE Migrate
  <2>1. CASE Loads("setup", "migrate", with("dry", FALSE), "saving") /\ mode = "system" /\ Loadable
    <3> HIDE DEF with
    <3>1. Proper("setup", "migrate", with("dry", FALSE), "saving")
      BY <1>1, <1>2, <1>3, <2>1 DEF Proper, SetBy
    <3>2. QED
      BY <1>2, <2>1, <3>1, LoadsKeeps
  <2>2. CASE Loads("setup", "migrate", file.cfg, "disabling") /\ mode = "system" /\ Loadable
    <3>1. Proper("setup", "migrate", file.cfg, "disabling")
      BY <1>3, <2>2, FileTypes DEF Proper, SetBy
    <3>2. QED
      BY <1>2, <2>2, <3>1, LoadsKeeps
  <2>3. QED
    BY <1>10, <2>1, <2>2 DEF Migrate
<1>11. QED
  BY <1>5, <1>6, <1>7, <1>8, <1>9, <1>10
-----------------------------------------------------------------------------
(* Changing and saving                                                     *)

Doings == {"nothing", "editing", "saving", "writing", "overlaying", "applying", "disabling",
            "enabling", "restarting", "reviving"}

LEMMA Goes1 ==
  ASSUME IInv, NEW w \in Writers, NEW next \in Doings, doing' = [doing EXCEPT ![w] = next]
  PROVE  /\ doing' \in [Writers -> Doings] /\ doing'[w] = next
         /\ \A v \in Writers \ {w} : doing'[v] = doing[v]
BY DEF IInv, TypeOK, Doings

LEMMA DialogTypesKeeps ==
  ASSUME IInv, DialogTypes
  PROVE  IInv'
<1>1. /\ doing["dialog"] = "editing"
      /\ copy' = [copy EXCEPT !["dialog"].sound = ~@]
      /\ UNCHANGED <<mode, file, doing, task, units, up, eff, edits, wanted, synced, live, excuse>>
  BY DEF DialogTypes, service, history
<1>2. "dialog" \in Writers /\ copy \in [Writers -> Config]
  BY DEF Writers, IInv, TypeOK
<1>3. /\ copy' \in [Writers -> Config] /\ copy'["setup"] = copy["setup"]
      /\ \A w \in Writers, f \in Fields \ {"sound"} : copy'[w][f] = copy[w][f]
  BY <1>1, <1>2 DEF Config, Writers
<1>4. TypeOK' /\ Tasks' /\ Emptied' /\ Stacks' /\ ReloadTruthful'
  BY <1>1, <1>3 DEF IInv, TypeOK, Tasks, Emptied, AtIt, Stacks, ReloadTruthful
<1>5. Sound'
  BY <1>1, <1>3 DEF IInv, Sound, Writers
<1>6. Faithful'
  BY <1>1, <1>3 DEF IInv, Faithful, Pending, Set
<1>7. Earnest'
  BY <1>1, <1>3 DEF IInv, Earnest
<1>8. QED
  BY <1>4, <1>5, <1>6, <1>7 DEF IInv

LEMMA DialogSavesKeeps ==
  ASSUME IInv, DialogSaves
  PROVE  IInv'
<1>1. /\ doing["dialog"] = "editing" /\ copy["dialog"].sound
      /\ doing' = [doing EXCEPT !["dialog"] = "saving"]
      /\ UNCHANGED <<mode, file, task, copy, units, up, eff, edits, wanted, synced, live, excuse>>
  BY DEF DialogSaves, service, history
<1>2. /\ doing' \in [Writers -> Doings] /\ doing'["dialog"] = "saving"
      /\ doing'["setup"] = doing["setup"]
  BY <1>1, Goes1 DEF Doings, Writers
<1>3. TypeOK' /\ Tasks' /\ Stacks' /\ ReloadTruthful'
  BY <1>1, <1>2 DEF IInv, TypeOK, Doings, Tasks, Stacks, ReloadTruthful
<1>4. Emptied' /\ Sound'
  BY <1>1, <1>2 DEF IInv, Emptied, AtIt, Sound, Writers
<1>5. Faithful'
  BY <1>1, <1>2 DEF IInv, Faithful, Pending, Set, Writers
<1>6. Earnest'
  BY <1>1, <1>2 DEF IInv, Earnest
<1>7. QED
  BY <1>3, <1>4, <1>5, <1>6 DEF IInv

LEMMA TornFacts == Torn \in Files /\ Torn.kind = "torn" /\ Torn.cfg = Default
BY DefaultFacts DEF Torn, Files

LEMMA TruncatesKeeps ==
  ASSUME IInv, NEW w \in Writers, Truncates(w)
  PROVE  IInv'
<1>1. /\ doing[w] = "saving"
      /\ doing' = [v \in Writers |-> IF v = w \/ doing[v] = "overlaying" THEN "writing"
                                     ELSE doing[v]]
      /\ file' = Torn /\ synced' = FALSE
      /\ UNCHANGED <<mode, task, copy, units, up, eff, edits, wanted, live, excuse>>
  BY DEF Truncates, service
<1>2. /\ doing' \in [Writers -> Doings] /\ doing'[w] = "writing"
      /\ \A v \in Writers \ {w} :
           \/ doing'[v] = doing[v] /\ doing[v] # "overlaying"
           \/ doing[v] = "overlaying" /\ doing'[v] = "writing"
  <2>1. doing \in [Writers -> Doings] /\ "writing" \in Doings
    BY DEF IInv, TypeOK, Doings
  <2>2. QED
    BY <1>1, <2>1
<1>3. file' \in Files /\ file'.kind = "torn" /\ file'.cfg = Default /\ Default.sound /\ ~Default.dry
  BY <1>1, TornFacts, DefaultFacts
<1>4. TypeOK' /\ ReloadTruthful'
  BY <1>1, <1>2, <1>3 DEF IInv, TypeOK, Doings, ReloadTruthful
<1>5. Tasks' /\ Stacks'
  BY <1>1, <1>2 DEF IInv, Tasks, Stacks, Writers
<1>6. Emptied' /\ Sound'
  BY <1>1, <1>2, <1>3 DEF IInv, Emptied, AtIt, Sound
<1>7. Faithful'
  BY <1>1, <1>2, <1>3 DEF IInv, Faithful, Pending, Set
<1>8. Earnest'
  BY <1>1, <1>2, <1>3 DEF IInv, Earnest, Writers
<1>9. QED
  BY <1>4, <1>5, <1>6, <1>7, <1>8 DEF IInv

LEMMA WritesKeeps ==
  ASSUME IInv, NEW w \in Writers, Writes(w)
  PROVE  IInv'
<1>1. PICK text \in Results(w) :
        /\ doing[w] \in AtIt /\ file' = text
        /\ doing' = [v \in Writers |-> IF v = w THEN After(w)
                                       ELSE IF doing[v] = "writing" THEN "overlaying" ELSE doing[v]]
        /\ wanted' = [f \in Fields |-> IF f \in Set(w) THEN copy[w][f] ELSE wanted[f]]
        /\ live' = (live /\ task[w] # "import") /\ synced' = FALSE
        /\ excuse' = (IF text = Torn THEN excuse \cup {"overlaid"}
                      ELSE (excuse \ Mended(w)) \cup Refused(w))
                     \cup (IF Overtaken(w) THEN {"stale"} ELSE {})
        /\ UNCHANGED <<mode, task, copy, units, up, eff, edits>>
  BY DEF Writes, service
<1>2. copy[w] \in Config /\ wanted \in Config
  BY DEF IInv, TypeOK
<1>3. /\ file' \in Files
      /\ \/ text # Torn /\ file'.kind = "whole" /\ file'.cfg = copy[w]
         \/ /\ text = Torn /\ doing[w] = "overlaying" /\ file'.kind = "torn"
            /\ file'.cfg = Default /\ Default.sound /\ ~Default.dry
  BY <1>1, <1>2, TornFacts, DefaultFacts DEF Results, Whole, Files
<1>4. After(w) \in Doings \ ({"editing", "saving", "reviving"} \cup AtIt)
  BY DEF After, Doings, AtIt
<1>5. /\ doing' \in [Writers -> Doings] /\ doing'[w] = After(w)
      /\ \A v \in Writers \ {w} :
           \/ doing'[v] = doing[v] /\ doing[v] # "writing"
           \/ doing[v] = "writing" /\ doing'[v] = "overlaying"
  <2>1. doing \in [Writers -> Doings] /\ "overlaying" \in Doings
    BY DEF IInv, TypeOK, Doings
  <2>2. QED
    BY <1>1, <1>4, <2>1
<1>6. /\ w = "setup" => \/ After(w) = "nothing"
                        \/ After(w) = "enabling" /\ task[w] = "events" /\ mode = "user"
                        \/ After(w) = "disabling" /\ task[w] = "migrate" /\ mode = "system"
      /\ w = "dialog" => After(w) = "applying" /\ mode = "user" /\ task[w] \in {"hot", "cold"}
  BY <1>1 DEF IInv, Tasks, After, Writers, AtIt
<1>7. TypeOK'
  <2>1. wanted' \in Config
    BY <1>1, <1>2 DEF Config
  <2>2. /\ excuse' \subseteq {"crashed", "overlaid", "refused", "stale", "failed"}
        /\ live' \in BOOLEAN /\ synced' \in BOOLEAN
    BY <1>1 DEF IInv, TypeOK, Refused
  <2>3. QED
    BY <1>1, <1>3, <1>5, <2>1, <2>2 DEF IInv, TypeOK, Doings
<1>8. Tasks'
  BY <1>1, <1>5, <1>6 DEF IInv, Tasks, Writers
<1>9. Emptied'
  BY <1>1, <1>3, <1>4, <1>5 DEF IInv, Emptied, AtIt, Writers
<1>10. Sound'
  <2>1. ~file'.cfg.sound => "refused" \in excuse'
    BY <1>1, <1>3 DEF IInv, Sound, Refused, AtIt
  <2>2. ASSUME NEW v \in Writers, doing'[v] \in {"saving", "writing", "overlaying"},
               task[v] # "import"
        PROVE  copy[v].sound
    BY <1>4, <1>5, <2>2 DEF IInv, Sound, AtIt
  <2>3. QED
    BY <1>1, <2>1, <2>2 DEF Sound
<1>11. Faithful'
  <2>1. SUFFICES ASSUME "stale" \notin excuse'
                 PROVE  /\ file'.kind # "torn" =>
                             \A f \in Fields \ {"sound"} : file'.cfg[f] = wanted'[f]
                        /\ \A v \in Writers : ~Pending(v)'
    BY DEF Faithful
  <2>2. ~Overtaken(w) /\ (task[w] # "import" => "stale" \notin excuse)
    BY <1>1, <2>1 DEF Mended
  <2>3. \A v \in Writers : ~Pending(v)'
    BY <1>4, <1>5, <2>2 DEF Overtaken, Pending, AtIt
  <2>4. ASSUME NEW f \in Fields \ {"sound"}
        PROVE  copy[w][f] = wanted'[f]
    <3>1. CASE f \in Set(w)
      BY <1>1, <3>1
    <3>2. CASE f \notin Set(w)
      <4>1. task[w] # "import"
        BY <3>2 DEF Set
      <4>2. copy[w][f] = wanted[f]
        BY <1>1, <2>2, <3>2, <4>1 DEF IInv, Faithful, Pending, AtIt
      <4>3. QED
        BY <1>1, <3>2, <4>2
    <3>3. QED
      BY <3>1, <3>2
  <2>5. QED
    BY <1>3, <2>3, <2>4
<1>12. Stacks'
  <2>1. "failed" \in excuse => "failed" \in excuse'
    BY <1>1 DEF Mended
  <2>2. \/ /\ doing'["setup"] # "reviving"
           /\ ~(doing'["setup"] = "enabling" /\ task["setup"] = "migrate")
        \/ doing'["setup"] = doing["setup"]
    BY <1>4, <1>5, <1>6 DEF Writers
  <2>3. QED
    BY <1>1, <2>1, <2>2 DEF IInv, Stacks
<1>13. Earnest'
  BY <1>1, <1>3, <1>4, <1>5, <1>6 DEF IInv, Earnest, Writers, AtIt
<1>14. ReloadTruthful'
  BY <1>1 DEF ReloadTruthful
<1>15. QED
  BY <1>7, <1>8, <1>9, <1>10, <1>11, <1>12, <1>13, <1>14 DEF IInv

LEMMA WriterDiesKeeps ==
  ASSUME IInv, NEW w \in Writers, WriterDies(w)
  PROVE  IInv'
<1>1. /\ doing' = [doing EXCEPT ![w] = "nothing"]
      /\ excuse' = IF doing[w] = "writing" THEN excuse \cup {"crashed"} ELSE excuse
      /\ UNCHANGED <<mode, file, task, copy, units, up, eff, edits, wanted, synced, live>>
  BY DEF WriterDies, service
<1>2. /\ doing' \in [Writers -> Doings] /\ doing'[w] = "nothing"
      /\ \A v \in Writers \ {w} : doing'[v] = doing[v]
  BY <1>1, Goes1 DEF Doings
<1>3. TypeOK' /\ ReloadTruthful'
  BY <1>1, <1>2 DEF IInv, TypeOK, Doings, ReloadTruthful
<1>4. Tasks' /\ Stacks'
  BY <1>1, <1>2 DEF IInv, Tasks, Stacks, Writers
<1>5. Emptied' /\ Sound'
  BY <1>1, <1>2 DEF IInv, Emptied, AtIt, Sound
<1>6. Faithful'
  BY <1>1, <1>2 DEF IInv, Faithful, Pending, Set
<1>7. Earnest'
  BY <1>1, <1>2 DEF IInv, Earnest, Writers
<1>8. QED
  BY <1>3, <1>4, <1>5, <1>6, <1>7 DEF IInv
-----------------------------------------------------------------------------
(* Units and the daemon                                                    *)

\* Nobody starts to write, and who writes goes on.
LEMMA FileKept ==
  ASSUME IInv, UNCHANGED <<file, task, copy, wanted>>, excuse \subseteq excuse',
         \A w \in Writers : \/ doing'[w] = doing[w]
                            \/ doing[w] # "writing" /\ ~Pending(w)'
  PROVE  Emptied' /\ Sound' /\ Faithful'
<1>1. Emptied'
  BY DEF IInv, Emptied, AtIt, Pending
<1>2. Sound'
  BY DEF IInv, Sound, Pending
<1>3. Faithful'
  BY DEF IInv, Faithful, Pending, Set
<1>4. QED
  BY <1>1, <1>2, <1>3

\* A step of the setup command that only concerns units.
LEMMA UnitsKeep ==
  ASSUME IInv, \/ InstallEnables \/ MigrateDisables \/ MigrateEnables
               \/ RollbackDisables \/ RollbackEnables
  PROVE  IInv'
<1>1. PICK next \in {"nothing", "enabling", "restarting", "reviving"} :
        doing' = [doing EXCEPT !["setup"] = next]
  BY DEF InstallEnables, MigrateDisables, MigrateEnables, RollbackDisables, RollbackEnables, Goes
<1>2. /\ doing' \in [Writers -> Doings] /\ doing'["setup"] = next
      /\ doing'["dialog"] = doing["dialog"]
  BY <1>1, Goes1 DEF Doings, Writers
<1>3. /\ UNCHANGED <<mode, file, task, copy, eff, edits, wanted, synced>>
      /\ excuse' \in {excuse, excuse \cup {"failed"}} /\ live' \in {live, FALSE}
      /\ up' \in {up, FALSE} /\ units' \subseteq units \cup {"ours", "legacy"}
  BY DEF InstallEnables, MigrateDisables, MigrateEnables, RollbackDisables, RollbackEnables,
         Ignored, history, IInv, TypeOK
<1>4. doing["setup"] # "writing"
  BY DEF InstallEnables, MigrateDisables, MigrateEnables, RollbackDisables, RollbackEnables
<1>5. Emptied' /\ Sound' /\ Faithful'
  <2>1. \A w \in Writers : \/ doing'[w] = doing[w]
                           \/ doing[w] # "writing" /\ ~Pending(w)'
    BY <1>1, <1>2, <1>4 DEF Pending, Writers
  <2>2. QED
    BY <1>3, <2>1, FileKept
<1>6. TypeOK'
  BY <1>2, <1>3 DEF IInv, TypeOK, Doings
<1>7. ReloadTruthful'
  BY <1>3 DEF IInv, ReloadTruthful, TypeOK
<1>8. CASE InstallEnables
  <2>1. /\ doing["setup"] = "enabling" /\ task["setup"] = "events" /\ mode = "user"
        /\ units' = units \cup {"ours"} /\ UNCHANGED <<up, live, excuse>>
        /\ doing'["setup"] = "nothing"
    BY <1>2, <1>8 DEF InstallEnables, Goes, history, IInv, Tasks, TypeOK, Writers
  <2>2. Tasks' /\ Stacks' /\ Earnest'
    BY <1>2, <1>3, <2>1 DEF IInv, Tasks, Stacks, Earnest
  <2>3. QED
    BY <1>5, <1>6, <1>7, <2>2 DEF IInv
<1>9. CASE MigrateDisables
  <2>1. /\ doing["setup"] = "disabling" /\ task["setup"] = "migrate" /\ mode = "system"
        /\ \/ units' = units \ {"legacy"} /\ UNCHANGED <<up, excuse>>
           \/ UNCHANGED <<units, up>> /\ excuse' = excuse \cup {"failed"}
        /\ live' = live /\ doing'["setup"] = "enabling"
    BY <1>2, <1>9 DEF MigrateDisables, Goes, Ignored, IInv, Tasks, TypeOK, Writers
  <2>2. Tasks' /\ Stacks' /\ Earnest'
    BY <1>2, <1>3, <2>1 DEF IInv, Tasks, Stacks, Earnest
  <2>3. QED
    BY <1>5, <1>6, <1>7, <2>2 DEF IInv
<1>10. CASE MigrateEnables
  <2>1. /\ doing["setup"] = "enabling" /\ task["setup"] = "migrate" /\ mode = "system"
        /\ units' \in {units, units \cup {"ours"}} /\ UNCHANGED <<up, live, excuse>>
        /\ doing'["setup"] \in {"restarting", "nothing"}
    BY <1>2, <1>10 DEF MigrateEnables, Goes, history, IInv, Tasks, TypeOK, Writers
  <2>2. Tasks' /\ Stacks' /\ Earnest'
    BY <1>2, <1>3, <2>1 DEF IInv, Tasks, Stacks, Earnest
  <2>3. QED
    BY <1>5, <1>6, <1>7, <2>2 DEF IInv
<1>11. CASE RollbackDisables
  <2>1. /\ doing["setup"] = "nothing" /\ mode = "system"
        /\ \/ units' = units \ {"ours"} /\ up' = FALSE /\ excuse' = excuse
           \/ UNCHANGED <<units, up>> /\ excuse' = excuse \cup {"failed"}
        /\ live' = FALSE /\ doing'["setup"] = "reviving"
    BY <1>2, <1>11 DEF RollbackDisables, Goes, Ignored, IInv, TypeOK, Writers
  <2>2. Tasks' /\ Stacks' /\ Earnest'
    BY <1>2, <1>3, <2>1 DEF IInv, Tasks, Stacks, Earnest
  <2>3. QED
    BY <1>5, <1>6, <1>7, <2>2 DEF IInv
<1>12. CASE RollbackEnables
  <2>1. /\ doing["setup"] = "reviving" /\ mode = "system"
        /\ units' \in {units, units \cup {"legacy"}} /\ UNCHANGED <<up, live, excuse>>
        /\ doing'["setup"] = "nothing"
    BY <1>2, <1>12 DEF RollbackEnables, Goes, history, IInv, Tasks, TypeOK, Writers
  <2>2. Tasks' /\ Stacks' /\ Earnest'
    BY <1>2, <1>3, <2>1 DEF IInv, Tasks, Stacks, Earnest
  <2>3. QED
    BY <1>5, <1>6, <1>7, <2>2 DEF IInv
<1>13. QED
  BY <1>8, <1>9, <1>10, <1>11, <1>12

LEMMA AdminEnablesKeeps ==
  ASSUME IInv, AdminEnables
  PROVE  IInv'
<1>1. /\ mode = "system" /\ doing["setup"] = "nothing" /\ units = {} /\ units' = {"ours"}
      /\ UNCHANGED <<mode, file, doing, task, copy, up, eff, edits, wanted, synced, live, excuse>>
  BY DEF AdminEnables, people, history
<1>2. Emptied' /\ Sound' /\ Faithful'
  BY <1>1, FileKept
<1>3. TypeOK' /\ Tasks' /\ Stacks' /\ Earnest' /\ ReloadTruthful'
  BY <1>1 DEF IInv, TypeOK, Tasks, Stacks, Earnest, ReloadTruthful
<1>4. QED
  BY <1>2, <1>3 DEF IInv

\* The daemon takes up the file, wholly or as a reload does, or ends.
LEMMA DaemonKeeps ==
  ASSUME IInv, MigrateRestarts \/ DaemonStarts \/ DaemonEnds \/ Reload \/ DialogApplies
  PROVE  IInv'
<1>1. UNCHANGED <<mode, file, task, copy, units, edits, wanted, excuse>>
  BY DEF MigrateRestarts, DaemonStarts, DaemonEnds, Reload, DialogApplies, people, history
<1>2. /\ doing' \in [Writers -> Doings]
      /\ \A w \in Writers : \/ doing'[w] = doing[w]
                            \/ /\ doing[w] \in {"restarting", "applying"}
                               /\ doing'[w] = "nothing"
  <2>1. CASE UNCHANGED doing
    BY <2>1 DEF IInv, TypeOK, Doings
  <2>2. CASE \E w \in Writers : doing[w] \in {"restarting", "applying"} /\ Goes(w, "nothing")
    BY <2>2, Goes1 DEF Goes, Doings
  <2>3. QED
    BY <2>1, <2>2 DEF MigrateRestarts, DaemonStarts, DaemonEnds, Reload, DialogApplies, people,
                      Writers
<1>3. Emptied' /\ Sound' /\ Faithful'
  <2>1. \A w \in Writers : \/ doing'[w] = doing[w]
                           \/ doing[w] # "writing" /\ ~Pending(w)'
    BY <1>2 DEF Pending
  <2>2. QED
    BY <1>1, <2>1, FileKept
<1>4. Tasks' /\ Stacks'
  BY <1>1, <1>2 DEF IInv, Tasks, Stacks, Writers
<1>5. file.cfg \in Config /\ eff \in Config /\ mode \in {"system", "user"}
  BY FileTypes DEF IInv, TypeOK
<1>6. CASE MigrateRestarts
  <2>1. /\ up' = Loadable /\ eff' = (IF Loadable THEN file.cfg ELSE eff)
        /\ synced' = Loadable /\ live' = ~file.cfg.dry /\ mode = "system"
        /\ doing'["setup"] = "nothing"
    BY <1>6, Goes1 DEF MigrateRestarts, IInv, Tasks, Goes, Doings, Writers
  <2>2. TypeOK'
    BY <1>1, <1>2, <1>5, <2>1 DEF IInv, TypeOK, Doings, Loadable
  <2>3. Earnest' /\ ReloadTruthful'
    BY <1>1, <2>1 DEF Earnest, ReloadTruthful
  <2>4. QED
    BY <1>3, <1>4, <2>2, <2>3 DEF IInv
<1>7. CASE DaemonStarts
  <2>1. /\ up' = TRUE /\ eff' = file.cfg /\ synced' = TRUE /\ UNCHANGED <<doing, live>>
    BY <1>7 DEF DaemonStarts, people
  <2>2. TypeOK'
    BY <1>1, <1>2, <1>5, <2>1 DEF IInv, TypeOK, Doings
  <2>3. Earnest' /\ ReloadTruthful'
    BY <1>1, <2>1 DEF IInv, Earnest, ReloadTruthful
  <2>4. QED
    BY <1>3, <1>4, <2>2, <2>3 DEF IInv
<1>8. CASE DaemonEnds
  <2>1. up' = FALSE /\ UNCHANGED <<doing, eff, synced, live>>
    BY <1>8 DEF DaemonEnds, people, history
  <2>2. TypeOK'
    BY <1>1, <1>2, <1>5, <2>1 DEF IInv, TypeOK, Doings
  <2>3. Earnest' /\ ReloadTruthful'
    BY <1>1, <2>1 DEF IInv, Earnest, ReloadTruthful
  <2>4. QED
    BY <1>3, <1>4, <2>2, <2>3 DEF IInv
<1>9. CASE Reload \/ DialogApplies
  <2>1. Reloaded /\ UNCHANGED <<up, live>> /\ doing'["setup"] = doing["setup"]
    BY <1>2, <1>9 DEF Reload, DialogApplies, people, Goes, IInv, TypeOK, Writers
  <2>2. CASE UNCHANGED <<eff, synced>>
    <3>1. TypeOK'
      BY <1>1, <1>2, <2>1, <2>2 DEF IInv, TypeOK, Doings
    <3>2. Earnest' /\ ReloadTruthful'
      BY <1>1, <2>1, <2>2 DEF IInv, Earnest, ReloadTruthful
    <3>3. QED
      BY <1>3, <1>4, <3>1, <3>2 DEF IInv
  <2>3. CASE /\ eff' = [eff EXCEPT !.hot = file.cfg.hot]
             /\ synced' = (synced \/ ~RestartNeeded)
    <3>1. /\ eff' \in Config /\ eff'.hot = file.cfg.hot /\ eff'.dry = eff.dry
          /\ \A f \in {"device", "cold"} : eff'[f] = eff[f]
      BY <1>5, <2>3 DEF Config, Fields
    <3>2. TypeOK'
      BY <1>1, <1>2, <2>1, <2>3, <3>1 DEF IInv, TypeOK, Doings, RestartNeeded
    <3>3. Earnest'
      BY <1>1, <2>1, <3>1 DEF IInv, Earnest
    <3>4. ReloadTruthful'
      BY <1>1, <2>1, <2>3, <3>1 DEF IInv, ReloadTruthful, RestartNeeded
    <3>5. QED
      BY <1>3, <1>4, <3>2, <3>3, <3>4 DEF IInv
  <2>4. QED
    BY <2>1, <2>2, <2>3 DEF Reloaded
<1>10. QED
  BY <1>6, <1>7, <1>8, <1>9

-----------------------------------------------------------------------------
(* The theorems                                                            *)

LEMMA InitHolds ==
  ASSUME Init
  PROVE  IInv
<1>1. /\ mode \in {"system", "user"} /\ units \subseteq {"legacy"}
      /\ mode = "user" => units = {}
      /\ doing = [w \in Writers |-> "nothing"] /\ task = [w \in Writers |-> "none"]
      /\ copy = [w \in Writers |-> Default] /\ up = FALSE /\ eff = Default
      /\ edits = 0 /\ wanted = file.cfg /\ synced = FALSE /\ live = FALSE /\ excuse = {}
  BY DEF Init
<1>2. file \in Files /\ file.kind \in {"missing", "whole"} /\ file.cfg.sound
      /\ (file.kind = "missing" => file.cfg = Default) /\ file.cfg \in Config
  <2>1. [Default EXCEPT !.device = TRUE] \in Config /\ [Default EXCEPT !.device = TRUE].sound
    BY DefaultFacts DEF Config, Fields
  <2>2. CASE file = [kind |-> "missing", cfg |-> Default]
    BY <2>2, DefaultFacts DEF Files
  <2>3. CASE file = Whole([Default EXCEPT !.device = TRUE])
    BY <2>1, <2>3 DEF Files, Whole
  <2>4. QED
    BY <2>2, <2>3 DEF Init
<1>3. "dialog" \in Writers /\ "setup" \in Writers
  BY DEF Writers
<1>4. TypeOK
  <2>1. 0 \in 0 .. MaxEdits
    BY SetupAssumption
  <2>2. QED
    BY <1>1, <1>2, <2>1, DefaultFacts DEF TypeOK
<1>5. Tasks /\ Stacks /\ Earnest /\ ReloadTruthful
  BY <1>1, <1>3 DEF Tasks, Stacks, Earnest, ReloadTruthful
<1>6. Emptied /\ Sound /\ Faithful
  BY <1>1, <1>2 DEF Emptied, Sound, Faithful, Pending
<1>7. QED
  BY <1>4, <1>5, <1>6 DEF IInv

LEMMA NextHolds ==
  ASSUME IInv, [Next]_vars
  PROVE  IInv'
<1>1. CASE Next
  BY <1>1, TakersKeep, DialogTypesKeeps, DialogSavesKeeps, TruncatesKeeps, WritesKeeps,
     WriterDiesKeeps, UnitsKeep, AdminEnablesKeeps, DaemonKeeps DEF Next
<1>2. CASE UNCHANGED vars
  <2>1. UNCHANGED <<mode, file, doing, task, copy, units, up, eff, edits, wanted, synced, live, excuse>>
    BY <1>2 DEF vars, people, service, history
  <2>2. Emptied' /\ Sound' /\ Faithful'
    BY <2>1, FileKept
  <2>3. TypeOK' /\ Tasks' /\ Stacks' /\ Earnest' /\ ReloadTruthful'
    BY <2>1 DEF IInv, TypeOK, Tasks, Stacks, Earnest, ReloadTruthful
  <2>4. QED
    BY <2>2, <2>3 DEF IInv
<1>3. QED
  BY <1>1, <1>2

LEMMA IInvHolds == Spec => []IInv
<1>1. Init => IInv
  BY InitHolds
<1>2. IInv /\ [Next]_vars => IInv'
  BY NextHolds
<1>3. QED
  BY <1>1, <1>2, PTL DEF Spec

\* At whatever step a setup command ends or fails, the two stacks are not both enabled
\* unless a systemctl failed, and a migrated daemon is in earnest.
THEOREM InvHolds == Spec => []Inv
<1>1. IInv => Inv
  BY DEF IInv, Stacks, Earnest, Inv, CutOver
<1>2. QED
  BY <1>1, IInvHolds, PTL

\* Whatever the commands, the dialog and their deaths do to config.json, load() accepts it
\* at rest, unless one died in the midst of writing, or wrote over another one's text, or an
\* import wrote what load() refuses, and nobody has written a whole and sound text since.
THEOREM StaysLoadableHolds == Spec => []StaysLoadable
<1>1. IInv => StaysLoadable
  BY FileTypes DEF IInv, Emptied, Sound, StaysLoadable, Loadable, AtRest, AtIt
<1>2. QED
  BY <1>1, IInvHolds, PTL

\* A field keeps its last setting through every other command's read, change and write,
\* unless two of them overlapped.
THEOREM EditsKeptHolds == Spec => []EditsKept
<1>1. IInv => EditsKept
  BY DEF IInv, Faithful, EditsKept
<1>2. QED
  BY <1>1, IInvHolds, PTL

\* A reload that asks for no restart leaves the daemon working by the file, in all that
\* reload does not pass over in silence.
THEOREM ReloadTruthfulHolds == Spec => []ReloadTruthful
<1>1. IInv => ReloadTruthful
  BY DEF IInv
<1>2. QED
  BY <1>1, IInvHolds, PTL
=============================================================================
