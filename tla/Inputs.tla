------------------------------- MODULE Inputs -------------------------------
(***************************************************************************)
(* A monitor of input devices (daemon/inputdev.py), for event devices or,  *)
(* in daemon/hidraw.py, for raw HID nodes: it scans a directory, opens what*)
(* it finds, and scans again when inotify tells of a change, one second    *)
(* later, and periodically.                                                *)
(*                                                                         *)
(* The kernel works beside it.  A node may be replaced by another of the   *)
(* same name at any time, also between opening it and asking sysfs what it *)
(* is; udev makes a new node readable some time after it appears; and what *)
(* inotify has to tell may be lost.  A device that is gone emits nothing,  *)
(* and reading from it fails.                                              *)
(***************************************************************************)
EXTENDS Naturals, FiniteSets

CONSTANTS
  Paths,      \* names of nodes
  MaxDevices  \* devices that ever appear (bound)

ASSUME InputsAssumption == MaxDevices \in Nat

VARIABLES
  class,      \* "evdev" (InputMonitor) or "hidraw" (HidrawMonitor)
  node,       \* the kernel's: the device under each name
  born,       \* how many devices there have been
  news,       \* inotify has something to read
  monitor,    \* "new", "running" or "stopped"
  inotify,    \* _inotify_fd is open and read
  periodic,   \* _rescan_task runs
  later,      \* scans that call_later will run
  scan,       \* the scan under way: names yet to look at, and what it has just opened
  open,       \* _fds, with the device that each descriptor belongs to
  synthetic,  \* names marked as injected
  heard,      \* history: kinds of devices taken for someone at the TV
  late        \* history: a scan has run after stop()

kernel == <<node, born, news>>
inputsVars == <<class, kernel, monitor, inotify, periodic, later, scan, open, synthetic, heard, late>>

\* "hand": somebody at the TV; "uhid", "usbip": injected by a streaming host; "other":
\* an accelerometer, or a HID device that is not Valve's.
DeviceKinds == {"hand", "uhid", "usbip", "other"}
Device == [kind : DeviceKinds \cup {"none"}, id : 0..MaxDevices, readable : BOOLEAN]
NoDevice == [kind |-> "none", id |-> 0, readable |-> FALSE]

\* `opened` is the descriptor that is not accepted yet, for the name in `path`.
NoScan == [on |-> FALSE, todo |-> {}, path |-> {}, opened |-> NoDevice]
Scans(paths) == [NoScan EXCEPT !.on = TRUE, !.todo = paths]
Opened(dev) == dev.kind # "none"
OpenPaths == {p \in Paths : Opened(open[p])}
PresentPaths == {p \in Paths : Opened(node[p])}

InputsTypeOK ==
  /\ class \in {"evdev", "hidraw"} /\ node \in [Paths -> Device] /\ open \in [Paths -> Device]
  /\ born \in 0..MaxDevices /\ later \in Nat
  /\ monitor \in {"new", "running", "stopped"}
  /\ scan \in [on : BOOLEAN, todo : SUBSET Paths, path : SUBSET Paths, opened : Device]
  /\ Cardinality(scan.path) <= 1 /\ (scan.path = {} <=> ~Opened(scan.opened))
  /\ heard \subseteq DeviceKinds
  /\ \A flag \in {news, inotify, periodic, late} : flag \in BOOLEAN

InputsInit ==
  /\ class \in {"evdev", "hidraw"} /\ node = [p \in Paths |-> NoDevice] /\ born = 0
  /\ news = FALSE /\ monitor = "new" /\ inotify = FALSE /\ periodic = FALSE /\ later = 0
  /\ scan = NoScan /\ open = [p \in Paths |-> NoDevice] /\ synthetic = {}
  /\ heard = {} /\ late = FALSE

-----------------------------------------------------------------------------
(* Kernel, udev and hands                                                  *)

\* A change of a node is told, or lost.
Becomes(p, dev) ==
  /\ node' = [node EXCEPT ![p] = dev] /\ news' \in {news, inotify}
  /\ UNCHANGED <<class, monitor, inotify, periodic, later, scan, open, synthetic, heard, late>>

Appears(p) ==
  /\ born < MaxDevices /\ ~Opened(node[p]) /\ born' = born + 1
  /\ \E kind \in DeviceKinds, readable \in BOOLEAN :
       Becomes(p, [kind |-> kind, id |-> born', readable |-> readable])

Grants(p) ==
  /\ Opened(node[p]) /\ ~node[p].readable /\ born' = born
  /\ Becomes(p, [node[p] EXCEPT !.readable = TRUE])

Vanishes(p) == Opened(node[p]) /\ born' = born /\ Becomes(p, NoDevice)

-----------------------------------------------------------------------------
(* The monitor                                                             *)

\* Mutant of Injected: usbip, which is not under /devices/virtual, is forgotten.
InjectedVirtual == {"uhid"}

Injected == {"uhid", "usbip"}

\* What is watched, and what of it is marked.
Acceptable(verdict) == verdict = "hand" \/ (class = "evdev" /\ verdict = "injected")
Marked(verdict) == class = "evdev" /\ verdict = "injected"

\* The mark and the descriptor of a name go together.
Closes(p) == open' = [open EXCEPT ![p] = NoDevice] /\ synthetic' = synthetic \ {p}

StartsMonitor ==
  /\ monitor = "new" /\ monitor' = "running" /\ scan' = Scans(PresentPaths \cup OpenPaths)
  /\ UNCHANGED <<class, kernel, inotify, periodic, later, open, synthetic, heard, late>>

\* A name that is gone is closed; so is one whose node is another than the one opened,
\* to be opened again later in this scan.  (The scan goes through what is stale, new
\* and gone in this order; the names do not depend on each other.)
Looks(p) ==
  /\ scan.path = {} /\ p \in scan.todo
  /\ \/ Opened(open[p]) /\ open[p].id = node[p].id
        /\ scan' = [scan EXCEPT !.todo = @ \ {p}] /\ UNCHANGED <<open, synthetic>>
     \/ Opened(open[p]) /\ open[p].id # node[p].id
        /\ Closes(p) /\ scan' = [scan EXCEPT !.todo = IF Opened(node[p]) THEN @ ELSE @ \ {p}]
  /\ UNCHANGED <<class, kernel, monitor, inotify, periodic, later, heard, late>>

Opens(p) ==
  /\ scan.path = {} /\ p \in scan.todo /\ ~Opened(open[p])
  /\ scan' = IF node[p].readable
             THEN [scan EXCEPT !.todo = @ \ {p}, !.path = {p}, !.opened = node[p]]
             ELSE [scan EXCEPT !.todo = @ \ {p}]
  /\ UNCHANGED <<class, kernel, monitor, inotify, periodic, later, open, synthetic, heard, late>>

\* Whether it is an accelerometer is asked of the descriptor, all else of sysfs, by
\* name; of a name that is gone sysfs knows nothing.
Judged(p) ==
  CASE class = "evdev" /\ scan.opened.kind = "other" -> "other"
    [] class = "hidraw" /\ node[p].kind \in {"none", "other"} -> "other"
    [] OTHER -> IF node[p].kind \in Injected THEN "injected" ELSE "hand"

Accepts(p) ==
  /\ p \in scan.path /\ scan' = [scan EXCEPT !.path = {}, !.opened = NoDevice]
  /\ open' = IF Acceptable(Judged(p)) THEN [open EXCEPT ![p] = scan.opened] ELSE open
  /\ synthetic' = IF Marked(Judged(p)) THEN synthetic \cup {p}
                  ELSE IF Acceptable(Judged(p)) THEN synthetic \ {p} ELSE synthetic
  /\ UNCHANGED <<class, kernel, monitor, inotify, periodic, later, heard, late>>

Scanned == scan.on /\ scan.todo = {} /\ scan.path = {}

\* Mutant of EndsScan: the periodic scan is there only if inotify cannot be had.
EndsScanOneOrOther ==
  /\ Scanned /\ scan' = NoScan
  /\ IF monitor = "running" /\ ~periodic /\ ~inotify
     THEN \/ inotify' = TRUE /\ periodic' = FALSE
          \/ inotify' = FALSE /\ periodic' = TRUE
     ELSE UNCHANGED <<inotify, periodic>>
  /\ UNCHANGED <<class, kernel, monitor, later, open, synthetic, heard, late>>

\* After its first scan start() watches the directory, if it can, and in any case
\* starts the periodic task.
EndsScan ==
  /\ Scanned /\ scan' = NoScan
  /\ IF monitor = "running" /\ ~periodic
     THEN inotify' \in BOOLEAN /\ periodic' = TRUE ELSE UNCHANGED <<inotify, periodic>>
  /\ UNCHANGED <<class, kernel, monitor, later, open, synthetic, heard, late>>

OnInotify ==
  /\ ~scan.on /\ inotify /\ news /\ news' = FALSE /\ later' = later + 1
  /\ UNCHANGED <<class, node, born, monitor, inotify, periodic, scan, open, synthetic, heard, late>>

\* The scan that call_later runs; nothing takes it back when the monitor stops.
LaterScans ==
  /\ ~scan.on /\ later > 0 /\ later' = later - 1 /\ scan' = Scans(PresentPaths \cup OpenPaths)
  /\ late' = (late \/ monitor = "stopped")
  /\ UNCHANGED <<class, kernel, monitor, inotify, periodic, open, synthetic, heard>>

Rescans ==
  /\ ~scan.on /\ periodic /\ scan' = Scans(PresentPaths \cup OpenPaths)
  /\ UNCHANGED <<class, kernel, monitor, inotify, periodic, later, open, synthetic, heard, late>>

\* A descriptor whose device is gone is closed when the loop gets to read from it.
ReadFails(p) ==
  /\ ~scan.on /\ Opened(open[p]) /\ open[p].id # node[p].id /\ Closes(p)
  /\ UNCHANGED <<class, kernel, monitor, inotify, periodic, later, scan, heard, late>>

\* Whose key press counts as somebody's at the TV.
TakenForSomeone(p) == p \notin synthetic

\* A key is pressed, or a controller moved.
Handles(p) ==
  /\ ~scan.on /\ Opened(open[p]) /\ open[p].id = node[p].id
  /\ heard' = IF TakenForSomeone(p) THEN heard \cup {open[p].kind} ELSE heard
  /\ UNCHANGED <<class, kernel, monitor, inotify, periodic, later, scan, open, synthetic, late>>

\* Mutant of StopsMonitor: the periodic task goes on.
StopsMonitorButScans ==
  /\ ~scan.on /\ monitor = "running" /\ monitor' = "stopped"
  /\ open' = [p \in Paths |-> NoDevice] /\ synthetic' = {}
  /\ inotify' = FALSE /\ news' = FALSE /\ UNCHANGED periodic
  /\ UNCHANGED <<class, node, born, later, scan, heard, late>>

StopsMonitor ==
  /\ ~scan.on /\ monitor = "running" /\ monitor' = "stopped"
  /\ open' = [p \in Paths |-> NoDevice] /\ synthetic' = {}
  /\ inotify' = FALSE /\ news' = FALSE /\ periodic' = FALSE
  /\ UNCHANGED <<class, node, born, later, scan, heard, late>>

-----------------------------------------------------------------------------
Loop ==
  \/ LaterScans \/ Rescans \/ EndsScan
  \/ \E p \in Paths : Looks(p) \/ Opens(p) \/ Accepts(p)

InputsNext ==
  \/ StartsMonitor \/ StopsMonitor \/ OnInotify \/ Loop
  \/ \E p \in Paths : \/ Appears(p) \/ Grants(p) \/ Vanishes(p)
                      \/ ReadFails(p) \/ Handles(p)

\* The loop's timers come due and a scan that has begun ends.
InputsSpec == InputsInit /\ [][InputsNext]_inputsVars /\ WF_inputsVars(Loop)

-----------------------------------------------------------------------------
\* A monitor that is stopped holds nothing open, unless a scan that inotify had asked
\* for was still to come: that one opens all the devices again, and nobody closes them.
Shut == monitor = "stopped" /\ OpenPaths # {} => late

\* Only what is open is marked.
MarksOpen == synthetic \subseteq OpenPaths

\* Types; a stopped monitor holds nothing open but by a delayed scan, and marks
\* nothing that is closed.
InputsInv == InputsTypeOK /\ Shut /\ MarksOpen

\* is_synthetic says why: the player at the other end of a stream is never taken for
\* someone at the TV, however nodes of the same name replace each other, also between
\* the opening and the question what it is.
NeverMistaken == heard \subseteq {"hand"}

\* As long as the monitor runs and the devices do not change any more, it comes to
\* watch exactly those that it should, marked as they are, though inotify may not be
\* there or may have lost what it had to tell.
AsItShould(p) ==
  /\ open[p] = IF /\ node[p].readable
                  /\ node[p].kind \in {"hand"} \cup IF class = "evdev" THEN {"uhid", "usbip"} ELSE {}
               THEN node[p] ELSE NoDevice
  /\ p \in synthetic <=> open[p].kind \in {"uhid", "usbip"}
WatchesAll == <>[](monitor = "running") => <>[](\A p \in Paths : AsItShould(p))
=============================================================================
