-------------------------------- MODULE Daemon --------------------------------
(***************************************************************************)
(* The daemon's way to new settings: it never re-reads config.json, it     *)
(* starts a replacement of itself and exits.  Modelled: the start-up of    *)
(* main (app/src/main.rs), the watcher's thread (config_watcher.rs), the   *)
(* event loop with its menu channel and queue of user events, and          *)
(* relaunch_self.                                                          *)
(*                                                                         *)
(* Several processes of the daemon can be alive at once: the old one is    *)
(* not waited for.  What is external: FSEvents tells a process of the      *)
(* writes made after it started watching, once or more per write; and tao  *)
(* goes on delivering queued events after ControlFlow::Exit until the      *)
(* application stops.                                                      *)
(***************************************************************************)
EXTENDS Naturals, Sequences, FiniteSets

CONSTANTS
  Procs,            \* processes of the daemon there can be
  First,            \* the one the user started
  Rows,             \* menu rows in use: a subset of {"toggle", "quit"}
  OpenMayFail,      \* may `open -n` fail to start a process?
  EventsPerSave,    \* bound on the notifications of one write
  MaxSaves,         \* bound on the saves
  MaxClicks         \* bound on the clicks

ASSUME DaemonAssumption ==
  /\ First \in Procs
  /\ Rows \subseteq {"toggle", "quit"}
  /\ OpenMayFail \in BOOLEAN
  /\ EventsPerSave \in Nat \ {0}
  /\ MaxSaves \in Nat
  /\ MaxClicks \in Nat

VARIABLES
  saved,     \* config.json, as the number of saves it has seen
  clicks,    \* clicks made so far
  phase,     \* of each process
  cfg,       \* what it read from config.json
  watches,   \* has it a watcher?
  notices,   \* notifications its watcher thread has not received
  quiet,     \* is its watcher within 400 ms of the last firing?
  queue,     \* ConfigChanged events in its event loop
  menu,      \* clicks in its menu channel
  turn,      \* its event loop: "wait", or inside a callback
  exiting,   \* has it set ControlFlow::Exit?
  busy,      \* RELAUNCH_BUSY
  launches,  \* history: how often it has called relaunch_self, and for whom
  quit,      \* history: has the user quit it?
  missed,    \* history: was the last save made between its read and its watch?
  failed     \* history: has `open -n` failed?

watchVars == <<watches, notices, quiet>>
loopVars == <<queue, menu, turn, exiting, busy>>
history == <<launches, quit, missed, failed>>
vars == <<saved, clicks, phase, cfg, watchVars, loopVars, history>>

-----------------------------------------------------------------------------
(* "free": not started.  "starting": main before the read of config.json.  *)
(* "loaded": before the watcher starts.  "running": the event loop.        *)
Alive == {p \in Procs : phase[p] \in {"starting", "loaded", "running"}}

(* Inside a callback: draining the menu, with or without a ConfigChanged   *)
(* to handle after that.                                                   *)
Turns == {"wait", "drain", "drainChanged"}

Init ==
  /\ saved = 0
  /\ clicks = 0
  /\ phase = [p \in Procs |-> IF p = First THEN "starting" ELSE "free"]
  /\ cfg = [p \in Procs |-> 0]
  /\ watches = [p \in Procs |-> FALSE]
  /\ notices = [p \in Procs |-> 0]
  /\ quiet = [p \in Procs |-> FALSE]
  /\ queue = [p \in Procs |-> 0]
  /\ menu = [p \in Procs |-> <<>>]
  /\ turn = [p \in Procs |-> "wait"]
  /\ exiting = [p \in Procs |-> FALSE]
  /\ busy = [p \in Procs |-> FALSE]
  /\ launches = [p \in Procs |-> [watcher |-> 0, menu |-> 0]]
  /\ quit = [p \in Procs |-> FALSE]
  /\ missed = [p \in Procs |-> FALSE]
  /\ failed = FALSE

-----------------------------------------------------------------------------
(* A write of config.json: every process that watches is notified.         *)
WriteConfig ==
  /\ saved < MaxSaves
  /\ saved' = saved + 1
  /\ \E n \in 1..EventsPerSave :
       notices' = [p \in Procs |->
                     IF phase[p] = "running" /\ watches[p]
                     THEN notices[p] + n ELSE notices[p]]
  /\ missed' = [p \in Procs |->
                  CASE phase[p] = "loaded" -> TRUE
                    [] phase[p] = "running" /\ watches[p] -> FALSE
                    [] OTHER -> missed[p]]
  /\ UNCHANGED watches

(* The editor, the tunnel thread or a text editor saves.                   *)
Save ==
  /\ WriteConfig
  /\ UNCHANGED <<clicks, phase, cfg, quiet, loopVars, launches, quit, failed>>

(* main *)
Load(p) ==
  /\ phase[p] = "starting"
  /\ phase' = [phase EXCEPT ![p] = "loaded"]
  /\ cfg' = [cfg EXCEPT ![p] = saved]
  /\ UNCHANGED <<saved, clicks, watchVars, loopVars, history>>

Watch(p) ==
  /\ phase[p] = "loaded"
  /\ phase' = [phase EXCEPT ![p] = "running"]
  /\ watches' = [watches EXCEPT ![p] = TRUE]
  /\ UNCHANGED <<saved, clicks, cfg, notices, quiet, loopVars, history>>

(* config_watcher::spawn fails: a warning in the log, and the daemon runs  *)
(* on without a watcher for good.                                          *)
WatchFails(p) ==
  /\ phase[p] = "loaded"
  /\ phase' = [phase EXCEPT ![p] = "running"]
  /\ UNCHANGED <<saved, clicks, cfg, watchVars, loopVars, history>>

-----------------------------------------------------------------------------
(* Mutant: receives what nobody sent. *)
ReceiveUnchecked(p) ==
  /\ phase[p] = "running"
  /\ notices' = [notices EXCEPT ![p] = @ - 1]
  /\ quiet' = [quiet EXCEPT ![p] = TRUE]
  /\ queue' = [queue EXCEPT ![p] = IF quiet[p] THEN @ ELSE @ + 1]
  /\ UNCHANGED <<saved, clicks, phase, cfg, watches, menu, turn, exiting, busy,
                 history>>

(* Mutant: last_fired is set before it is compared. *)
ReceiveAfterMark(p) ==
  /\ phase[p] = "running"
  /\ notices[p] > 0
  /\ notices' = [notices EXCEPT ![p] = @ - 1]
  /\ quiet' = [quiet EXCEPT ![p] = TRUE]
  /\ queue' = [queue EXCEPT ![p] = IF quiet'[p] THEN @ ELSE @ + 1]
  /\ UNCHANGED <<saved, clicks, phase, cfg, watches, menu, turn, exiting, busy,
                 history>>

(* The watcher's thread: a notification within 400 ms of the last firing   *)
(* is dropped.                                                             *)
Receive(p) ==
  /\ phase[p] = "running"
  /\ notices[p] > 0
  /\ notices' = [notices EXCEPT ![p] = @ - 1]
  /\ quiet' = [quiet EXCEPT ![p] = TRUE]
  /\ queue' = [queue EXCEPT ![p] = IF quiet[p] THEN @ ELSE @ + 1]
  /\ UNCHANGED <<saved, clicks, phase, cfg, watches, menu, turn, exiting, busy,
                 history>>

Lapse(p) ==
  /\ quiet[p]
  /\ quiet' = [quiet EXCEPT ![p] = FALSE]
  /\ UNCHANGED <<saved, clicks, phase, cfg, watches, notices, loopVars,
                 history>>

-----------------------------------------------------------------------------
(* relaunch_self: `open -n` starts a process that knows nothing of this    *)
(* one; if it fails, nothing but a line in the log tells.                  *)
Relaunch(p, row) ==
  /\ launches' = [launches EXCEPT ![p][row] = @ + 1]
  /\ \/ /\ \E new \in {q \in Procs : phase[q] = "free"} :
             phase' = [phase EXCEPT ![new] = "starting"]
        /\ UNCHANGED failed
     \/ /\ OpenMayFail
        /\ failed' = TRUE
        /\ UNCHANGED phase

Click(p, row) ==
  /\ row \in Rows
  /\ phase[p] = "running"
  /\ ~exiting[p]
  /\ clicks < MaxClicks
  /\ clicks' = clicks + 1
  /\ menu' = [menu EXCEPT ![p] = Append(@, row)]
  /\ UNCHANGED <<saved, phase, cfg, watchVars, queue, turn, exiting, busy,
                 history>>

(* A callback begins: for a ConfigChanged, or for any other event.         *)
Wake(p) ==
  /\ phase[p] = "running"
  /\ turn[p] = "wait"
  /\ \/ /\ queue[p] > 0
        /\ queue' = [queue EXCEPT ![p] = @ - 1]
        /\ turn' = [turn EXCEPT ![p] = "drainChanged"]
     \/ /\ menu[p] # <<>>
        /\ turn' = [turn EXCEPT ![p] = "drain"]
        /\ UNCHANGED queue
  /\ UNCHANGED <<saved, clicks, phase, cfg, watchVars, menu, exiting, busy,
                 history>>

HandleQuit(p) ==
  /\ turn[p] # "wait"
  /\ menu[p] # <<>>
  /\ Head(menu[p]) = "quit"
  /\ menu' = [menu EXCEPT ![p] = Tail(@)]
  /\ exiting' = [exiting EXCEPT ![p] = TRUE]
  /\ quit' = [quit EXCEPT ![p] = TRUE]
  /\ UNCHANGED <<saved, clicks, phase, cfg, watchVars, queue, turn, busy,
                 launches, missed, failed>>

(* The HTTP and listen rows: save, then relaunch whatever RELAUNCH_BUSY    *)
(* says; or the save fails or is refused.                                  *)
HandleToggle(p) ==
  /\ turn[p] # "wait"
  /\ menu[p] # <<>>
  /\ Head(menu[p]) = "toggle"
  /\ menu' = [menu EXCEPT ![p] = Tail(@)]
  /\ \/ /\ WriteConfig
        /\ Relaunch(p, "menu")
        /\ exiting' = [exiting EXCEPT ![p] = TRUE]
     \/ UNCHANGED <<saved, watches, notices, missed, phase, launches, failed,
                    exiting>>
  /\ UNCHANGED <<clicks, cfg, quiet, queue, turn, busy, quit>>

(* The menu is empty: on to the user event the callback was made for.      *)
HandleOther(p) ==
  /\ turn[p] = "drain"
  /\ menu[p] = <<>>
  /\ turn' = [turn EXCEPT ![p] = "wait"]
  /\ UNCHANGED <<saved, clicks, phase, cfg, watchVars, queue, menu, exiting,
                 busy, history>>

(* Mutant: no RELAUNCH_BUSY. *)
HandleChangedAlways(p) ==
  /\ turn[p] = "drainChanged"
  /\ menu[p] = <<>>
  /\ turn' = [turn EXCEPT ![p] = "wait"]
  /\ Relaunch(p, "watcher")
  /\ exiting' = [exiting EXCEPT ![p] = TRUE]
  /\ UNCHANGED <<saved, clicks, cfg, watchVars, queue, menu, busy, quit,
                 missed>>

(* Mutant: exits without a replacement. *)
HandleChangedExits(p) ==
  /\ turn[p] = "drainChanged"
  /\ menu[p] = <<>>
  /\ turn' = [turn EXCEPT ![p] = "wait"]
  /\ exiting' = [exiting EXCEPT ![p] = TRUE]
  /\ UNCHANGED <<saved, clicks, phase, cfg, watchVars, queue, menu, busy,
                 history>>

HandleChanged(p) ==
  /\ turn[p] = "drainChanged"
  /\ menu[p] = <<>>
  /\ turn' = [turn EXCEPT ![p] = "wait"]
  /\ IF busy[p]
     THEN UNCHANGED <<phase, exiting, busy, launches, failed>>
     ELSE /\ busy' = [busy EXCEPT ![p] = TRUE]
          /\ Relaunch(p, "watcher")
          /\ exiting' = [exiting EXCEPT ![p] = TRUE]
  /\ UNCHANGED <<saved, clicks, cfg, watchVars, queue, menu, quit, missed>>

(* The application stops; until then callbacks go on. *)
Exit(p) ==
  /\ phase[p] = "running"
  /\ turn[p] = "wait"
  /\ exiting[p]
  /\ phase' = [phase EXCEPT ![p] = "gone"]
  /\ UNCHANGED <<saved, clicks, cfg, watchVars, loopVars, history>>

Loop(p) ==
  \/ Wake(p)
  \/ HandleQuit(p)
  \/ HandleToggle(p)
  \/ HandleOther(p)
  \/ HandleChanged(p)
  \/ Exit(p)

Next ==
  \/ Save
  \/ \E p \in Procs :
       \/ Load(p)
       \/ Watch(p)
       \/ WatchFails(p)
       \/ Receive(p)
       \/ Lapse(p)
       \/ \E row \in Rows : Click(p, row)
       \/ Loop(p)

Spec == Init /\ [][Next]_vars

(* Every thread runs when it can.  Nobody need save or click.              *)
Fairness ==
  \A p \in Procs :
    /\ WF_vars(Load(p))
    /\ WF_vars(Watch(p) \/ WatchFails(p))
    /\ WF_vars(Receive(p))
    /\ WF_vars(Loop(p))

FairSpec == Spec /\ Fairness

-----------------------------------------------------------------------------
TypeOK ==
  /\ saved \in 0..MaxSaves
  /\ clicks \in 0..MaxClicks
  /\ phase \in [Procs -> {"free", "starting", "loaded", "running", "gone"}]
  /\ cfg \in [Procs -> 0..MaxSaves]
  /\ watches \in [Procs -> BOOLEAN]
  /\ notices \in [Procs -> Nat]
  /\ quiet \in [Procs -> BOOLEAN]
  /\ queue \in [Procs -> Nat]
  /\ menu \in [Procs -> Seq(Rows)]
  /\ turn \in [Procs -> Turns]
  /\ exiting \in [Procs -> BOOLEAN]
  /\ busy \in [Procs -> BOOLEAN]
  /\ launches \in [Procs -> [watcher : Nat, menu : Nat]]
  /\ quit \in [Procs -> BOOLEAN]
  /\ missed \in [Procs -> BOOLEAN]
  /\ failed \in BOOLEAN

(* For its watcher a process starts at most one replacement, however often *)
(* it fires and however long the event loop goes on after Exit (main.rs    *)
(* 601-603).                                                               *)
OneReplacement == \A p \in Procs : launches[p].watcher <= 1

(* A process that watches and does not have what is on disk has been, or   *)
(* will be, told: the 400 ms window drops no last notice (config_watcher   *)
(* 7-9).  The save made before it watched is not its watcher's, and one    *)
(* whose watcher did not start (main.rs 179) is told of nothing.           *)
StaleIsTold ==
  \A p \in Procs :
    /\ phase[p] = "running" /\ watches[p]
    /\ cfg[p] # saved /\ ~missed[p]
    => notices[p] > 0 \/ queue[p] > 0 \/ turn[p] = "drainChanged" \/ exiting[p]

(* Until the user quits it, or `open -n` fails, there is a daemon.         *)
ThereIsADaemon == (\A p \in Procs : ~quit[p]) /\ ~failed => Alive # {}

(* Main.rs 179: without a watcher, and no word of it but in the log.       *)
Unwatched == {p \in Procs : phase[p] = "running" /\ ~watches[p]}

(* Once the saves are over, a daemon that could start its watcher runs     *)
(* with what is on disk (config_watcher.rs 1-4), or with what was there    *)
(* just before the last save, if it was starting then.                     *)
PicksUpEdits ==
  <>[](\A p \in Alive \ Unwatched : cfg[p] = saved \/ missed[p])
=============================================================================
