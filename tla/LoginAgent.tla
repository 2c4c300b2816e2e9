------------------------------ MODULE LoginAgent ------------------------------
(***************************************************************************)
(* Launch at login (app/src/autolaunch.rs): the LaunchAgent's plist, its   *)
(* two writers (the daemon's menu row in main.rs, the editor's Behavior    *)
(* card in gui.rs), launchd, and the processes of the daemon.              *)
(*                                                                         *)
(* A daemon is launchd's job if launchd started it; one started by hand or *)
(* by relaunch_self is not.  relaunch_self starts a process and sets       *)
(* ControlFlow::Exit; the old one goes on for a while, handling the clicks *)
(* and the ConfigChanged events still queued.  No process looks for        *)
(* another one.                                                            *)
(*                                                                         *)
(* launchd is external: it starts its job again, some seconds later, when  *)
(* it crashes but not when it exits cleanly (KeepAlive.SuccessfulExit =    *)
(* false); bootout unloads the job and kills its process, the caller of    *)
(* bootout or not.                                                         *)
(***************************************************************************)
CONSTANTS
  Places,       \* where the application bundle can be
  Nowhere,
  Procs,        \* processes of the daemon that can live at once
  Nobody

ASSUME AgentAssumption ==
  /\ Places # {}
  /\ Nowhere \notin Places
  /\ Nobody \notin Procs

VARIABLES
  loggedIn,
  at,        \* where the bundle is
  plist,     \* the program the plist names; Nowhere if there is no plist
  loaded,    \* the program of the job launchd has in this login session
  job,       \* the process of the job, or Nobody
  owed,      \* is launchd about to start its job?
  killing,   \* has launchd been told to kill the job's process?
  phase,     \* of each process: "none", "running" or "leaving"
  mark,      \* the check mark of each process's menu row
  menu,      \* each menu's handler: "idle", or in the middle of disable()
  editor,    \* the editor: "closed", "idle", or in the middle of disable()
  wanted,    \* history: has the user a daemon, and not quit it?
  others,    \* history: the processes whose row another has overtaken
  crossed    \* history: has a daemon's end crossed a start, and do the
             \* daemons of that time go on?

launchdVars == <<loaded, job, owed, killing>>
rows == <<mark, menu>>
vars == <<loggedIn, at, plist, launchdVars, phase, rows, editor, wanted, others,
          crossed>>

Alive == {p \in Procs : phase[p] # "none"}
Running == {p \in Procs : phase[p] = "running"}

(* Once every daemon has ended, and launchd owes none, nothing is crossed. *)
Crossed(c) == crossed' = (c /\ (Alive' # {} \/ owed'))

Init ==
  /\ loggedIn = FALSE
  /\ at \in Places
  /\ plist \in Places \cup {Nowhere}
  /\ loaded = Nowhere /\ job = Nobody /\ owed = FALSE /\ killing = FALSE
  /\ phase = [p \in Procs |-> "none"]
  /\ mark = [p \in Procs |-> FALSE]
  /\ menu = [p \in Procs |-> "idle"]
  /\ editor = "closed"
  /\ wanted = FALSE /\ others = {} /\ crossed = FALSE

-----------------------------------------------------------------------------
(* How processes come and go *)

(* is_enabled *)
Enabled == plist # Nowhere

(* Process p comes up: it asks once whether launch at login is on, when it *)
(* builds its menu.                                                        *)
Starts(p) ==
  /\ phase[p] = "none"
  /\ mark' = [mark EXCEPT ![p] = Enabled]

(* The processes P end, in whatever they were doing. *)
End(P) ==
  /\ phase' = [p \in Procs |-> IF p \in P THEN "none" ELSE phase[p]]
  /\ mark' = [p \in Procs |-> p \notin P /\ mark[p]]
  /\ menu' = [p \in Procs |-> IF p \in P THEN "idle" ELSE menu[p]]
  /\ others' = others \ P

(* launchd loads the plist, and is to start the program if it is there. *)
LogIn ==
  /\ ~loggedIn
  /\ loggedIn' = TRUE
  /\ loaded' = plist
  /\ owed' = (plist = at)
  /\ wanted' = (plist = at)
  /\ UNCHANGED <<at, plist, job, killing, phase, rows, editor,
                 others, crossed>>

LogOut ==
  /\ loggedIn
  /\ loggedIn' = FALSE
  /\ loaded' = Nowhere /\ job' = Nobody /\ owed' = FALSE /\ killing' = FALSE
  /\ End(Procs)
  /\ editor' = "closed"
  /\ wanted' = FALSE /\ crossed' = FALSE
  /\ UNCHANGED <<at, plist>>

(* The user drags the bundle elsewhere. *)
Move ==
  /\ Alive = {}
  /\ editor = "closed"
  /\ at' \in Places \ {at}
  /\ UNCHANGED <<loggedIn, plist, launchdVars, phase, rows, editor,
                 wanted, others, crossed>>

(* launchd starts its job, if the program is where it was. *)
JobStarts ==
  /\ owed
  /\ owed' = FALSE
  /\ IF loaded = at
     THEN \E p \in Procs :
            /\ Starts(p)
            /\ phase' = [phase EXCEPT ![p] = "running"]
            /\ job' = p
     ELSE UNCHANGED <<job, phase, mark>>
  /\ Crossed(crossed)
  /\ UNCHANGED <<loggedIn, at, plist, loaded, killing, menu, editor,
                 wanted, others>>

(* The user opens the application; if there is a daemon, Finder only       *)
(* brings that to the front.  Of a job that is still to start it knows     *)
(* nothing.                                                                *)
Open ==
  /\ loggedIn
  /\ Alive = {}
  /\ \E p \in Procs :
       /\ Starts(p)
       /\ phase' = [phase EXCEPT ![p] = "running"]
  /\ wanted' = TRUE
  /\ crossed' = (crossed \/ owed)
  /\ UNCHANGED <<loggedIn, at, plist, launchdVars, menu, editor,
                 others>>

-----------------------------------------------------------------------------
(* What a process does on its event loop.  Once it is leaving it still     *)
(* handles what was queued, and so starts and ends cross.                  *)

AtMenu(p) == phase[p] # "none" /\ menu[p] = "idle"

Late(p) == crossed' = (crossed \/ phase[p] = "leaving")

(* The menu's Quit *)
Quit(p) ==
  /\ AtMenu(p)
  /\ phase' = [phase EXCEPT ![p] = "leaving"]
  /\ wanted' = FALSE
  /\ Late(p)
  /\ UNCHANGED <<loggedIn, at, plist, launchdVars, rows, editor,
                 others>>

(* relaunch_self: `open -n` starts a process, or fails to; then the exit.  *)
(* The HTTP and the listen row do so at every click, a ConfigChanged while *)
(* RELAUNCH_BUSY is free: since anyone may write the file at any time, and *)
(* the rows do not look at the flag, it keeps nothing from happening.      *)
Relaunch(p) ==
  /\ AtMenu(p)
  /\ \/ \E q \in Procs :
          /\ Starts(q)
          /\ phase' = [phase EXCEPT ![p] = "leaving", ![q] = "running"]
     \/ phase' = [phase EXCEPT ![p] = "leaving"] /\ UNCHANGED mark
  /\ Late(p)
  /\ UNCHANGED <<loggedIn, at, plist, launchdVars, menu, editor, wanted,
                 others>>

(* Mutant: KeepAlive = true. *)
ExitKeptAlive(p) ==
  /\ phase[p] = "leaving"
  /\ menu[p] = "idle"
  /\ End({p})
  /\ job' = IF job = p THEN Nobody ELSE job
  /\ killing' = (killing /\ job # p)
  /\ owed' = (owed \/ (job = p /\ loaded # Nowhere))
  /\ Crossed(crossed)
  /\ UNCHANGED <<loggedIn, at, plist, loaded, editor, wanted>>

(* The event loop ends: a clean exit. *)
Exit(p) ==
  /\ phase[p] = "leaving"
  /\ menu[p] = "idle"
  /\ End({p})
  /\ job' = IF job = p THEN Nobody ELSE job
  /\ killing' = (killing /\ job # p)
  /\ UNCHANGED owed
  /\ Crossed(crossed)
  /\ UNCHANGED <<loggedIn, at, plist, loaded, editor, wanted>>

(* A process crashes; launchd will start its job again, one that was       *)
(* leaving as well.                                                        *)
Crash(p) ==
  /\ phase[p] # "none"
  /\ End({p})
  /\ IF job = p
     THEN job' = Nobody /\ owed' = (loaded # Nowhere) /\ killing' = FALSE
     ELSE UNCHANGED <<job, owed, killing>>
  /\ Crossed(crossed \/ (job = p /\ phase[p] = "leaving"))
  /\ UNCHANGED <<loggedIn, at, plist, loaded, editor, wanted>>

(* launchctl bootout, and the kill it asks for.  The editor, if the job    *)
(* started it, may be killed with it.                                      *)
Bootout ==
  /\ loaded' = Nowhere
  /\ owed' = FALSE
  /\ killing' = (job # Nobody)

Kill ==
  /\ killing
  /\ killing' = FALSE
  /\ job' = Nobody
  /\ End({job})
  /\ editor' \in {editor, "closed"}
  /\ UNCHANGED owed
  /\ Crossed(crossed)
  /\ UNCHANGED <<loggedIn, at, plist, loaded, wanted>>

-----------------------------------------------------------------------------
(* The daemon's menu row.  The click flips the mark before the handler     *)
(* runs; an error puts it back.                                            *)

(* The plist is changed behind the rows of the processes P. *)
Overtakes(P) == others' = others \cup (P \cap Alive)

(* Mutant: enable also loads the job. *)
MenuEnableBootstraps(p) ==
  /\ AtMenu(p)
  /\ ~mark[p]
  /\ \/ /\ plist' = at
        /\ mark' = [mark EXCEPT ![p] = TRUE]
        /\ loaded' = at
        /\ owed' = TRUE
        /\ Overtakes(Procs \ {p})
     \/ UNCHANGED <<plist, mark, others, loaded, owed>>
  /\ UNCHANGED <<loggedIn, at, job, killing, phase, menu, editor,
                 wanted, crossed>>

(* enable writes the plist and does not load the job. *)
MenuEnable(p) ==
  /\ AtMenu(p)
  /\ ~mark[p]
  /\ \/ /\ plist' = at
        /\ mark' = [mark EXCEPT ![p] = TRUE]
        /\ Overtakes(Procs \ {p})
     \/ UNCHANGED <<plist, mark, others>>
  /\ UNCHANGED <<loggedIn, at, launchdVars, phase, menu, editor,
                 wanted, crossed>>

(* disable: nothing to do without a plist; or bootout, *)
MenuDisable(p) ==
  /\ AtMenu(p)
  /\ mark[p]
  /\ mark' = [mark EXCEPT ![p] = FALSE]
  /\ IF Enabled
     THEN Bootout /\ menu' = [menu EXCEPT ![p] = "disabling"]
     ELSE UNCHANGED <<loaded, owed, killing, menu>>
  /\ UNCHANGED <<loggedIn, at, plist, job, phase, editor, wanted,
                 others, crossed>>

(* Mutant: an error leaves the mark as it is. *)
MenuRemoveNoRollback(p) ==
  /\ menu[p] = "disabling"
  /\ menu' = [menu EXCEPT ![p] = "idle"]
  /\ \/ /\ Enabled
        /\ plist' = Nowhere
        /\ Overtakes(Procs \ {p})
     \/ UNCHANGED <<plist, others>>
  /\ UNCHANGED <<loggedIn, at, launchdVars, phase, mark, editor,
                 wanted, crossed>>

(* and then the file is removed, or cannot be. *)
MenuRemove(p) ==
  /\ menu[p] = "disabling"
  /\ menu' = [menu EXCEPT ![p] = "idle"]
  /\ \/ /\ Enabled
        /\ plist' = Nowhere
        /\ Overtakes(Procs \ {p})
        /\ UNCHANGED mark
     \/ /\ mark' = [mark EXCEPT ![p] = TRUE]
        /\ UNCHANGED <<plist, others>>
  /\ UNCHANGED <<loggedIn, at, launchdVars, phase, editor, wanted,
                 crossed>>

-----------------------------------------------------------------------------
(* The editor's toggle, which asks is_enabled each time it is drawn.       *)

(* The daemon refuses a second editor while its child lives (GUI_CHILD,    *)
(* main.rs 909-939).  A daemon that replaces it does not know that child   *)
(* and may open another, which is left out.                                *)
EditorOpen ==
  /\ editor = "closed"
  /\ Alive # {}
  /\ editor' = "idle"
  /\ UNCHANGED <<loggedIn, at, plist, launchdVars, phase, rows,
                 wanted, others, crossed>>

EditorClose ==
  /\ editor = "idle"
  /\ editor' = "closed"
  /\ UNCHANGED <<loggedIn, at, plist, launchdVars, phase, rows,
                 wanted, others, crossed>>

EditorEnable ==
  /\ editor = "idle"
  /\ ~Enabled
  /\ plist' = at
  /\ Overtakes(Procs)
  /\ UNCHANGED <<loggedIn, at, launchdVars, phase, rows, editor,
                 wanted, crossed>>

EditorDisable ==
  /\ editor = "idle"
  /\ Enabled
  /\ Bootout
  /\ editor' = "disabling"
  /\ UNCHANGED <<loggedIn, at, plist, job, phase, rows, wanted,
                 others>>
  /\ Crossed(crossed)

EditorRemove ==
  /\ editor = "disabling"
  /\ editor' = "idle"
  /\ plist' \in {plist, Nowhere}
  /\ Overtakes(Procs)
  /\ UNCHANGED <<loggedIn, at, launchdVars, phase, rows, wanted,
                 crossed>>

Next ==
  \/ LogIn \/ LogOut \/ Move \/ JobStarts \/ Open \/ Kill
  \/ \E p \in Procs :
       \/ Quit(p) \/ Relaunch(p) \/ Exit(p) \/ Crash(p)
       \/ MenuEnable(p) \/ MenuDisable(p) \/ MenuRemove(p)
  \/ EditorOpen \/ EditorClose
  \/ EditorEnable \/ EditorDisable \/ EditorRemove

Spec == Init /\ [][Next]_vars

-----------------------------------------------------------------------------
(* The state is well-formed; launchd's job is a process that lives, and    *)
(* only one that lives is in the middle of something.                      *)
TypeOK ==
  /\ {loggedIn, owed, killing, wanted, crossed} \subseteq BOOLEAN
  /\ at \in Places
  /\ {plist, loaded} \subseteq Places \cup {Nowhere}
  /\ job \in Alive \cup {Nobody}
  /\ phase \in [Procs -> {"none", "running", "leaving"}]
  /\ mark \in [Procs -> BOOLEAN]
  /\ menu \in [Procs -> {"idle", "disabling"}]
  /\ others \subseteq Alive
  /\ editor \in {"closed", "idle", "disabling"}
  /\ \A p \in Procs : menu[p] # "idle" => p \in Alive
  /\ killing => job # Nobody /\ loaded = Nowhere

(* Two daemons, launchd's and another one, would fight for the ports       *)
(* (autolaunch.rs 10-18): at most one is running that is not on its way    *)
(* out, and launchd is not about to start one next to it, whatever the     *)
(* switches, crashes and relaunches of a session, unless an end has        *)
(* crossed a start: a daemon that was leaving relaunched itself again or   *)
(* crashed as launchd's job, or the user opened one while launchd was      *)
(* about to start its own.                                                 *)
OneDaemon ==
  ~crossed =>
    /\ \A p, q \in Running : p = q
    /\ owed => Running = {}

(* Quit means Quit (autolaunch.rs 6-8): once the user has quit, and until  *)
(* he opens the application or logs in again, no daemon is running but on  *)
(* its way out, and launchd will start none, under the same condition.     *)
QuitMeansQuit == ~wanted /\ ~crossed => Running = {} /\ ~owed

(* A row's mark tells whether launch at login is on, through failures of   *)
(* enable and disable (main.rs 370-403), as long as neither the editor nor *)
(* another daemon's row has changed that since the menu was built.         *)
MarkAgrees ==
  \A p \in Alive \ others : menu[p] = "idle" => mark[p] = Enabled

=============================================================================
