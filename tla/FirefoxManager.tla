---------------------------- MODULE FirefoxManager ----------------------------
(***************************************************************************)
(* The daemon's Firefox menu (app/src/firefox.rs and its rows in main.rs): *)
(* installing and uninstalling, next to everything that starts and ends a  *)
(* daemon (LoginAgent).                                                    *)
(*                                                                         *)
(* An install is a thread of a daemon.  It ends with the daemon's process, *)
(* without running its destructors; the command it waits for (ditto) may   *)
(* go on alone.  The busy flag is a static of the process, so the daemon   *)
(* that is leaving and its replacement may both be installing, through one *)
(* image in the temporary directory.                                       *)
(*                                                                         *)
(* Of the bundle only what matters to the tunnel is modelled: absent,      *)
(* incomplete, whole without the policy that locks its proxy, or whole     *)
(* with it.  The Homebrew cask and Finder's Trash remove it alike.         *)
(***************************************************************************)
EXTENDS LoginAgent, Naturals, FiniteSets

CONSTANT Threads   \* names for the install threads of one process

VARIABLES
  bundle,     \* /Applications/Firefox.app
  thread,     \* of each process, the step each install thread is at
  busy,       \* the processes whose FIREFOX_INSTALL_BUSY is set
  dmg,        \* is there a belka-firefox.dmg?
  mounted,    \* the processes that hold a mounted volume
  left,       \* is a volume mounted that no install will eject?
  ditto,      \* is the ditto of a daemon that has ended still copying?
  removing,   \* is Finder or brew removing the bundle?
  shown,      \* the processes that saw Firefox when they built their menu
  ready,      \* history: has the last install said "Firefox is ready"?
  disturbed,  \* history: has another touched the bundle, or the policy failed?
  excused     \* history: has an install not been able to clean up?

disk == <<bundle, dmg, left>>
installer == <<thread, busy, mounted>>
history == <<ready, disturbed, excused>>
firefox == <<disk, installer, ditto, removing, shown, history>>

Steps == {"download", "attach", "replace", "copy", "policy"}
AtWork(p) == {t \in Threads : thread[p][t] # "idle"}

FirefoxInit ==
  /\ bundle \in {"absent", "bare"}
  /\ thread = [p \in Procs |-> [t \in Threads |-> "idle"]]
  /\ busy = {} /\ mounted = {} /\ shown = {}
  /\ dmg = FALSE /\ left = FALSE
  /\ ditto = FALSE /\ removing = FALSE
  /\ ready = FALSE /\ disturbed = FALSE /\ excused = FALSE

-----------------------------------------------------------------------------
(* The daemon and its process *)

(* detect *)
Shown == bundle # "absent"

Working(P) == \E p \in P : AtWork(p) # {}
At(P, step) == \E p \in P, t \in Threads : thread[p][t] = step

(* Mutant: the flag is a file of the user's and not a static of the        *)
(* process.                                                                *)
FlagOutlives(P) ==
  /\ thread' = [p \in Procs |->
                 IF p \in P THEN [t \in Threads |-> "idle"] ELSE thread[p]]
  /\ mounted' = mounted \ P
  /\ left' \in {left \/ mounted \cap P # {}}
                 \cup (IF At(P, "attach") THEN {TRUE} ELSE {})
  /\ excused' = (excused \/ Working(P))
  /\ UNCHANGED busy

(* The threads of P stop where they are, and leave the image and the       *)
(* volume; an hdiutil may still mount it.                                  *)
ThreadsStop(P) ==
  /\ thread' = [p \in Procs |->
                 IF p \in P THEN [t \in Threads |-> "idle"] ELSE thread[p]]
  /\ busy' = busy \ P
  /\ mounted' = mounted \ P
  /\ left' \in {left \/ mounted \cap P # {}}
                 \cup (IF At(P, "attach") THEN {TRUE} ELSE {})
  /\ excused' = (excused \/ Working(P))

(* The processes P end.  What remove_dir_all had begun stays half done; a  *)
(* ditto goes on, or ends with its parent.                                 *)
ProcessesEnd(P) ==
  /\ ThreadsStop(P)
  /\ \/ ditto' = (ditto \/ At(P, "copy")) /\ UNCHANGED bundle
     \/ At(P, "copy") /\ bundle' = "half" /\ UNCHANGED ditto
     \/ At(P, "replace") /\ Shown /\ bundle' = "half" /\ UNCHANGED ditto
  /\ disturbed' = (disturbed \/ Working(P))
  /\ UNCHANGED <<dmg, ready>>

(* Daemons come and go; one that comes looks for Firefox.  A relaunch may  *)
(* also come from the thread that waits for Homebrew: that only sends a    *)
(* ConfigChanged.                                                          *)
Life ==
  /\ \/ JobStarts \/ Open \/ Kill
     \/ \E p \in Procs :
          Quit(p) \/ Relaunch(p) \/ Exit(p) \/ Crash(p)
  /\ ProcessesEnd(Alive \ Alive')
  /\ shown' = {p \in Alive' : IF p \in Alive THEN p \in shown ELSE Shown}
  /\ UNCHANGED removing

(* The commands end with the login session as well. *)
SessionEnds ==
  /\ LogOut
  /\ ThreadsStop(Procs)
  /\ ditto' = FALSE /\ removing' = FALSE /\ shown' = {}
  /\ \/ UNCHANGED bundle
     \/ /\ ditto \/ removing \/ At(Procs, "replace") \/ At(Procs, "copy")
        /\ bundle' = "half"
  /\ disturbed' = (disturbed \/ Working(Procs) \/ ditto \/ removing)
  /\ UNCHANGED <<dmg, ready>>

(* What goes on without touching Firefox. *)
Apart ==
  /\ \/ Move \/ LogIn
     \/ \E p \in Procs : MenuEnable(p) \/ MenuDisable(p) \/ MenuRemove(p)
     \/ EditorOpen \/ EditorClose
     \/ EditorEnable \/ EditorDisable \/ EditorRemove
  /\ UNCHANGED firefox

-----------------------------------------------------------------------------
(* Installing *)

(* Mutant: the flag is not looked at. *)
ClickInstallAgain(p) ==
  /\ AtMenu(p)
  /\ \E t \in Threads \ AtWork(p) :
       thread' = [thread EXCEPT ![p][t] = "download"]
  /\ busy' = busy \cup {p}
  /\ dmg' = TRUE
  /\ ready' = FALSE
  /\ disturbed' = (ditto \/ removing \/ Working(Procs))
  /\ UNCHANGED <<bundle, mounted, left, ditto, removing, shown, excused, vars>>

(* The row: refused while the flag is set, else a thread that holds it and *)
(* starts to download, over what an earlier one left.                      *)
ClickInstall(p) ==
  /\ AtMenu(p)
  /\ p \notin busy
  /\ \E t \in Threads \ AtWork(p) :
       thread' = [thread EXCEPT ![p][t] = "download"]
  /\ busy' = busy \cup {p}
  /\ dmg' = TRUE
  /\ ready' = FALSE
  /\ disturbed' = (ditto \/ removing \/ Working(Procs))
  /\ UNCHANGED <<bundle, mounted, left, ditto, removing, shown, excused, vars>>

Goes(p, t, to) == thread' = [thread EXCEPT ![p][t] = to] /\ UNCHANGED busy

(* BusyFlagGuard's destructor, on every way out. *)
Ends(p, t) == thread' = [thread EXCEPT ![p][t] = "idle"] /\ busy' = busy \ {p}

(* The destructors of DmgMount and TempFile, on every way out of           *)
(* install_firefox_direct; whether hdiutil detach and remove_file succeed  *)
(* is not looked at.                                                       *)
CleanUp(p) ==
  /\ mounted' = mounted \ {p}
  /\ \E undetached, undeleted \in BOOLEAN :
       /\ undetached => p \in mounted
       /\ undeleted => dmg
       /\ left' = (left \/ undetached)
       /\ dmg' = undeleted
       /\ excused' = (excused \/ undetached \/ undeleted)

rest == <<ditto, removing, shown, disturbed, vars>>

Download(p, t) ==
  /\ thread[p][t] = "download"
  /\ \/ /\ Goes(p, t, "attach")
        /\ dmg' \in {dmg, TRUE}
        /\ UNCHANGED <<mounted, left, excused>>
     \/ CleanUp(p) /\ Ends(p, t)
  /\ UNCHANGED <<bundle, ready, rest>>

(* Mutant: no destructors; only the last step cleans up. *)
AttachLeaks(p, t) ==
  /\ thread[p][t] = "attach"
  /\ \/ /\ dmg
        /\ mounted' = mounted \cup {p}
        /\ Goes(p, t, "replace")
     \/ Ends(p, t) /\ UNCHANGED mounted
  /\ UNCHANGED <<bundle, dmg, left, excused, ready, rest>>

(* hdiutil attach: the volume is mounted, or it is not, or it is mounted   *)
(* and its mount point is not found in what hdiutil prints, in which case  *)
(* there is no DmgMount to eject it.  It may also lack the bundle.         *)
Attach(p, t) ==
  /\ thread[p][t] = "attach"
  /\ \/ /\ dmg
        /\ mounted' = mounted \cup {p}
        /\ Goes(p, t, "replace")
        /\ UNCHANGED <<dmg, left, excused>>
     \/ CleanUp(p) /\ Ends(p, t)
     \/ /\ dmg
        /\ left' = TRUE /\ excused' = TRUE
        /\ dmg' \in BOOLEAN
        /\ Ends(p, t)
        /\ UNCHANGED mounted
  /\ UNCHANGED <<bundle, ready, rest>>

(* The old bundle is removed; if that fails, some of it may be gone. *)
Replace(p, t) ==
  /\ thread[p][t] = "replace"
  /\ \/ /\ bundle' = "absent"
        /\ Goes(p, t, "copy")
        /\ UNCHANGED <<dmg, mounted, left, excused>>
     \/ /\ Shown
        /\ bundle' \in {bundle, "half"}
        /\ CleanUp(p) /\ Ends(p, t)
  /\ UNCHANGED <<ready, rest>>

(* ditto, which copies into a bundle that has come back meanwhile. *)
Copy(p, t) ==
  /\ thread[p][t] = "copy"
  /\ CleanUp(p)
  /\ \/ /\ bundle' \in {"bare"} \cup ({bundle} \cap {"locked"})
        /\ Goes(p, t, "policy")
     \/ bundle' \in {bundle, "half"} /\ Ends(p, t)
  /\ UNCHANGED <<ready, rest>>

(* Mutant: the policy is only written to a bundle that was there already.  *)
PolicyIfShown(p, t) ==
  /\ thread[p][t] = "policy"
  /\ bundle' = IF p \in shown /\ bundle = "bare" THEN "locked" ELSE bundle
  /\ ready' = TRUE
  /\ Ends(p, t)
  /\ UNCHANGED <<dmg, mounted, left, excused, rest>>

(* The policy: into whatever bundle is there, and into a new directory if  *)
(* none is.  A failure is only logged.                                     *)
Policy(p, t) ==
  /\ thread[p][t] = "policy"
  /\ \/ /\ bundle' = IF bundle \in {"bare", "locked"} THEN "locked" ELSE "half"
        /\ UNCHANGED disturbed
     \/ disturbed' = TRUE /\ UNCHANGED bundle
  /\ ready' = TRUE
  /\ Ends(p, t)
  /\ UNCHANGED <<dmg, mounted, left, excused, ditto, removing, shown, vars>>

(* The ditto of a daemon that has ended comes to its end, or fails.        *)
DittoEnds ==
  /\ ditto
  /\ ditto' = FALSE
  /\ bundle' \in {"half", "bare"} \cup ({bundle} \cap {"locked"})
  /\ disturbed' = TRUE
  /\ UNCHANGED <<dmg, left, installer, removing, shown, ready, excused, vars>>

-----------------------------------------------------------------------------
(* Uninstalling.  The row is enabled if Firefox was there when the menu    *)
(* was built; it looks again, and takes no flag.                           *)
ClickUninstall(p) ==
  /\ AtMenu(p)
  /\ p \in shown
  /\ Shown
  /\ removing' = TRUE
  /\ disturbed' = TRUE
  /\ UNCHANGED <<disk, installer, ditto, shown, ready, excused, vars>>

UninstallEnds ==
  /\ removing
  /\ removing' = FALSE
  /\ bundle' \in {bundle, "absent"}
  /\ disturbed' = TRUE
  /\ UNCHANGED <<dmg, left, installer, ditto, shown, ready, excused, vars>>

-----------------------------------------------------------------------------
DesktopInit == Init /\ FirefoxInit

InstallStep(p, t) ==
  \/ Download(p, t) \/ Attach(p, t) \/ Replace(p, t)
  \/ Copy(p, t) \/ Policy(p, t)

DesktopNext ==
  \/ Life \/ SessionEnds \/ Apart
  \/ \E p \in Procs :
       \/ ClickInstall(p) \/ ClickUninstall(p)
       \/ \E t \in Threads : InstallStep(p, t)
  \/ DittoEnds \/ UninstallEnds

DesktopSpec == DesktopInit /\ [][DesktopNext]_<<vars, firefox>>

-----------------------------------------------------------------------------
(* The state of both is well-formed; only a process that lives installs    *)
(* (main.rs 36-40: the flag is a static of the process).                   *)
DesktopTypeOK ==
  /\ TypeOK
  /\ bundle \in {"absent", "half", "bare", "locked"}
  /\ thread \in [Procs -> [Threads -> {"idle"} \cup Steps]]
  /\ busy \cup mounted \cup shown \subseteq Alive
  /\ {dmg, left, ditto, removing, ready, disturbed, excused} \subseteq BOOLEAN

(* "Firefox is ready ... enforced by enterprise policy" (firefox.rs        *)
(* 145-148): what is announced is a whole bundle with its policy, and      *)
(* stays so, unless the policy could not be written or something else      *)
(* touched the bundle meanwhile: an uninstall, another daemon's install,   *)
(* or the ditto of a daemon that ended in the middle of one.               *)
ReadyIsLocked == ready /\ ~disturbed => bundle = "locked"

(* Neither the volume nor the downloaded image outlives the install        *)
(* (firefox.rs 275-345), however it ends, unless its process ended or      *)
(* hdiutil or the file system would not have it.                           *)
NothingLeft ==
  /\ \A p \in mounted : AtWork(p) # {}
  /\ dmg => Working(Procs) \/ excused
  /\ left => excused

(* One process never has two installs at work, and the flag is set just    *)
(* when it has one (main.rs 22-40, 417-444), through relaunches, crashes   *)
(* and failures.                                                           *)
OneInstaller ==
  \A p \in Procs : Cardinality(AtWork(p)) = IF p \in busy THEN 1 ELSE 0

=============================================================================
