--------------------------- MODULE LoginAgentProofs ---------------------------
(***************************************************************************)
(* For any number of places for the bundle, of processes of the daemon at  *)
(* once and of install threads: no two daemons and none that the user has  *)
(* quit as long as no end crosses a start, and an honest mark; in each     *)
(* process one install at work at a time, nothing left behind that could   *)
(* be cleaned up, and a locked browser when it says so.                    *)
(***************************************************************************)
EXTENDS FirefoxManager, FiniteSetTheorems, TLAPS

(* A login session is over when its daemons are.                           *)
NoneLoggedOut == ~loggedIn => Alive = {} /\ ~owed

(* In the middle of disable() the row's mark is off and the plist, unless  *)
(* another has touched it, is there.                                       *)
InDisable ==
  \A p \in Alive \ others : menu[p] = "disabling" => ~mark[p] /\ Enabled

AgentInv ==
  /\ TypeOK
  /\ OneDaemon
  /\ QuitMeansQuit
  /\ MarkAgrees
  /\ NoneLoggedOut
  /\ InDisable

LEMMA AgentInvInit == Init => AgentInv
BY AgentAssumption
DEF Init, AgentInv, TypeOK, OneDaemon, QuitMeansQuit, MarkAgrees, Alive,
    Running, NoneLoggedOut, InDisable

-----------------------------------------------------------------------------
(* Daemons start and end.                                                  *)

LEMMA LogInKeeps ==
  ASSUME AgentInv, LogIn
  PROVE  AgentInv'
BY AgentAssumption
DEF AgentInv, TypeOK, OneDaemon, QuitMeansQuit, MarkAgrees, Alive, Running,
    NoneLoggedOut, InDisable, Enabled, LogIn, rows

LEMMA LogOutKeeps ==
  ASSUME AgentInv, LogOut
  PROVE  AgentInv'
BY AgentAssumption
DEF AgentInv, TypeOK, OneDaemon, QuitMeansQuit, MarkAgrees, Alive, Running,
    NoneLoggedOut, InDisable, Enabled, LogOut, End

LEMMA MoveKeeps ==
  ASSUME AgentInv, Move
  PROVE  AgentInv'
BY AgentAssumption
DEF AgentInv, TypeOK, OneDaemon, QuitMeansQuit, MarkAgrees, Alive, Running,
    NoneLoggedOut, InDisable, Enabled, Move, rows, launchdVars

LEMMA JobStartsKeeps ==
  ASSUME AgentInv, JobStarts
  PROVE  AgentInv'
<1> USE AgentAssumption
    DEF AgentInv, Alive, Running, JobStarts, Starts, Crossed
<1>1. TypeOK'
  BY DEF TypeOK, Enabled
<1>2. OneDaemon'
  BY DEF TypeOK, OneDaemon, QuitMeansQuit
<1>3. QuitMeansQuit'
  BY DEF TypeOK, OneDaemon, QuitMeansQuit
<1>4. MarkAgrees' /\ InDisable'
  BY DEF TypeOK, MarkAgrees, InDisable, Enabled
<1>5. NoneLoggedOut'
  BY DEF TypeOK, NoneLoggedOut
<1> QED
  BY <1>1, <1>2, <1>3, <1>4, <1>5

LEMMA OpenKeeps ==
  ASSUME AgentInv, Open
  PROVE  AgentInv'
BY AgentAssumption
DEF AgentInv, TypeOK, OneDaemon, QuitMeansQuit, MarkAgrees, Alive, Running,
    NoneLoggedOut, InDisable, Enabled, Open, Starts, launchdVars

LEMMA QuitKeeps ==
  ASSUME AgentInv, NEW p \in Procs, Quit(p)
  PROVE  AgentInv'
<1> USE AgentAssumption
    DEF AgentInv, Alive, Running, Quit, AtMenu, Late, launchdVars, rows
<1>1. TypeOK'
  BY DEF TypeOK, Enabled
<1>2. OneDaemon'
  BY DEF TypeOK, OneDaemon, QuitMeansQuit
<1>3. QuitMeansQuit'
  BY DEF TypeOK, OneDaemon, QuitMeansQuit
<1>4. MarkAgrees' /\ InDisable'
  BY DEF TypeOK, MarkAgrees, InDisable, Enabled
<1>5. NoneLoggedOut'
  BY DEF TypeOK, NoneLoggedOut
<1> QED
  BY <1>1, <1>2, <1>3, <1>4, <1>5

LEMMA RelaunchKeeps ==
  ASSUME AgentInv, NEW p \in Procs, Relaunch(p)
  PROVE  AgentInv'
<1> USE AgentAssumption
    DEF AgentInv, Alive, Running, Relaunch, Starts, AtMenu, Late, launchdVars
<1>1. TypeOK'
  BY DEF TypeOK, Enabled
<1>2. OneDaemon'
  BY DEF TypeOK, OneDaemon, QuitMeansQuit
<1>3. QuitMeansQuit'
  BY DEF TypeOK, OneDaemon, QuitMeansQuit
<1>4. MarkAgrees' /\ InDisable'
  BY DEF TypeOK, MarkAgrees, InDisable, Enabled
<1>5. NoneLoggedOut'
  BY DEF TypeOK, NoneLoggedOut
<1> QED
  BY <1>1, <1>2, <1>3, <1>4, <1>5

LEMMA ExitKeeps ==
  ASSUME AgentInv, NEW p \in Procs, Exit(p)
  PROVE  AgentInv'
BY AgentAssumption
DEF AgentInv, TypeOK, OneDaemon, QuitMeansQuit, MarkAgrees, Alive, Running,
    NoneLoggedOut, InDisable, Enabled, Exit, End, Crossed

LEMMA CrashKeeps ==
  ASSUME AgentInv, NEW p \in Procs, Crash(p)
  PROVE  AgentInv'
<1> USE AgentAssumption
    DEF AgentInv, Alive, Running, Crash, End, Crossed
<1>1. TypeOK'
  BY DEF TypeOK, Enabled
<1>2. OneDaemon'
  BY DEF TypeOK, OneDaemon, QuitMeansQuit
<1>3. QuitMeansQuit'
  BY DEF TypeOK, OneDaemon, QuitMeansQuit
<1>4. MarkAgrees' /\ InDisable'
  BY DEF TypeOK, MarkAgrees, InDisable, Enabled
<1>5. NoneLoggedOut'
  BY DEF TypeOK, NoneLoggedOut
<1> QED
  BY <1>1, <1>2, <1>3, <1>4, <1>5

LEMMA KillKeeps ==
  ASSUME AgentInv, Kill
  PROVE  AgentInv'
BY AgentAssumption
DEF AgentInv, TypeOK, OneDaemon, QuitMeansQuit, MarkAgrees, Alive, Running,
    NoneLoggedOut, InDisable, Enabled, Kill, End, Crossed

-----------------------------------------------------------------------------
(* The two switches *)

LEMMA MenuKeeps ==
  ASSUME AgentInv, NEW p \in Procs,
         MenuEnable(p) \/ MenuDisable(p) \/ MenuRemove(p)
  PROVE  AgentInv'
<1> USE AgentAssumption DEF AgentInv, AtMenu, launchdVars
<1>1. CASE MenuEnable(p)
  <2> USE <1>1 DEF MenuEnable
  <2>1. Alive' = Alive /\ Running' = Running
    BY DEF Alive, Running
  <2>2. others' \subseteq Alive
    BY DEF TypeOK, Overtakes
  <2>3. TypeOK'
    <3>1. plist' \in Places \cup {Nowhere} /\ mark' \in [Procs -> BOOLEAN]
      BY DEF TypeOK
    <3> QED
      BY <2>1, <2>2, <3>1 DEF TypeOK
  <2>4. OneDaemon' /\ QuitMeansQuit' /\ NoneLoggedOut'
    BY <2>1 DEF OneDaemon, QuitMeansQuit, NoneLoggedOut, Alive
  <2>5. MarkAgrees' /\ InDisable'
    <3>1. \A q \in Procs \ {p} : mark'[q] = mark[q] /\ menu'[q] = menu[q]
      BY DEF TypeOK
    <3>2. others \subseteq others' /\ Alive \subseteq Procs
      BY DEF Overtakes, Alive
    <3>3. plist' # plist => \A q \in Alive \ {p} : q \in others'
      BY <3>2 DEF Overtakes
    <3>4. \A q \in Alive \ others' : q # p =>
            /\ menu'[q] = "idle" => mark'[q] = Enabled'
            /\ menu'[q] = "disabling" => ~mark'[q] /\ Enabled'
      BY <3>1, <3>2, <3>3 DEF MarkAgrees, InDisable, Enabled
    <3>5. p \in Alive \ others' =>
            /\ menu'[p] = "idle" => mark'[p] = Enabled'
            /\ menu'[p] = "disabling" => ~mark'[p] /\ Enabled'
      BY <3>2 DEF TypeOK, MarkAgrees, InDisable, Enabled
    <3> QED
      BY <2>1, <3>4, <3>5 DEF MarkAgrees, InDisable
  <2> QED
    BY <2>3, <2>4, <2>5
<1>2. CASE MenuDisable(p)
  <2> USE <1>2 DEF MenuDisable, Bootout
  <2>1. Alive' = Alive /\ Running' = Running
    BY DEF Alive, Running
  <2>2. others' \subseteq Alive
    BY DEF TypeOK, Overtakes
  <2>3. TypeOK'
    BY <2>1, <2>2 DEF TypeOK, Alive, Enabled
  <2>4. OneDaemon' /\ QuitMeansQuit' /\ NoneLoggedOut'
    BY <2>1 DEF OneDaemon, QuitMeansQuit, NoneLoggedOut, Alive
  <2>5. MarkAgrees' /\ InDisable'
    <3>1. \A q \in Procs \ {p} : mark'[q] = mark[q] /\ menu'[q] = menu[q]
      BY DEF TypeOK
    <3>2. others \subseteq others' /\ Alive \subseteq Procs
      BY DEF Overtakes, Alive
    <3>3. plist' # plist => \A q \in Alive \ {p} : q \in others'
      BY <3>2 DEF Overtakes
    <3>4. \A q \in Alive \ others' : q # p =>
            /\ menu'[q] = "idle" => mark'[q] = Enabled'
            /\ menu'[q] = "disabling" => ~mark'[q] /\ Enabled'
      BY <3>1, <3>2, <3>3 DEF MarkAgrees, InDisable, Enabled
    <3>5. p \in Alive \ others' =>
            /\ menu'[p] = "idle" => mark'[p] = Enabled'
            /\ menu'[p] = "disabling" => ~mark'[p] /\ Enabled'
      BY <3>2 DEF TypeOK, MarkAgrees, InDisable, Enabled
    <3> QED
      BY <2>1, <3>4, <3>5 DEF MarkAgrees, InDisable
  <2> QED
    BY <2>3, <2>4, <2>5
<1>3. CASE MenuRemove(p)
  <2> USE <1>3 DEF MenuRemove
  <2>1. Alive' = Alive /\ Running' = Running
    BY DEF Alive, Running
  <2>2. others' \subseteq Alive
    BY DEF TypeOK, Overtakes
  <2>3. TypeOK'
    <3>1. /\ menu' \in [Procs -> {"idle", "disabling"}]
          /\ \A q \in Procs : menu'[q] # "idle" => menu[q] # "idle"
          /\ mark' \in [Procs -> BOOLEAN]
          /\ plist' \in {plist, Nowhere}
      BY DEF TypeOK
    <3> QED
      BY <2>1, <2>2, <3>1 DEF TypeOK
  <2>4. OneDaemon' /\ QuitMeansQuit' /\ NoneLoggedOut'
    BY <2>1 DEF OneDaemon, QuitMeansQuit, NoneLoggedOut, Alive
  <2>5. MarkAgrees' /\ InDisable'
    <3>1. \A q \in Procs \ {p} : mark'[q] = mark[q] /\ menu'[q] = menu[q]
      BY DEF TypeOK
    <3>2. others \subseteq others' /\ Alive \subseteq Procs
      BY DEF Overtakes, Alive
    <3>3. plist' # plist => \A q \in Alive \ {p} : q \in others'
      BY <3>2 DEF Overtakes
    <3>4. \A q \in Alive \ others' : q # p =>
            /\ menu'[q] = "idle" => mark'[q] = Enabled'
            /\ menu'[q] = "disabling" => ~mark'[q] /\ Enabled'
      BY <3>1, <3>2, <3>3 DEF MarkAgrees, InDisable, Enabled
    <3>5. p \in Alive \ others' =>
            /\ menu'[p] = "idle" => mark'[p] = Enabled'
            /\ menu'[p] = "disabling" => ~mark'[p] /\ Enabled'
      BY <3>2 DEF TypeOK, MarkAgrees, InDisable, Enabled
    <3> QED
      BY <2>1, <3>4, <3>5 DEF MarkAgrees, InDisable
  <2> QED
    BY <2>3, <2>4, <2>5
<1> QED
  BY <1>1, <1>2, <1>3

LEMMA EditorKeeps ==
  ASSUME AgentInv,
         \/ EditorOpen \/ EditorClose
         \/ EditorEnable \/ EditorDisable \/ EditorRemove
  PROVE  AgentInv'
<1> USE AgentAssumption
    DEF AgentInv, TypeOK, OneDaemon, QuitMeansQuit, MarkAgrees, Alive, Running,
        NoneLoggedOut, InDisable, Enabled, Overtakes, launchdVars, rows
<1>1. CASE EditorOpen
  BY <1>1 DEF EditorOpen
<1>2. CASE EditorClose
  BY <1>2 DEF EditorClose
<1>3. CASE EditorEnable
  BY <1>3 DEF EditorEnable
<1>4. CASE EditorDisable
  BY <1>4 DEF EditorDisable, Bootout, Crossed
<1>5. CASE EditorRemove
  BY <1>5 DEF EditorRemove
<1> QED
  BY <1>1, <1>2, <1>3, <1>4, <1>5

LEMMA AgentInvStep ==
  ASSUME AgentInv, [Next]_vars
  PROVE  AgentInv'
<1>1. CASE UNCHANGED vars
  BY <1>1
  DEF AgentInv, TypeOK, OneDaemon, QuitMeansQuit, MarkAgrees, Alive, Running,
      NoneLoggedOut, InDisable, Enabled, launchdVars, rows, vars
<1> QED
  BY <1>1, LogInKeeps, LogOutKeeps, MoveKeeps, JobStartsKeeps, OpenKeeps,
     QuitKeeps, RelaunchKeeps, ExitKeeps, CrashKeeps, KillKeeps, MenuKeeps,
     EditorKeeps
  DEF Next

-----------------------------------------------------------------------------
(* What the Firefox menu does is no step of LoginAgent.                    *)

LEMMA DesktopIsAgent ==
  ASSUME [DesktopNext]_<<vars, firefox>>
  PROVE  [Next]_vars
<1>1. CASE Life \/ SessionEnds \/ Apart
  BY <1>1 DEF Life, SessionEnds, Apart, Next
<1>2. ASSUME NEW p \in Procs,
             \/ ClickInstall(p) \/ ClickUninstall(p)
             \/ \E t \in Threads : InstallStep(p, t)
      PROVE  UNCHANGED vars
  BY <1>2 DEF ClickInstall, ClickUninstall, InstallStep, Download, Attach,
              Replace, Copy, Policy, rest
<1>3. CASE DittoEnds \/ UninstallEnds
  BY <1>3 DEF DittoEnds, UninstallEnds
<1> QED
  BY <1>1, <1>2, <1>3 DEF DesktopNext

LEMMA AgentInvariant == DesktopSpec => []AgentInv
<1>1. DesktopInit => AgentInv
  BY AgentInvInit DEF DesktopInit
<1>2. AgentInv /\ [DesktopNext]_<<vars, firefox>> => AgentInv'
  BY DesktopIsAgent, AgentInvStep
<1> QED
  BY <1>1, <1>2, PTL DEF DesktopSpec

(* No switch, crash or relaunch puts two daemons next to each other unless *)
(* an end has crossed a start (autolaunch.rs 10-18).                       *)
THEOREM NeverTwoDaemons == DesktopSpec => []OneDaemon
<1>1. AgentInv => OneDaemon
  BY DEF AgentInv
<1> QED
  BY <1>1, AgentInvariant, PTL

(* Quit means Quit, whoever started the daemon, under the same condition   *)
(* (autolaunch.rs 6-8).                                                    *)
THEOREM QuitIsQuit == DesktopSpec => []QuitMeansQuit
<1>1. AgentInv => QuitMeansQuit
  BY DEF AgentInv
<1> QED
  BY <1>1, AgentInvariant, PTL

(* A row's mark tells whether the plist exists, as long as nobody else     *)
(* changes that (main.rs 370-403).                                         *)
THEOREM MarkIsHonest == DesktopSpec => []MarkAgrees
<1>1. AgentInv => MarkAgrees
  BY DEF AgentInv
<1> QED
  BY <1>1, AgentInvariant, PTL

-----------------------------------------------------------------------------
(* The install threads *)

DiskType ==
  /\ bundle \in {"absent", "half", "bare", "locked"}
  /\ thread \in [Procs -> [Threads -> {"idle"} \cup Steps]]
  /\ busy \subseteq Alive /\ mounted \subseteq Alive /\ shown \subseteq Alive
  /\ dmg \in BOOLEAN /\ left \in BOOLEAN
  /\ ditto \in BOOLEAN /\ removing \in BOOLEAN
  /\ ready \in BOOLEAN /\ disturbed \in BOOLEAN /\ excused \in BOOLEAN

(* The flag is set just when a thread of the process is at work, and then  *)
(* that is the only one.                                                   *)
Single ==
  /\ \A p \in busy : \E t \in Threads : thread[p][t] # "idle"
  /\ \A p \in Procs, t \in Threads :
       thread[p][t] # "idle" =>
         /\ p \in busy
         /\ \A u \in Threads : thread[p][u] # "idle" => u = t

(* An undisturbed install is the only one of all processes, and has not    *)
(* said yet that Firefox is ready; the old bundle is gone while it copies, *)
(* and the new one whole when it writes the policy.                        *)
Underway ==
  ~disturbed =>
    /\ \A p, q \in busy : p = q
    /\ \A p \in busy : ~ready
    /\ \A p \in Procs, t \in Threads :
         /\ thread[p][t] = "copy" => bundle = "absent"
         /\ thread[p][t] = "policy" => bundle = "bare"

Leftovers ==
  /\ \A p \in mounted : \E t \in Threads : thread[p][t] \in {"replace", "copy"}
  /\ dmg /\ ~excused =>
       \E p \in Procs, t \in Threads : thread[p][t] \notin {"idle", "policy"}
  /\ left => excused

DiskInv == DiskType /\ Single /\ Underway /\ Leftovers /\ ReadyIsLocked

LEMMA DiskInvInit == FirefoxInit => DiskInv
<1> SUFFICES ASSUME FirefoxInit
             PROVE  DiskInv
  OBVIOUS
<1>1. \A p \in Procs, t \in Threads : thread[p][t] = "idle"
  BY DEF FirefoxInit
<1>2. DiskType
  BY DEF FirefoxInit, DiskType
<1>3. Single /\ Underway /\ Leftovers /\ ReadyIsLocked
  BY <1>1 DEF FirefoxInit, Single, Underway, Leftovers, ReadyIsLocked
<1> QED
  BY <1>2, <1>3 DEF DiskInv

(* Whatever ends processes leaves the install threads of the others alone. *)
LEMMA EndKeeps ==
  ASSUME DiskInv, NEW P \in SUBSET Procs, ThreadsStop(P),
         Alive \ Alive' \subseteq P,
         shown' \subseteq Alive',
         dmg' = dmg, ready' = ready,
         bundle' \in {bundle, "half"},
         ditto' \in BOOLEAN, removing' \in BOOLEAN, disturbed' \in BOOLEAN,
         disturbed => disturbed',
         Working(P) => disturbed',
         bundle' # bundle => disturbed'
  PROVE  DiskInv'
<1> USE DEF DiskInv
<1>1. /\ thread' \in [Procs -> [Threads -> {"idle"} \cup Steps]]
      /\ \A p \in P, t \in Threads : thread'[p][t] = "idle"
      /\ \A p \in Procs \ P : thread'[p] = thread[p]
  BY DEF ThreadsStop, DiskType
<1>2. busy' = busy \ P /\ mounted' = mounted \ P
  BY DEF ThreadsStop
<1>3. \A p \in P, t \in Threads : thread[p][t] # "idle" => Working(P)
  BY DEF Working, AtWork
<1>4. /\ excused' \in BOOLEAN
      /\ excused => excused'
      /\ Working(P) => excused'
  BY DEF ThreadsStop, DiskType
<1>5. left' \in BOOLEAN /\ (left' => excused')
  <2>1. \A p \in P \cap mounted : Working(P)
    BY <1>3 DEF Leftovers
  <2>2. At(P, "attach") => Working(P)
    BY <1>3 DEF At
  <2> QED
    BY <1>4, <2>1, <2>2 DEF ThreadsStop, DiskType, Leftovers
<1>6. DiskType'
  BY <1>1, <1>2, <1>4, <1>5 DEF DiskType
<1>7. Single'
  BY <1>1, <1>2 DEF DiskType, Single, Alive
<1>8. Underway'
  BY <1>1, <1>2, <1>3 DEF Underway
<1>9. Leftovers'
  <2>1. \A p \in mounted' :
          \E t \in Threads : thread'[p][t] \in {"replace", "copy"}
    BY <1>1, <1>2 DEF Leftovers, DiskType, Alive
  <2>2. ASSUME dmg', ~excused'
        PROVE  \E p \in Procs, t \in Threads :
                 thread'[p][t] \notin {"idle", "policy"}
    <3>1. PICK p \in Procs, t \in Threads :
            thread[p][t] \notin {"idle", "policy"}
      BY <1>4, <2>2 DEF Leftovers
    <3>2. p \notin P
      BY <1>3, <1>4, <2>2, <3>1
    <3> QED
      BY <1>1, <3>1, <3>2
  <2> QED
    BY <1>5, <2>1, <2>2 DEF Leftovers
<1>10. ReadyIsLocked'
  BY DEF ReadyIsLocked
<1> QED
  BY <1>6, <1>7, <1>8, <1>9, <1>10

LEMMA LifeKeepsDisk ==
  ASSUME DiskInv, Life \/ SessionEnds
  PROVE  DiskInv'
<1>1. \A P \in SUBSET Procs, step \in Steps : At(P, step) => Working(P)
  BY DEF At, Working, AtWork, Steps
<1>2. CASE Life
  <2> DEFINE P == Alive \ Alive'
  <2>1. P \in SUBSET Procs
    BY DEF Alive
  <2>2. ProcessesEnd(P) /\ shown' \subseteq Alive' /\ removing' = removing
    BY <1>2 DEF Life
  <2> HIDE DEF P
  <2>3. /\ ThreadsStop(P) /\ dmg' = dmg /\ ready' = ready
        /\ bundle' \in {bundle, "half"}
        /\ ditto' \in BOOLEAN /\ removing' \in BOOLEAN /\ disturbed' \in BOOLEAN
        /\ disturbed => disturbed'
        /\ Working(P) => disturbed'
        /\ bundle' # bundle => disturbed'
    BY <1>1, <2>1, <2>2 DEF ProcessesEnd, DiskInv, DiskType, Steps
  <2> QED
    BY <2>1, <2>2, <2>3, EndKeeps DEF P
<1>3. CASE SessionEnds
  <2>1. /\ ThreadsStop(Procs) /\ dmg' = dmg /\ ready' = ready
        /\ shown' = {}
        /\ bundle' \in {bundle, "half"}
        /\ ditto' \in BOOLEAN /\ removing' \in BOOLEAN /\ disturbed' \in BOOLEAN
        /\ disturbed => disturbed'
        /\ Working(Procs) => disturbed'
        /\ bundle' # bundle => disturbed'
    BY <1>1, <1>3 DEF SessionEnds, DiskInv, DiskType, Steps
  <2>2. Alive \ Alive' \subseteq Procs
    BY DEF Alive
  <2> QED
    BY <2>1, <2>2, EndKeeps
<1> QED
  BY <1>2, <1>3

(* The rows, and what others do to the bundle. *)
LEMMA RowsKeep ==
  ASSUME DiskInv,
         \/ Apart \/ DittoEnds \/ UninstallEnds
         \/ \E p \in Procs : ClickInstall(p) \/ ClickUninstall(p)
  PROVE  DiskInv'
<1> USE DEF DiskInv
<1>1. Alive' = Alive
  BY DEF Apart, Move, LogIn, MenuEnable, MenuDisable, MenuRemove, EditorOpen,
         EditorClose, EditorEnable, EditorDisable, EditorRemove, DittoEnds,
         UninstallEnds, ClickInstall, ClickUninstall, vars, Alive
<1>2. CASE Apart
  BY <1>1, <1>2
  DEF Apart, firefox, disk, installer, history, DiskType, Single, Underway,
      Leftovers, ReadyIsLocked
<1>3. CASE \/ DittoEnds \/ UninstallEnds
           \/ \E p \in Procs : ClickUninstall(p)
  <2>1. /\ UNCHANGED <<thread, busy, mounted, dmg, left, shown, ready, excused>>
        /\ ditto' \in BOOLEAN /\ removing' \in BOOLEAN
        /\ bundle' \in {"absent", "half", "bare", "locked"}
        /\ disturbed' = TRUE
    BY <1>3
    DEF DittoEnds, UninstallEnds, ClickUninstall, disk, installer, DiskType
  <2> QED
    BY <1>1, <2>1 DEF DiskType, Single, Underway, Leftovers, ReadyIsLocked
<1>4. ASSUME NEW p \in Procs, ClickInstall(p)
      PROVE  DiskInv'
  <2>1. PICK t \in Threads : thread' = [thread EXCEPT ![p][t] = "download"]
    BY <1>4 DEF ClickInstall
  <2>2. p \in Alive /\ p \notin busy /\ busy' = busy \cup {p}
    BY <1>4 DEF ClickInstall, AtMenu, Alive
  <2>3. /\ thread' \in [Procs -> [Threads -> {"idle"} \cup Steps]]
        /\ thread'[p][t] = "download"
        /\ \A q \in Procs, u \in Threads :
             q # p \/ u # t => thread'[q][u] = thread[q][u]
    BY <2>1 DEF DiskType, Steps
  <2>4. \A u \in Threads : thread[p][u] = "idle"
    BY <2>2 DEF Single
  <2>5. DiskType'
    BY <1>1, <1>4, <2>2, <2>3 DEF ClickInstall, DiskType
  <2>6. Single'
    BY <2>2, <2>3, <2>4 DEF Single, DiskType, Alive
  <2>7. Underway'
    <3>1. ASSUME ~disturbed'
          PROVE  \A q \in Procs, u \in Threads : thread[q][u] = "idle"
      BY <1>4, <3>1 DEF ClickInstall, Working, AtWork
    <3>2. ASSUME ~disturbed'
          PROVE  \A q \in busy : FALSE
      <4>1. busy \subseteq Procs
        BY DEF DiskType, Alive
      <4> QED
        BY <3>1, <3>2, <4>1 DEF Single
    <3> QED
      BY <1>4, <2>2, <2>3, <3>1, <3>2 DEF ClickInstall, Underway
  <2>8. Leftovers'
    <3>1. UNCHANGED <<mounted, left, excused>>
      BY <1>4 DEF ClickInstall
    <3>2. \A q \in mounted : q # p /\ q \in Procs
      BY <2>4 DEF Leftovers, DiskType, Alive
    <3>3. \A q \in mounted' :
            \E u \in Threads : thread'[q][u] \in {"replace", "copy"}
      BY <2>3, <3>1, <3>2 DEF Leftovers
    <3>4. thread'[p][t] \notin {"idle", "policy"}
      BY <2>3
    <3> QED
      BY <3>1, <3>3, <3>4 DEF Leftovers
  <2>9. ReadyIsLocked'
    BY <1>4 DEF ClickInstall, ReadyIsLocked
  <2> QED
    BY <2>5, <2>6, <2>7, <2>8, <2>9
<1> QED
  BY <1>2, <1>3, <1>4

(* One step of a thread leaves it the only one of its process, or ends it. *)
LEMMA StepOfOne ==
  ASSUME DiskInv, NEW p \in Procs, NEW t \in Threads, thread[p][t] # "idle",
         NEW to \in {"idle"} \cup Steps,
         \/ to # "idle" /\ Goes(p, t, to)
         \/ to = "idle" /\ Ends(p, t)
  PROVE  /\ thread' \in [Procs -> [Threads -> {"idle"} \cup Steps]]
         /\ thread'[p][t] = to
         /\ \A q \in Procs, u \in Threads :
              q # p \/ u # t => thread'[q][u] = thread[q][u]
         /\ busy' = IF to = "idle" THEN busy \ {p} ELSE busy
         /\ p \in busy
         /\ Single'
<1> USE DEF DiskInv
<1>1. /\ thread' = [thread EXCEPT ![p][t] = to]
      /\ busy' = IF to = "idle" THEN busy \ {p} ELSE busy
  BY DEF Goes, Ends
<1>2. /\ thread' \in [Procs -> [Threads -> {"idle"} \cup Steps]]
      /\ thread'[p][t] = to
      /\ \A q \in Procs, u \in Threads :
           q # p \/ u # t => thread'[q][u] = thread[q][u]
  BY <1>1 DEF DiskType
<1>3. p \in busy /\ \A u \in Threads : u # t => thread[p][u] = "idle"
  BY DEF Single
<1>4. Single'
  BY <1>1, <1>2, <1>3 DEF Single, DiskType, Alive
<1> QED
  BY <1>1, <1>2, <1>3, <1>4

(* What the destructors leave. *)
LEMMA CleanUpLeaves ==
  ASSUME DiskType, Leftovers, NEW p \in Procs, CleanUp(p)
  PROVE  /\ mounted' = mounted \ {p}
         /\ dmg' \in BOOLEAN /\ left' \in BOOLEAN /\ excused' \in BOOLEAN
         /\ left' => excused'
         /\ dmg' => excused'
<1>1. PICK undetached \in BOOLEAN, undeleted \in BOOLEAN :
        /\ left' = (left \/ undetached)
        /\ dmg' = undeleted
        /\ excused' = (excused \/ undetached \/ undeleted)
  BY DEF CleanUp
<1>2. mounted' = mounted \ {p}
  BY DEF CleanUp
<1> QED
  BY <1>1, <1>2, Zenon DEF DiskType, Leftovers

LEMMA InstallKeeps ==
  ASSUME DiskInv, NEW p \in Procs, NEW t \in Threads, InstallStep(p, t)
  PROVE  DiskInv'
<1> USE DEF DiskInv
<1>1. /\ thread[p][t] \in Steps
      /\ Alive' = Alive
  BY DEF InstallStep, Download, Attach, Replace, Copy, Policy, rest, vars,
         Alive, Steps
<1>2. PICK to \in {"idle"} \cup Steps :
        \/ to # "idle" /\ Goes(p, t, to)
        \/ to = "idle" /\ Ends(p, t)
  BY DEF InstallStep, Download, Attach, Replace, Copy, Policy, Steps
<1>3. /\ thread' \in [Procs -> [Threads -> {"idle"} \cup Steps]]
      /\ thread'[p][t] = to
      /\ \A q \in Procs, u \in Threads :
           q # p \/ u # t => thread'[q][u] = thread[q][u]
      /\ busy' = IF to = "idle" THEN busy \ {p} ELSE busy
      /\ p \in busy
      /\ Single'
  BY <1>1, <1>2, StepOfOne DEF Steps
<1>4. \A u \in Threads : u # t => thread[p][u] = "idle"
  BY <1>1 DEF Single, Steps
<1>5. busy \subseteq Procs /\ mounted \subseteq Procs
  BY DEF DiskType, Alive
<1>6. thread[p][t] \notin {"replace", "copy"} => p \notin mounted
  BY <1>4 DEF Leftovers
<1>7. ~disturbed => \A q \in Procs, u \in Threads :
                      q # p \/ u # t => thread[q][u] = "idle"
  BY <1>3, <1>4 DEF Underway, Single
<1>8. \A q \in mounted : q # p =>
        \E u \in Threads : thread'[q][u] \in {"replace", "copy"}
  BY <1>3, <1>5 DEF Leftovers
<1>9. \A q \in Procs, u \in Threads :
        /\ thread[q][u] \notin {"idle", "policy"}
        /\ q # p \/ u # t
        => thread'[q][u] \notin {"idle", "policy"}
  BY <1>3
<1>10. CASE Download(p, t)
  <2>1. UNCHANGED <<bundle, ready, ditto, removing, shown, disturbed>>
    BY <1>10 DEF Download, rest
  <2>2. Underway' /\ ReadyIsLocked'
    <3>1. thread'[p][t] \notin {"copy", "policy"}
      BY <1>10 DEF Download, Goes, Ends, DiskType
    <3> QED
      BY <1>3, <1>7, <2>1, <3>1 DEF Underway, ReadyIsLocked
  <2>3. CASE Goes(p, t, "attach") /\ UNCHANGED <<mounted, left, excused>>
    <3>1. dmg' \in BOOLEAN
      BY <1>10 DEF Download, CleanUp, DiskType
    <3>2. DiskType'
      BY <1>1, <1>3, <1>5, <2>1, <2>3, <3>1 DEF DiskType
    <3>3. thread'[p][t] \notin {"idle", "policy"}
      BY <2>3 DEF Goes, DiskType
    <3>4. Leftovers'
      BY <1>6, <1>8, <1>10, <2>3, <3>3 DEF Leftovers, Download
    <3> QED
      BY <1>3, <2>2, <3>2, <3>4
  <2>4. CASE CleanUp(p)
    <3>1. DiskType'
      BY <1>1, <1>3, <1>5, <2>1, <2>4, CleanUpLeaves DEF DiskType
    <3>2. Leftovers'
      BY <1>8, <2>4, CleanUpLeaves DEF Leftovers
    <3> QED
      BY <1>3, <2>2, <3>1, <3>2
  <2> QED
    BY <1>10, <2>3, <2>4 DEF Download
<1>11. CASE Attach(p, t)
  <2>1. UNCHANGED <<bundle, ready, ditto, removing, shown, disturbed>>
    BY <1>11 DEF Attach, rest
  <2>2. Underway' /\ ReadyIsLocked'
    <3>1. thread'[p][t] \notin {"copy", "policy"}
      BY <1>11 DEF Attach, Goes, Ends, DiskType
    <3> QED
      BY <1>3, <1>7, <2>1, <3>1 DEF Underway, ReadyIsLocked
  <2>3. CASE /\ mounted' = mounted \cup {p}
             /\ Goes(p, t, "replace")
             /\ UNCHANGED <<dmg, left, excused>>
    <3>1. DiskType'
      BY <1>1, <1>3, <1>5, <2>1, <2>3 DEF DiskType
    <3>2. thread'[p][t] = "replace"
      BY <2>3 DEF Goes, DiskType
    <3>3. Leftovers'
      BY <1>8, <2>3, <3>2 DEF Leftovers
    <3> QED
      BY <1>3, <2>2, <3>1, <3>3
  <2>4. CASE CleanUp(p)
    <3>1. DiskType'
      BY <1>1, <1>3, <1>5, <2>1, <2>4, CleanUpLeaves DEF DiskType
    <3>2. Leftovers'
      BY <1>8, <2>4, CleanUpLeaves DEF Leftovers
    <3> QED
      BY <1>3, <2>2, <3>1, <3>2
  <2>5. CASE /\ left' = TRUE /\ excused' = TRUE /\ dmg' \in BOOLEAN
             /\ UNCHANGED mounted
    <3>1. DiskType'
      BY <1>1, <1>3, <1>5, <2>1, <2>5 DEF DiskType
    <3>2. p \notin mounted
      BY <1>6, <1>11 DEF Attach
    <3>3. Leftovers'
      BY <1>8, <2>5, <3>2 DEF Leftovers
    <3> QED
      BY <1>3, <2>2, <3>1, <3>3
  <2> QED
    BY <1>11, <2>3, <2>4, <2>5 DEF Attach
<1>12. CASE Replace(p, t)
  <2>1. UNCHANGED <<ready, ditto, removing, shown, disturbed>>
    BY <1>12 DEF Replace, rest
  <2>2. bundle' \in {"absent", "half", "bare", "locked"}
    BY <1>12 DEF Replace, DiskType
  <2>3. CASE /\ bundle' = "absent"
             /\ Goes(p, t, "copy")
             /\ UNCHANGED <<dmg, mounted, left, excused>>
    <3>1. thread'[p][t] = "copy" /\ busy' = busy
      BY <2>3 DEF Goes, DiskType
    <3>2. DiskType'
      BY <1>1, <1>3, <2>1, <2>3, <3>1 DEF DiskType
    <3>3. Underway' /\ ReadyIsLocked'
      BY <1>3, <1>7, <2>1, <2>3, <3>1 DEF Underway, ReadyIsLocked
    <3>4. Leftovers'
      BY <1>8, <2>3, <3>1 DEF Leftovers
    <3> QED
      BY <1>3, <3>2, <3>3, <3>4
  <2>4. CASE CleanUp(p) /\ Ends(p, t)
    <3>1. thread'[p][t] = "idle" /\ busy' = busy \ {p}
      BY <2>4 DEF Ends, DiskType
    <3>2. DiskType'
      BY <1>1, <1>3, <2>1, <2>2, <2>4, <3>1, CleanUpLeaves DEF DiskType
    <3>3. Underway' /\ ReadyIsLocked'
      BY <1>3, <1>7, <2>1, <3>1 DEF Underway, ReadyIsLocked
    <3>4. Leftovers'
      BY <1>8, <2>4, CleanUpLeaves DEF Leftovers
    <3> QED
      BY <1>3, <3>2, <3>3, <3>4
  <2> QED
    BY <1>12, <2>3, <2>4 DEF Replace
<1>13. CASE Copy(p, t)
  <2>1. UNCHANGED <<ready, ditto, removing, shown, disturbed>>
    BY <1>13 DEF Copy, rest
  <2>2. bundle' \in {"absent", "half", "bare", "locked"}
    BY <1>13 DEF Copy, DiskType
  <2>3. CleanUp(p)
    BY <1>13 DEF Copy
  <2>4. DiskType'
    BY <1>1, <1>3, <2>1, <2>2, <2>3, CleanUpLeaves DEF DiskType
  <2>5. Leftovers'
    BY <1>8, <2>3, CleanUpLeaves DEF Leftovers
  <2>6. CASE /\ bundle' \in {"bare"} \cup ({bundle} \cap {"locked"})
             /\ Goes(p, t, "policy")
    <3>1. thread'[p][t] = "policy" /\ busy' = busy
      BY <2>6 DEF Goes, DiskType
    <3>2. ~disturbed => bundle' = "bare"
      BY <1>13, <2>6 DEF Copy, Underway
    <3> QED
      BY <1>3, <1>7, <2>1, <2>4, <2>5, <3>1, <3>2 DEF Underway, ReadyIsLocked
  <2>7. CASE Ends(p, t)
    <3>1. thread'[p][t] = "idle" /\ busy' = busy \ {p}
      BY <2>7 DEF Ends, DiskType
    <3> QED
      BY <1>3, <1>7, <2>1, <2>4, <2>5, <3>1 DEF Underway, ReadyIsLocked
  <2> QED
    BY <1>13, <2>6, <2>7 DEF Copy
<1>14. CASE Policy(p, t)
  <2>1. /\ UNCHANGED <<dmg, mounted, left, excused, ditto, removing, shown>>
        /\ ready' = TRUE
        /\ Ends(p, t)
    BY <1>14 DEF Policy
  <2>2. /\ bundle' \in {"absent", "half", "bare", "locked"}
        /\ disturbed' \in BOOLEAN
        /\ ~disturbed' => ~disturbed /\ bundle' = "locked"
    <3>1. ~disturbed => bundle = "bare"
      BY <1>14 DEF Policy, Underway
    <3>2. CASE UNCHANGED disturbed
      BY <1>14, <3>1, <3>2 DEF Policy, DiskType
    <3>3. CASE disturbed' = TRUE /\ UNCHANGED bundle
      BY <3>3 DEF DiskType
    <3> QED
      BY <1>14, <3>2, <3>3 DEF Policy
  <2>3. thread'[p][t] = "idle" /\ busy' = busy \ {p}
    BY <2>1 DEF Ends, DiskType
  <2>4. DiskType'
    BY <1>1, <1>3, <2>1, <2>2, <2>3 DEF DiskType
  <2>5. Underway' /\ ReadyIsLocked'
    BY <1>3, <1>7, <2>1, <2>2, <2>3 DEF Underway, ReadyIsLocked
  <2>6. Leftovers'
    BY <1>6, <1>8, <1>9, <1>14, <2>1 DEF Leftovers, Policy
  <2> QED
    BY <1>3, <2>4, <2>5, <2>6
<1> QED
  BY <1>10, <1>11, <1>12, <1>13, <1>14 DEF InstallStep

LEMMA DiskInvariant == DesktopSpec => []DiskInv
<1>1. DesktopInit => DiskInv
  BY DiskInvInit DEF DesktopInit
<1>2. ASSUME DiskInv, [DesktopNext]_<<vars, firefox>>
      PROVE  DiskInv'
  <2>1. CASE UNCHANGED <<vars, firefox>>
    BY <1>2, <2>1
    DEF DiskInv, DiskType, Single, Underway, Leftovers, ReadyIsLocked, Alive,
        vars, firefox, disk, installer, history
  <2> QED
    BY <1>2, <2>1, LifeKeepsDisk, RowsKeep, InstallKeeps DEF DesktopNext
<1> QED
  BY <1>1, <1>2, PTL DEF DesktopSpec

(* What is announced as ready and enforced is a whole Firefox with its     *)
(* policy, and stays so, unless the policy failed or another touched it    *)
(* (firefox.rs 145-148).                                                   *)
THEOREM AnnouncedIsLocked == DesktopSpec => []ReadyIsLocked
<1>1. DiskInv => ReadyIsLocked
  BY DEF DiskInv
<1> QED
  BY <1>1, DiskInvariant, PTL

(* Neither volume nor image outlives an install that could clean up        *)
(* (firefox.rs 275-345).                                                   *)
THEOREM InstallCleansUp == DesktopSpec => []NothingLeft
<1>1. ASSUME DiskInv
      PROVE  NothingLeft
  <2>1. mounted \subseteq Procs
    BY <1>1 DEF DiskInv, DiskType, Alive
  <2>2. \A p \in mounted : AtWork(p) # {}
    BY <1>1, <2>1 DEF DiskInv, Leftovers, AtWork
  <2>3. dmg => Working(Procs) \/ excused
    BY <1>1 DEF DiskInv, Leftovers, Working, AtWork
  <2> QED
    BY <1>1, <2>2, <2>3 DEF DiskInv, Leftovers, NothingLeft
<1> QED
  BY <1>1, DiskInvariant, PTL

(* The busy flag of a process counts its installs at work, through         *)
(* relaunches, crashes and failures (main.rs 22-40).                       *)
THEOREM FlagCountsInstalls == DesktopSpec => []OneInstaller
<1>1. ASSUME DiskInv, NEW p \in Procs
      PROVE  Cardinality(AtWork(p)) = IF p \in busy THEN 1 ELSE 0
  <2>1. CASE p \notin busy
    <3>1. AtWork(p) = {}
      BY <1>1, <2>1 DEF DiskInv, Single, AtWork
    <3> QED
      BY <2>1, <3>1, FS_EmptySet
  <2>2. CASE p \in busy
    <3>1. PICK t \in Threads : thread[p][t] # "idle"
      BY <1>1, <2>2 DEF DiskInv, Single
    <3>2. AtWork(p) = {t}
      BY <1>1, <3>1 DEF DiskInv, Single, AtWork
    <3> QED
      BY <2>2, <3>2, FS_Singleton
  <2> QED
    BY <2>1, <2>2
<1>2. DiskInv => OneInstaller
  BY <1>1 DEF OneInstaller
<1> QED
  BY <1>2, DiskInvariant, PTL

-----------------------------------------------------------------------------
(* The state of the desktop stays well-formed: the place of the bundle,    *)
(* the two switches, the daemons, and the threads that install Firefox,    *)
(* which only daemons that live have.                                      *)
THEOREM DesktopTypeCorrect == DesktopSpec => []DesktopTypeOK
<1>1. AgentInv /\ DiskInv => DesktopTypeOK
  BY DEF AgentInv, DiskInv, DiskType, DesktopTypeOK
<1> QED
  BY <1>1, AgentInvariant, DiskInvariant, PTL
=============================================================================
