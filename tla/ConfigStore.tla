----------------------------- MODULE ConfigStore -----------------------------
(***************************************************************************)
(* config.json and its three writers, each a read-modify-write of the      *)
(* whole file with no lock between them:                                   *)
(*                                                                         *)
(*   - the configuration editor (app/src/gui.rs), a process of its own     *)
(*     that loads once and saves its draft when told to;                   *)
(*   - the daemon's menu thread (app/src/main.rs), which flips one field;  *)
(*   - the daemon's tunnel thread (app/src/tunnel.rs), which records the   *)
(*     host key of a profile that has none (trust on first use).           *)
(*                                                                         *)
(* A save replaces the file in one step: see module AtomicFile for when it *)
(* does.  A host stands for all of a profile's connection settings and for *)
(* the key its server presents.                                            *)
(***************************************************************************)
EXTENDS Naturals, FiniteSets

CONSTANTS
  Names,        \* profile names
  DefaultName,  \* the one name of the default configuration
  NoName,
  Hosts,
  DefaultHost,
  NoPin,        \* host_key_fingerprint = None
  Clicks,       \* menu rows in use: a subset of {"http", "any"}
  MayBreak,     \* does a hand edit leave the file unreadable?
  Broken,       \* the contents of a file that does not parse
  Closed,       \* the draft of an editor that is not open
  MaxEdits,     \* bound on the edits made in the editor
  MaxClicks     \* bound on the clicks on the menu's rows

ASSUME StoreAssumption ==
  /\ DefaultName \in Names
  /\ NoName \notin Names
  /\ DefaultHost \in Hosts
  /\ NoPin \notin Hosts
  /\ Clicks \subseteq {"http", "any"}
  /\ MayBreak \in BOOLEAN
  /\ MaxEdits \in Nat
  /\ MaxClicks \in Nat

(* http: http.enabled.  any: socks.listen_addr is 0.0.0.0, and not         *)
(* 127.0.0.1.  same: the HTTP listener is on 127.0.0.1 and SOCKS's port.   *)
Profile ==
  [host : Hosts, pin : Hosts \cup {NoPin}, http : BOOLEAN, any : BOOLEAN,
   same : BOOLEAN]

Profiles == UNION {[D -> Profile] : D \in SUBSET Names}

(* An editor that deleted its last profile has the empty name as active. *)
Config == [active : Names \cup {NoName}, profiles : Profiles]

DefaultProfile ==
  [host |-> DefaultHost, pin |-> NoPin, http |-> TRUE, any |-> TRUE,
   same |-> FALSE]

OneProfile(p) ==
  [active |-> DefaultName,
   profiles |-> [n \in {DefaultName} |-> p]]

Default == OneProfile(DefaultProfile)

Clash(p) == p.http /\ p.same /\ ~p.any

-----------------------------------------------------------------------------
(* Mutant: only the active profile is looked at. *)
ValidActiveOnly(c) ==
  /\ c.active \in DOMAIN c.profiles
  /\ ~Clash(c.profiles[c.active])

(* ConfigFile::validate: the active profile exists, and an enabled HTTP    *)
(* listener has another address or port than the SOCKS listener.           *)
Valid(c) ==
  /\ c.active \in DOMAIN c.profiles
  /\ \A n \in DOMAIN c.profiles : ~Clash(c.profiles[n])

(* Mutant: a file that parses is taken as it is. *)
ReadableUnchecked(f) == f # Broken

(* ConfigFile::load succeeds. *)
Readable(f) == f # Broken /\ Valid(f)

LoadOrDefault(f) == IF Readable(f) THEN f ELSE Default

(* c with profile n set to p, and c without profile n. *)
Put(c, n, p) ==
  [active |-> c.active,
   profiles |-> [m \in DOMAIN c.profiles \cup {n} |->
                   IF m = n THEN p ELSE c.profiles[m]]]

Drop(c, n) ==
  [active |-> c.active,
   profiles |-> [m \in DOMAIN c.profiles \ {n} |-> c.profiles[m]]]

VARIABLES
  file,       \* what config.json holds
  draft,      \* the editor's copy, or Closed
  selected,   \* the profile it shows
  confirm,    \* the profile its delete dialog asks about
  edits,      \* edits made so far
  run,        \* the daemon's profile, read once at start: its name and copy
  box,        \* the check marks of the two menu rows
  menu,       \* the menu thread: "idle", saving a row, or "leaving"
  menuCopy,   \* the file it has loaded
  clicks,     \* clicks made so far
  session,    \* the tunnel thread: "idle", "authed", "recording"
  tofuCopy    \* the file it has loaded

editorVars == <<draft, selected, confirm, edits>>
menuVars == <<box, menu, menuCopy, clicks>>
tunnelVars == <<session, tofuCopy>>
vars == <<file, editorVars, run, menuVars, tunnelVars>>

RunOf(c) == [name |-> c.active, profile |-> c.profiles[c.active]]

BoxOf(r) == [http |-> r.profile.http, any |-> r.profile.any]

(* The user's first configuration: the default one, or with both proxies   *)
(* on one port.                                                            *)
Init ==
  /\ file \in {Default, OneProfile([DefaultProfile EXCEPT !.same = TRUE])}
  /\ draft = Closed
  /\ selected = NoName
  /\ confirm = NoName
  /\ edits = 0
  /\ run = RunOf(file)
  /\ box = BoxOf(run)
  /\ menu = "idle"
  /\ menuCopy = Default
  /\ clicks = 0
  /\ session = "idle"
  /\ tofuCopy = Default

-----------------------------------------------------------------------------
(* The daemon starts, or restarts for whatever reason: the watcher saw a   *)
(* change, the menu relaunches it, it crashed.  What its threads were      *)
(* doing is gone.                                                          *)
Restart ==
  /\ run' = RunOf(LoadOrDefault(file))
  /\ box' = BoxOf(run')
  /\ menu' = "idle"
  /\ menuCopy' = Default
  /\ session' = "idle"
  /\ tofuCopy' = Default
  /\ UNCHANGED <<file, editorVars, clicks>>

(* A hand edit. *)
Break ==
  /\ MayBreak
  /\ file' = Broken
  /\ UNCHANGED <<editorVars, run, menuVars, tunnelVars>>

-----------------------------------------------------------------------------
(* ConfigApp *)

(* new, and the Discard button: the dialog stays as it is. *)
Load ==
  /\ draft' = LoadOrDefault(file)
  /\ selected' = draft'.active
  /\ UNCHANGED <<file, edits, run, menuVars, tunnelVars>>

Open ==
  /\ draft = Closed
  /\ Load
  /\ confirm' = NoName

Discard ==
  /\ draft # Closed
  /\ Load
  /\ UNCHANGED confirm

Close ==
  /\ draft # Closed
  /\ draft' = Closed
  /\ selected' = NoName
  /\ confirm' = NoName
  /\ UNCHANGED <<file, edits, run, menuVars, tunnelVars>>

Editing ==
  /\ draft # Closed
  /\ edits < MaxEdits
  /\ edits' = edits + 1
  /\ UNCHANGED <<file, run, menuVars, tunnelVars>>

Select(n) ==
  /\ draft # Closed
  /\ n \in DOMAIN draft.profiles
  /\ selected' = n
  /\ UNCHANGED <<file, draft, confirm, edits, run, menuVars,
                 tunnelVars>>

AddProfile(n) ==
  /\ Editing
  /\ n \notin DOMAIN draft.profiles
  /\ draft' = Put(draft, n, DefaultProfile)
  /\ selected' = n
  /\ UNCHANGED confirm

Duplicate(n) ==
  /\ Editing
  /\ n \notin DOMAIN draft.profiles
  /\ selected \in DOMAIN draft.profiles
  /\ draft' = Put(draft, n, draft.profiles[selected])
  /\ selected' = n
  /\ UNCHANGED confirm

AskDelete ==
  /\ draft # Closed
  /\ Cardinality(DOMAIN draft.profiles) > 1
  /\ selected \in DOMAIN draft.profiles
  /\ confirm' = selected
  /\ UNCHANGED <<file, draft, selected, edits, run, menuVars,
                 tunnelVars>>

(* The dialog does not stop the user from using the rest of the window. *)
ConfirmDelete ==
  /\ Editing
  /\ confirm # NoName
  /\ LET left == Drop(draft, confirm)
     IN  IF draft.active # confirm
         THEN draft' = left
         ELSE \E n \in IF DOMAIN left.profiles = {}
                       THEN {NoName} ELSE DOMAIN left.profiles :
                draft' = [left EXCEPT !.active = n]
  /\ selected' = draft'.active
  /\ confirm' = NoName

CancelDelete ==
  /\ confirm # NoName
  /\ confirm' = NoName
  /\ UNCHANGED <<file, draft, selected, edits, run, menuVars,
                 tunnelVars>>

SetActive ==
  /\ Editing
  /\ selected \in DOMAIN draft.profiles
  /\ selected # draft.active
  /\ draft' = [draft EXCEPT !.active = selected]
  /\ UNCHANGED <<selected, confirm>>

(* A field of the selected profile, which the form writes straight into    *)
(* the draft; the Forget button clears the pin.                            *)
EditProfile ==
  /\ Editing
  /\ selected \in DOMAIN draft.profiles
  /\ LET p == draft.profiles[selected]
     IN  \E q \in {[p EXCEPT !.host = h] : h \in Hosts}
                    \cup {[p EXCEPT !.http = ~@], [p EXCEPT !.any = ~@],
                          [p EXCEPT !.same = ~@]} :
           draft' = Put(draft, selected, q)
  /\ UNCHANGED <<selected, confirm>>

ForgetPin ==
  /\ Editing
  /\ selected \in DOMAIN draft.profiles
  /\ draft.profiles[selected].pin # NoPin
  /\ draft' = Put(draft, selected, [draft.profiles[selected] EXCEPT !.pin = NoPin])
  /\ UNCHANGED <<selected, confirm>>

(* Mutant: no pre-flight validation. *)
SaveUnchecked ==
  /\ draft # Closed
  /\ file' = draft
  /\ UNCHANGED <<editorVars, run, menuVars, tunnelVars>>

Save ==
  /\ draft # Closed
  /\ Valid(draft)
  /\ file' = draft
  /\ UNCHANGED <<editorVars, run, menuVars, tunnelVars>>

Editor ==
  \/ Open
  \/ Discard
  \/ Close
  \/ \E n \in Names : Select(n)
  \/ \E n \in Names : AddProfile(n)
  \/ \E n \in Names : Duplicate(n)
  \/ AskDelete
  \/ ConfirmDelete
  \/ CancelDelete
  \/ SetActive
  \/ EditProfile
  \/ ForgetPin
  \/ Save

-----------------------------------------------------------------------------
(* The menu thread *)

Flip(row) == [box EXCEPT ![row] = ~@]

(* A click flips the check mark before the handler runs.  A file that does *)
(* not load ends it: the HTTP row is put back, the other one is not.       *)
Click(row) ==
  /\ menu = "idle"
  /\ row \in Clicks
  /\ clicks < MaxClicks
  /\ clicks' = clicks + 1
  /\ IF Readable(file)
     THEN box' = Flip(row) /\ menu' = row /\ menuCopy' = file
     ELSE /\ box' = IF row = "http" THEN box ELSE Flip(row)
          /\ UNCHANGED <<menu, menuCopy>>
  /\ UNCHANGED <<file, editorVars, run, tunnelVars>>

(* The row's field of the active profile of the copy. *)
Edited(row) ==
  Put(menuCopy, menuCopy.active,
      [menuCopy.profiles[menuCopy.active] EXCEPT ![row] = box[row]])

(* Mutant: set_http_enabled does not validate. *)
HttpSavesUnchecked ==
  /\ menu = "http"
  /\ file' = Edited("http")
  /\ menu' = "leaving"
  /\ UNCHANGED <<editorVars, run, box, menuCopy, clicks, tunnelVars>>

(* set_http_enabled validates, saves and relaunches; *)
HttpSaves ==
  /\ menu = "http"
  /\ Valid(Edited("http"))
  /\ file' = Edited("http")
  /\ menu' = "leaving"
  /\ UNCHANGED <<editorVars, run, box, menuCopy, clicks, tunnelVars>>

(* Mutant: the check mark is not put back. *)
HttpRefusedKeepsMark ==
  /\ menu = "http"
  /\ menu' = "idle"
  /\ UNCHANGED <<file, editorVars, run, box, menuCopy, clicks, tunnelVars>>

(* if it refuses, or the save fails, the check mark is put back; *)
HttpRefused ==
  /\ menu = "http"
  /\ box' = Flip("http")
  /\ menu' = "idle"
  /\ UNCHANGED <<file, editorVars, run, menuCopy, clicks, tunnelVars>>

(* update_listen_addr saves and relaunches; *)
AnySaves ==
  /\ menu = "any"
  /\ file' = Edited("any")
  /\ menu' = "leaving"
  /\ UNCHANGED <<editorVars, run, box, menuCopy, clicks, tunnelVars>>

(* and if the save fails, that is all. *)
AnyFails ==
  /\ menu = "any"
  /\ menu' = "idle"
  /\ UNCHANGED <<file, editorVars, run, box, menuCopy, clicks, tunnelVars>>

Menu ==
  \/ \E row \in {"http", "any"} : Click(row)
  \/ HttpSaves
  \/ HttpRefused
  \/ AnySaves
  \/ AnyFails

-----------------------------------------------------------------------------
(* The tunnel thread: persist_tofu_fingerprint, after an authenticated     *)
(* connection by a daemon that has no pin in memory.                       *)

Connect ==
  /\ session = "idle"
  /\ run.profile.pin = NoPin
  /\ session' = "authed"
  /\ UNCHANGED <<file, editorVars, run, menuVars, tofuCopy>>

(* Nothing to do if the file does not load, the profile is gone, or it has *)
(* a pin already.                                                          *)
TofuLoads ==
  /\ session = "authed"
  /\ IF /\ Readable(file)
        /\ run.name \in DOMAIN file.profiles
        /\ file.profiles[run.name].pin = NoPin
     THEN session' = "recording" /\ tofuCopy' = file
     ELSE session' = "idle" /\ UNCHANGED tofuCopy
  /\ UNCHANGED <<file, editorVars, run, menuVars>>

(* Mutant: the profile's name is written for the fingerprint. *)
TofuSavesName ==
  /\ session = "recording"
  /\ file' = Put(tofuCopy, run.name,
                 [tofuCopy.profiles[run.name] EXCEPT !.pin = run.name])
  /\ session' = "idle"
  /\ UNCHANGED <<editorVars, run, menuVars, tofuCopy>>

TofuSaves ==
  /\ session = "recording"
  /\ file' = Put(tofuCopy, run.name,
                 [tofuCopy.profiles[run.name] EXCEPT !.pin = run.profile.host])
  /\ session' = "idle"
  /\ UNCHANGED <<editorVars, run, menuVars, tofuCopy>>

(* The save fails; the next session tries again. *)
TofuFails ==
  /\ session = "recording"
  /\ session' = "idle"
  /\ UNCHANGED <<file, editorVars, run, menuVars, tofuCopy>>

Tofu == Connect \/ TofuLoads \/ TofuSaves \/ TofuFails

Next == Restart \/ Break \/ Editor \/ Menu \/ Tofu

Spec == Init /\ [][Next]_vars

-----------------------------------------------------------------------------
TypeOK ==
  /\ file \in Config \cup {Broken}
  /\ draft \in Config \cup {Closed}
  /\ selected \in Names \cup {NoName}
  /\ confirm \in Names \cup {NoName}
  /\ edits \in 0..MaxEdits
  /\ run \in [name : Names, profile : Profile]
  /\ box \in [http : BOOLEAN, any : BOOLEAN]
  /\ menu \in {"idle", "http", "any", "leaving"}
  /\ menuCopy \in Config
  /\ clicks \in 0..MaxClicks
  /\ session \in {"idle", "authed", "recording"}
  /\ tofuCopy \in Config

(* No writer but the listen row, from however stale a copy, puts on disk a *)
(* configuration that the next start rejects for the default profile       *)
(* (main.rs 828-834, gui.rs 90-92).                                        *)
OnlyListenRowInvalidates ==
  [][file' # file /\ file' # Broken /\ ~Valid(file') =>
       menu = "any" /\ menu' = "leaving"]_vars

(* The copies the menu and tunnel threads are about to save are sound, and *)
(* the profile to be pinned is in its copy (main.rs 824-831, tunnel.rs     *)
(* 361-369).                                                               *)
CopiesValid ==
  /\ Valid(menuCopy)
  /\ Valid(tofuCopy)
  /\ session = "recording" => run.name \in DOMAIN tofuCopy.profiles

(* The check mark of the HTTP row is what the daemon runs with, except     *)
(* between a click and its outcome (main.rs 502-504).                      *)
HttpMarkHonest == menu = "idle" => box.http = run.profile.http

(* Whatever is on disk, the daemon does not start with both proxies on one *)
(* address and port, which leaves one of them unbound (config.rs 206-225). *)
RunsWithoutClash == ~Clash(run.profile)
=============================================================================
